------------------------------ MODULE MCKeyQueue ------------------------------
(* Instances of KeyQueue: two items of one key and, optionally, one of a    *)
(* second key.                                                              *)
EXTENDS KeyQueue, TLC

CONSTANTS k1, k2, HotItem, OtherItem

MCKey == {k1, k2}
MCItem == HotItem \cup OtherItem
MCKeyOf == [i \in MCItem |-> IF i \in HotItem THEN k1 ELSE k2]
Symmetry == Permutations(Submitter) \cup Permutations(QWorker)
============================================================================
