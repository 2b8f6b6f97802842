--------------------------- MODULE MCEventProcessing ---------------------------
(***************************************************************************)
(* Instance of EventProcessing: two workers, one shard, events of one key. *)
(* The events of OkEvent evaluate; each of BadEvent is permanently         *)
(* unprocessable in one of the three ways.                                 *)
(***************************************************************************)
EXTENDS EventProcessing, TLC

CONSTANTS s1, k1, OkEvent, BadEvent

MCShard == {s1}
MCEvent == OkEvent \cup BadEvent
MCShardOf == [e \in MCEvent |-> s1]
MCKeyOf == [e \in MCEvent |-> k1]
MCKinds == {f \in [MCEvent -> EventKind] : \A e \in MCEvent : f[e] = "ok" <=> e \in OkEvent}
Symmetry == Permutations(Delivery)
=============================================================================
