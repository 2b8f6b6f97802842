--------------------------- MODULE MCShardConsumers ---------------------------
(* Instances of ShardConsumers: all shards start with the first worker.     *)
EXTENDS ShardConsumers

CONSTANTS w1, Others

MCWorker == {w1} \cup Others
MCFirstOwner == [s \in Shard |-> w1]
=============================================================================
