------------------------------ MODULE MCShardLease ------------------------------
(***************************************************************************)
(* Instance of ShardLease: the start shards (ShardHash of the worker id)   *)
(* of two workers collide or differ with the configuration.                *)
(***************************************************************************)
EXTENDS ShardLease, TLC

CONSTANTS w1, w2

MCWorker == {w1, w2}
MCStartShard == w1 :> 0 @@ w2 :> NumShards - 1
=============================================================================
