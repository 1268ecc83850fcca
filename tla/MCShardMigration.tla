-------------------------- MODULE MCShardMigration --------------------------
(* Small instances of ShardMigration for TLC.                               *)
EXTENDS ShardMigration

(* One packet of each of the first two shards. *)
FirstTwo == [s \in Shards |-> IF s < 2 THEN 1 ELSE 0]

(* Two packets of shard 0, so that their order matters; one of the others.  *)
TwoOfFirst == [s \in Shards |-> IF s = 0 THEN 2 ELSE 1]
=============================================================================
