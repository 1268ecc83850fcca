---------------------------- MODULE ShardService ----------------------------
(***************************************************************************)
(* What the working cores together promise the network about the packets of*)
(* each shard, whichever core handles them: a packet received is handled   *)
(* once or, where a ring overflows, lost once, and the packets of a shard  *)
(* are handled in the order they came in, except while the shard moves     *)
(* from one core to another.                                               *)
(***************************************************************************)
EXTENDS Integers, FiniteSets

CONSTANT Shards

VARIABLES
    inside,         \* packets received and not yet handled, <<shard, number>>
    done, lost,     \* packets handled, packets lost
    moving          \* the shards whose order nobody promises

vars == <<inside, done, lost, moving>>

Received == inside \union done \union lost

Init == inside = {} /\ done = {} /\ lost = {} /\ moving \subseteq Shards

(* The next packet of a shard comes in. *)
Receive(s) ==
    /\ LET n == Cardinality({p \in Received : p[1] = s}) + 1
       IN  inside' = inside \union {<<s, n>>}
    /\ UNCHANGED <<done, lost, moving>>

(* A batch is handled: of a shard that does not move, its oldest packets. *)
Handle(batch) ==
    /\ \A p \in batch : \A q \in inside \ batch :
          q[1] = p[1] /\ p[1] \notin moving => p[2] < q[2]
    /\ inside' = inside \ batch /\ done' = done \union batch
    /\ UNCHANGED <<lost, moving>>

(* Packets that do not fit in a ring are forgotten. *)
Lose(batch) ==
    /\ inside' = inside \ batch /\ lost' = lost \union batch
    /\ UNCHANGED <<done, moving>>

(* Shards begin or cease to move. *)
Move ==
    /\ moving' \in SUBSET Shards
    /\ UNCHANGED <<inside, done, lost>>

Next ==
    \/ \E s \in Shards : Receive(s)
    \/ \E batch \in SUBSET inside : Handle(batch) \/ Lose(batch)
    \/ Move

Spec == Init /\ [][Next]_vars
=============================================================================
