--------------------------- MODULE ShardMigration ---------------------------
(***************************************************************************)
(* How Dyssect moves a shard of flows from one working core to another.    *)
(*                                                                         *)
(* The controller asks the solver for a new assignment of shards to cores, *)
(* marks the shards that move (owner_new, pause), rewrites the NIC's RSS   *)
(* indirection table, and signals the cores that lose a shard.  A signalled*)
(* core pulls what its rx queue holds into a private ring, processes the   *)
(* ring first, and then releases the shards (pause := 0, had_changes := 1  *)
(* at the new owner).                                                      *)
(*                                                                         *)
(* The configuration modelled is E = 0 (no offloading core): offloading_idx*)
(* is UINT32_MAX, every r is 0 and the ring q to the offloading core stays *)
(* empty, so transfer_r and transfer_offloading are never requested.       *)
(*                                                                         *)
(* Every test of shared memory and every store to it is a step of its own, *)
(* in program order; a loop over the shards is one step per iteration.     *)
(* owner and owner_new are plain fields written by several threads: where  *)
(* the code reads one twice, the compiler may reuse the first value or load*)
(* it again, and the model allows both.                                    *)
(***************************************************************************)
EXTENDS Integers, Sequences, FiniteSets

CONSTANTS
    W,          \* working cores
    NS,         \* total_shards
    BURST,      \* packets per rx or ring burst (_burst)
    QSIZE,      \* the most packets one drain plans for (qsize)
    NDESC,      \* descriptors of one rx queue (ndesc_in)
    RING,       \* packets a ring can hold
    WORD,       \* modulus of the unsigned counter of transfer_shard
    MaxEpoch,   \* bound: reassignments explored
    Budget,     \* bound: packets the network sends, per shard
    Overlap     \* may an epoch begin while a core still handles the last one?

ASSUME SizesAssumption ==
    /\ W \in Nat \ {0} /\ NS \in Nat \ {0} /\ NS >= W
    /\ BURST \in Nat \ {0} /\ QSIZE \in Nat \ {0} /\ RING \in Nat \ {0}
    /\ NDESC \in Nat \ {0}
    /\ WORD \in Nat /\ WORD > QSIZE /\ WORD > BURST
    /\ MaxEpoch \in Nat
    /\ Overlap \in BOOLEAN

Cores  == 0 .. W - 1
Shards == 0 .. NS - 1

ASSUME BudgetAssumption == Budget \in [Shards -> Nat]

NONE   == -1                      \* UINT32_MAX
Bit    == {0, 1}
Packet == Shards \X (Nat \ {0})   \* a shard and the packet's number in it

VARIABLES
    \* controller
    cpc, ci, ctarget, A, newA, epoch,
    \* shared memory and the NIC's indirection table
    owner, owner_new, pause, had_changes, transfer_shard, controller_signal,
    reta,
    \* working cores
    pc, ls, lnew, count, myown,
    \* packets: rx queue, private ring and batch in hand of each core
    rx, myring, busy, sent, done, leaked,
    \* history: cores whose drain was cut short or ran past its plan, and
    \* whether a shard's reassignments found the owner field correct
    aborted, overran, hist

cvars == <<cpc, ci, ctarget, A, newA, epoch, reta, hist>>
shardvars == <<owner, owner_new, pause>>
flagvars == <<had_changes, transfer_shard, controller_signal>>
wlocal == <<ls, lnew, count>>
pktvars == <<rx, myring, busy, sent, done, leaked>>
hvars == <<aborted, overran>>
vars == <<cvars, shardvars, flagvars, pc, wlocal, myown, pktvars, hvars>>

-----------------------------------------------------------------------------
(* Initial state: init_dpdk spreads the shards round robin, init_shards     *)
(* sets the owners alike; owner_new keeps the 0 of rte_zmalloc.             *)

RoundRobin == [s \in Shards |-> s % W]

Init ==
    /\ cpc = "idle" /\ ci = 0 /\ ctarget = 0 /\ epoch = 0
    /\ A = RoundRobin /\ newA = RoundRobin /\ reta = RoundRobin
    /\ owner = RoundRobin
    /\ owner_new = [s \in Shards |-> 0]
    /\ pause = [s \in Shards |-> 0]
    /\ had_changes = [w \in Cores |-> 0]
    /\ transfer_shard = [w \in Cores |-> 0]
    /\ controller_signal = [w \in Cores |-> 0]
    /\ pc = [w \in Cores |-> "top"]
    /\ ls = [w \in Cores |-> 0]
    /\ lnew = [w \in Cores |-> NONE]
    /\ count = [w \in Cores |-> 0]
    /\ myown = [w \in Cores |-> FALSE]
    /\ rx = [w \in Cores |-> <<>>]
    /\ myring = [w \in Cores |-> <<>>]
    /\ busy = [w \in Cores |-> <<>>]
    /\ sent = [s \in Shards |-> 0]
    /\ done = {} /\ leaked = {}
    /\ aborted = [w \in Cores |-> FALSE]
    /\ overran = [w \in Cores |-> FALSE]
    /\ hist = [s \in Shards |-> "none"]

Least(a, b) == IF a < b THEN a ELSE b
Elements(q) == {q[k] : k \in DOMAIN q}
Front(q, n) == SubSeq(q, 1, Least(n, Len(q)))
Rest(q, n)  == SubSeq(q, Least(n, Len(q)) + 1, Len(q))

-----------------------------------------------------------------------------
(* The controller.                                                          *)

(* Shards of core c under assignment B. *)
Load(B, c) == Cardinality({s \in Shards : B[s] = c})

(* The assignments the solver's constraints admit: one core per shard, no   *)
(* idle core, and loads that do not grow with the core number.              *)
Feasible ==
    {B \in [Shards -> Cores] :
        /\ \A c \in Cores : Load(B, c) >= 1
        /\ \A c \in Cores \ {W - 1} : Load(B, c) >= Load(B, c + 1)}

(* Core w has nothing left to do for the previous epoch. *)
Quiet(w) ==
    /\ controller_signal[w] = 0 /\ had_changes[w] = 0
    /\ ~myown[w] /\ pc[w] \in {"top", "rx", "work"}

(* The solver answered with an assignment that differs from A. *)
CtlSolve ==
    /\ cpc = "idle" /\ epoch < MaxEpoch
    /\ Overlap \/ \A w \in Cores : Quiet(w)
    /\ \E B \in Feasible : B # A /\ newA' = B
    /\ cpc' = "mark" /\ ci' = 0 /\ epoch' = epoch + 1
    /\ UNCHANGED <<ctarget, A, reta, hist, shardvars, flagvars, pc, wlocal,
                   myown, pktvars, hvars>>

(* The end of one iteration of a loop over the shards. *)
CtlNextShard(again, after) ==
    IF ci + 1 < NS THEN cpc' = again /\ ci' = ci + 1
                   ELSE cpc' = after /\ ci' = 0

(* migration_shard(s, w, false) returns: s does not move, or its owner      *)
(* field already names w.                                                   *)
CtlMarkSkip ==
    /\ cpc = "mark"
    /\ newA[ci] \in {A[ci], owner[ci]}
    /\ hist' = IF newA[ci] = A[ci] THEN hist
                                   ELSE [hist EXCEPT ![ci] = "stale"]
    /\ CtlNextShard("mark", "reta")
    /\ UNCHANGED <<ctarget, A, newA, epoch, reta, shardvars, flagvars, pc,
                   wlocal, myown, pktvars, hvars>>

(* migration_shard(s, w, false) names the new owner ... *)
CtlMark ==
    /\ cpc = "mark"
    /\ newA[ci] \notin {A[ci], owner[ci]}
    /\ owner_new' = [owner_new EXCEPT ![ci] = newA[ci]]
    /\ hist' = [hist EXCEPT ![ci] =
                   IF @ # "stale" /\ owner[ci] = A[ci] THEN "clean" ELSE "stale"]
    /\ cpc' = "pause"
    /\ UNCHANGED <<ci, ctarget, A, newA, epoch, reta, owner, pause, flagvars,
                   pc, wlocal, myown, pktvars, hvars>>

(* Mutant: the pause flag is not raised. *)
CtlPauseMissing ==
    /\ cpc = "pause"
    /\ CtlNextShard("mark", "reta")
    /\ UNCHANGED <<ctarget, A, newA, epoch, reta, hist, shardvars,
                   flagvars, pc, wlocal, myown, pktvars, hvars>>

(* ... and pauses the shard. *)
CtlPause ==
    /\ cpc = "pause"
    /\ pause' = [pause EXCEPT ![ci] = 1]
    /\ CtlNextShard("mark", "reta")
    /\ UNCHANGED <<ctarget, A, newA, epoch, reta, hist, owner, owner_new,
                   flagvars, pc, wlocal, myown, pktvars, hvars>>

(* Mutant: the indirection table is not written. *)
CtlRetaMissing ==
    /\ cpc = "reta"
    /\ cpc' = "notify"
    /\ UNCHANGED <<ci, ctarget, A, newA, epoch, reta, hist, shardvars,
                   flagvars, pc, wlocal, myown, pktvars, hvars>>

(* update_reta: the NIC now steers every shard by newA. *)
CtlReta ==
    /\ cpc = "reta"
    /\ reta' = newA /\ cpc' = "notify"
    /\ UNCHANGED <<ci, ctarget, A, newA, epoch, hist, shardvars, flagvars,
                   pc, wlocal, myown, pktvars, hvars>>

(* The second loop of update_shards ends by making newA the assignment. *)
CtlNextNotify ==
    /\ CtlNextShard("notify", "signal")
    /\ A' = IF cpc' = "signal" THEN newA ELSE A

(* migration_shard(s, w, true) returns early. *)
CtlNotifySkip ==
    /\ cpc = "notify"
    /\ newA[ci] \in {A[ci], owner[ci]}
    /\ CtlNextNotify
    /\ UNCHANGED <<ctarget, newA, epoch, reta, hist, shardvars, flagvars, pc,
                   wlocal, myown, pktvars, hvars>>

(* migration_shard(s, w, true) reads the owner to tell ... *)
CtlNotify ==
    /\ cpc = "notify"
    /\ newA[ci] \notin {A[ci], owner[ci]}
    /\ ctarget' = owner[ci] /\ cpc' = "tell"
    /\ UNCHANGED <<ci, A, newA, epoch, reta, hist, shardvars, flagvars, pc,
                   wlocal, myown, pktvars, hvars>>

(* ... and sets its transfer_shard flag. *)
CtlTell ==
    /\ cpc = "tell"
    /\ transfer_shard' = [transfer_shard EXCEPT ![ctarget] = 1]
    /\ CtlNextNotify
    /\ UNCHANGED <<ctarget, newA, epoch, reta, hist, shardvars, had_changes,
                   controller_signal, pc, wlocal, myown, pktvars, hvars>>

(* update_short_epoch signals every working core in turn. *)
CtlSignal ==
    /\ cpc = "signal"
    /\ controller_signal' = [controller_signal EXCEPT ![ci] = 1]
    /\ IF ci + 1 < W THEN ci' = ci + 1 /\ cpc' = cpc
                     ELSE ci' = 0 /\ cpc' = "idle"
    /\ UNCHANGED <<ctarget, A, newA, epoch, reta, hist, shardvars,
                   had_changes, transfer_shard, pc, wlocal, myown, pktvars,
                   hvars>>

Controller ==
    \/ CtlMarkSkip \/ CtlMark \/ CtlPause \/ CtlReta
    \/ CtlNotifySkip \/ CtlNotify \/ CtlTell \/ CtlSignal

-----------------------------------------------------------------------------
(* The NIC puts the next packet of shard s into the rx queue the table      *)
(* names; a full queue drops it before the program sees it.                 *)
NicReceive(s) ==
    /\ sent[s] < Budget[s]
    /\ Len(rx[reta[s]]) < NDESC
    /\ sent' = [sent EXCEPT ![s] = @ + 1]
    /\ rx' = [rx EXCEPT ![reta[s]] = Append(@, <<s, sent[s] + 1>>)]
    /\ UNCHANGED <<cvars, shardvars, flagvars, pc, wlocal, myown, myring,
                   busy, done, leaked, hvars>>

-----------------------------------------------------------------------------
(* A working core: one call of run_task goes from "top" back to "top".      *)

Goto(w, l) == pc' = [pc EXCEPT ![w] = l]

(* Mutant: the loop over the shards runs to s <= total_shards. *)
NextShardOneMore(w, again, after) ==
    IF ls[w] + 1 <= NS
    THEN ls' = [ls EXCEPT ![w] = @ + 1] /\ Goto(w, again)
    ELSE ls' = [ls EXCEPT ![w] = 0] /\ Goto(w, after)

(* The end of one iteration of a core's loop over the shards. *)
NextShard(w, again, after) ==
    IF ls[w] + 1 < NS
    THEN ls' = [ls EXCEPT ![w] = @ + 1] /\ Goto(w, again)
    ELSE ls' = [ls EXCEPT ![w] = 0] /\ Goto(w, after)

(* A drain is in progress: take the next burst from the private ring. *)
RingBurst(w) ==
    /\ pc[w] = "top" /\ myown[w] /\ myring[w] # <<>>
    /\ busy' = [busy EXCEPT ![w] = Front(myring[w], BURST)]
    /\ myring' = [myring EXCEPT ![w] = Rest(@, BURST)]
    /\ Goto(w, "work")
    /\ UNCHANGED <<cvars, shardvars, flagvars, wlocal, myown, rx, sent, done,
                   leaked, hvars>>

(* The packets in hand go through the network functions and out. *)
FinishBatch(w) ==
    /\ pc[w] = "work"
    /\ done' = done \union Elements(busy[w])
    /\ busy' = [busy EXCEPT ![w] = <<>>]
    /\ Goto(w, "top")
    /\ UNCHANGED <<cvars, shardvars, flagvars, wlocal, myown, rx, myring,
                   sent, leaked, hvars>>

(* Mutant: the drain ends and nothing is released. *)
DrainOverNoRelease(w) ==
    /\ pc[w] = "top" /\ myown[w] /\ myring[w] = <<>>
    /\ myown' = [myown EXCEPT ![w] = FALSE]
    /\ UNCHANGED <<cvars, shardvars, flagvars, pc, wlocal, pktvars, hvars>>

(* Mutant: myown stays set after the drain. *)
DrainOverKeepsMyown(w) ==
    /\ pc[w] = "top" /\ myown[w] /\ myring[w] = <<>>
    /\ Goto(w, "rel")
    /\ UNCHANGED <<cvars, shardvars, flagvars, wlocal, myown, pktvars, hvars>>

(* The ring has run empty: the drain is over and the releases begin. *)
DrainOver(w) ==
    /\ pc[w] = "top" /\ myown[w] /\ myring[w] = <<>>
    /\ myown' = [myown EXCEPT ![w] = FALSE]
    /\ Goto(w, "rel")
    /\ UNCHANGED <<cvars, shardvars, flagvars, wlocal, pktvars, hvars>>

(* The test of one shard before its release: after a drain ("rel") the      *)
(* shard must be paused, in transfer_shard ("trel") it need not be.         *)
MayRelease(w, s) ==
    /\ pc[w] = "rel" => pause[s] = 1
    /\ owner[s] = w /\ owner_new[s] # NONE

ReleaseTest(w) ==
    /\ pc[w] \in {"rel", "trel"}
    /\ IF MayRelease(w, ls[w])
       THEN /\ lnew' = [lnew EXCEPT ![w] = owner_new[ls[w]]]
            /\ Goto(w, IF pc[w] = "rel" THEN "relclear" ELSE "trelclear")
            /\ UNCHANGED ls
       ELSE /\ IF pc[w] = "rel" THEN Goto(w, "claim") /\ UNCHANGED ls
                                ELSE NextShard(w, "trel", "tclear")
            /\ UNCHANGED lnew
    /\ UNCHANGED <<cvars, shardvars, flagvars, count, myown, pktvars, hvars>>

ReleasePause(w) ==
    /\ pc[w] \in {"relclear", "trelclear"}
    /\ pause' = [pause EXCEPT ![ls[w]] = 0]
    /\ Goto(w, IF pc[w] = "relclear" THEN "reltell" ELSE "treltell")
    /\ UNCHANGED <<cvars, owner, owner_new, flagvars, wlocal, myown, pktvars,
                   hvars>>

(* had_changes[owner_new] := 1, with the owner_new of the test or a fresh   *)
(* load of it.  A load of UINT32_MAX indexes outside had_changes.           *)
ReleaseTell(w) ==
    /\ pc[w] \in {"reltell", "treltell"}
    /\ \E n \in {lnew[w], owner_new[ls[w]]} :
          IF n = NONE
          THEN Goto(w, "fault") /\ UNCHANGED <<had_changes, ls>>
          ELSE /\ had_changes' = [had_changes EXCEPT ![n] = 1]
               /\ IF pc[w] = "reltell" THEN Goto(w, "claim") /\ UNCHANGED ls
                                       ELSE NextShard(w, "trel", "tclear")
    /\ lnew' = [lnew EXCEPT ![w] = NONE]
    /\ UNCHANGED <<cvars, shardvars, transfer_shard, controller_signal, count,
                   myown, pktvars, hvars>>

(* Mutant: any unpaused shard is taken over. *)
MayClaimAny(w, s) == pause[s] = 0

(* The second half of an iteration after a drain: take over shard s if it   *)
(* is unpaused and offered to this core.                                    *)
MayClaim(w, s) == pause[s] = 0 /\ owner_new[s] = w

ClaimTest(w) ==
    /\ pc[w] = "claim"
    /\ IF MayClaim(w, ls[w]) THEN Goto(w, "claim1") /\ UNCHANGED ls
                             ELSE NextShard(w, "rel", "top")
    /\ UNCHANGED <<cvars, shardvars, flagvars, lnew, count, myown, pktvars,
                   hvars>>

ClaimOffer(w) ==
    /\ pc[w] = "claim1"
    /\ owner_new' = [owner_new EXCEPT ![ls[w]] = NONE]
    /\ Goto(w, "claim2")
    /\ UNCHANGED <<cvars, owner, pause, flagvars, wlocal, myown, pktvars,
                   hvars>>

ClaimOwner(w) ==
    /\ pc[w] = "claim2"
    /\ owner' = [owner EXCEPT ![ls[w]] = w]
    /\ NextShard(w, "rel", "top")
    /\ UNCHANGED <<cvars, owner_new, pause, flagvars, lnew, count, myown,
                   pktvars, hvars>>

(* Outside a drain run_task looks for the controller's signal. *)
SignalTest(w) ==
    /\ pc[w] = "top" /\ ~myown[w]
    /\ Goto(w, IF controller_signal[w] = 1 THEN "sig" ELSE "proc")
    /\ UNCHANGED <<cvars, shardvars, flagvars, wlocal, myown, pktvars, hvars>>

TransferTest(w) ==
    /\ pc[w] = "sig"
    /\ Goto(w, IF transfer_shard[w] = 1 THEN "count" ELSE "sclear")
    /\ UNCHANGED <<cvars, shardvars, flagvars, wlocal, myown, pktvars, hvars>>

(* Mutant: the drain is not limited to qsize. *)
DrainCountUnlimited(w) ==
    /\ pc[w] = "count"
    /\ count' = [count EXCEPT ![w] = Len(rx[w])]
    /\ Goto(w, "drain")
    /\ UNCHANGED <<cvars, shardvars, flagvars, ls, lnew, myown, pktvars,
                   hvars>>

(* transfer_shard: how many packets the drain plans to move. *)
DrainCount(w) ==
    /\ pc[w] = "count"
    /\ count' = [count EXCEPT ![w] = Least(Len(rx[w]), QSIZE)]
    /\ Goto(w, "drain")
    /\ UNCHANGED <<cvars, shardvars, flagvars, ls, lnew, myown, pktvars,
                   hvars>>

(* One burst from the rx queue to the ring.  What does not fit in the ring  *)
(* is neither kept nor freed; the counter wraps below zero when the burst   *)
(* is longer than what was left to move.                                    *)
DrainBurst(w) ==
    LET burst == Front(rx[w], BURST)
        kept  == Front(burst, RING - Len(myring[w]))
    IN  /\ pc[w] = "drain" /\ count[w] > 0 /\ rx[w] # <<>>
        /\ myown' = [myown EXCEPT ![w] = TRUE]
        /\ rx' = [rx EXCEPT ![w] = Rest(@, BURST)]
        /\ myring' = [myring EXCEPT ![w] = @ \o kept]
        /\ leaked' = leaked \union (Elements(burst) \ Elements(kept))
        /\ count' = [count EXCEPT ![w] = (@ - Len(burst)) % WORD]
        /\ overran' = [overran EXCEPT ![w] = @ \/ Len(burst) > count[w]]
        /\ UNCHANGED <<cvars, shardvars, flagvars, pc, ls, lnew, busy, sent,
                       done, aborted>>

(* Mutant: the shards are released whether or not packets were drained. *)
DrainEndReleases(w) ==
    /\ pc[w] = "drain" /\ (count[w] = 0 \/ rx[w] = <<>>)
    /\ myown' = [myown EXCEPT ![w] = @ \/ count[w] > 0]
    /\ count' = [count EXCEPT ![w] = 0]
    /\ Goto(w, "trel")
    /\ UNCHANGED <<cvars, shardvars, flagvars, ls, lnew, pktvars, hvars>>

(* The drain loop ends, having set myown even when its last burst was empty.*)
(* With nothing drained the shards are released at once.                    *)
DrainEnd(w) ==
    /\ pc[w] = "drain" /\ (count[w] = 0 \/ rx[w] = <<>>)
    /\ myown' = [myown EXCEPT ![w] = @ \/ count[w] > 0]
    /\ count' = [count EXCEPT ![w] = 0]
    /\ Goto(w, IF myown'[w] THEN "tclear" ELSE "trel")
    /\ UNCHANGED <<cvars, shardvars, flagvars, ls, lnew, pktvars, hvars>>

TransferClear(w) ==
    /\ pc[w] = "tclear"
    /\ transfer_shard' = [transfer_shard EXCEPT ![w] = 0]
    /\ Goto(w, "sclear")
    /\ UNCHANGED <<cvars, shardvars, had_changes, controller_signal, wlocal,
                   myown, pktvars, hvars>>

SignalClear(w) ==
    /\ pc[w] = "sclear"
    /\ controller_signal' = [controller_signal EXCEPT ![w] = 0]
    /\ Goto(w, "proc")
    /\ UNCHANGED <<cvars, shardvars, had_changes, transfer_shard, wlocal,
                   myown, pktvars, hvars>>

(* process(): look for shards handed to this core. *)
ChangesTest(w) ==
    /\ pc[w] = "proc"
    /\ Goto(w, IF had_changes[w] = 1 THEN "hc" ELSE "rx")
    /\ UNCHANGED <<cvars, shardvars, flagvars, wlocal, myown, pktvars, hvars>>

(* A shard handed over turns myown off.  Nothing is ever enqueued on the    *)
(* shard's local_queue, so there is nothing to move into the ring.          *)
ChangesShard(w) ==
    /\ pc[w] = "hc"
    /\ IF MayClaim(w, ls[w])
       THEN /\ myown' = [myown EXCEPT ![w] = FALSE]
            /\ aborted' = [aborted EXCEPT ![w] = @ \/ myring[w] # <<>>]
       ELSE UNCHANGED <<myown, aborted>>
    /\ NextShard(w, "hc", "hcclear")
    /\ UNCHANGED <<cvars, shardvars, flagvars, lnew, count, pktvars, overran>>

ChangesClear(w) ==
    /\ pc[w] = "hcclear"
    /\ had_changes' = [had_changes EXCEPT ![w] = 0]
    /\ Goto(w, "rx")
    /\ UNCHANGED <<cvars, shardvars, transfer_shard, controller_signal, wlocal,
                   myown, pktvars, hvars>>

(* process() reads the rx queue unless a drain is in progress. *)
RxBurst(w) ==
    /\ pc[w] = "rx" /\ ~myown[w] /\ rx[w] # <<>>
    /\ busy' = [busy EXCEPT ![w] = Front(rx[w], BURST)]
    /\ rx' = [rx EXCEPT ![w] = Rest(@, BURST)]
    /\ Goto(w, "work")
    /\ UNCHANGED <<cvars, shardvars, flagvars, wlocal, myown, myring, sent,
                   done, leaked, hvars>>

RxNothing(w) ==
    /\ pc[w] = "rx" /\ (myown[w] \/ rx[w] = <<>>)
    /\ Goto(w, "top")
    /\ UNCHANGED <<cvars, shardvars, flagvars, wlocal, myown, pktvars, hvars>>

Worker(w) ==
    \/ RingBurst(w) \/ FinishBatch(w) \/ DrainOver(w)
    \/ ReleaseTest(w) \/ ReleasePause(w) \/ ReleaseTell(w)
    \/ ClaimTest(w) \/ ClaimOffer(w) \/ ClaimOwner(w)
    \/ SignalTest(w) \/ TransferTest(w)
    \/ DrainCount(w) \/ DrainBurst(w) \/ DrainEnd(w)
    \/ TransferClear(w) \/ SignalClear(w)
    \/ ChangesTest(w) \/ ChangesShard(w) \/ ChangesClear(w)
    \/ RxBurst(w) \/ RxNothing(w)

-----------------------------------------------------------------------------
(* An access outside had_changes ends the process: nothing moves any more.  *)
Faulted == \E w \in Cores : pc[w] = "fault"

Halted == Faulted /\ UNCHANGED vars

Next ==
    \/ ~Faulted /\ (CtlSolve \/ Controller)
    \/ ~Faulted /\ \E s \in Shards : NicReceive(s)
    \/ ~Faulted /\ \E w \in Cores : Worker(w)
    \/ Halted

Spec == Init /\ [][Next]_vars

(* Every task reschedules itself on every path (fast_reschedule), and an    *)
(* epoch once begun runs to its end; new epochs and packets need not come.  *)
FairSpec ==
    /\ Spec
    /\ WF_vars(~Faulted /\ Controller)
    /\ \A w \in Cores : WF_vars(~Faulted /\ Worker(w))

-----------------------------------------------------------------------------
(* Properties.                                                              *)

Labels ==
    {"top", "work", "rel", "relclear", "reltell", "claim", "claim1", "claim2",
     "sig", "count", "drain", "trel", "trelclear", "treltell", "tclear",
     "sclear", "proc", "hc", "hcclear", "rx", "fault"}

(* Every variable has its type: no field of the handshake ever names a core *)
(* that does not exist, whatever the controller and the cores overwrite of  *)
(* each other's marks.                                                      *)
TypeOK ==
    /\ cpc \in {"idle", "mark", "pause", "reta", "notify", "tell", "signal"}
    /\ ci \in Shards /\ ctarget \in Cores /\ epoch \in Nat
    /\ A \in [Shards -> Cores] /\ newA \in [Shards -> Cores]
    /\ reta \in [Shards -> Cores]
    /\ owner \in [Shards -> Cores]
    /\ owner_new \in [Shards -> Cores \union {NONE}]
    /\ pause \in [Shards -> Bit]
    /\ had_changes \in [Cores -> Bit]
    /\ transfer_shard \in [Cores -> Bit]
    /\ controller_signal \in [Cores -> Bit]
    /\ pc \in [Cores -> Labels]
    /\ ls \in [Cores -> Shards]
    /\ lnew \in [Cores -> Cores \union {NONE}]
    /\ count \in [Cores -> 0 .. WORD - 1]
    /\ myown \in [Cores -> BOOLEAN]
    /\ rx \in [Cores -> Seq(Packet)]
    /\ myring \in [Cores -> Seq(Packet)]
    /\ busy \in [Cores -> Seq(Packet)]
    /\ sent \in [Shards -> Nat]
    /\ done \subseteq Packet /\ leaked \subseteq Packet
    /\ aborted \in [Cores -> BOOLEAN]
    /\ overran \in [Cores -> BOOLEAN]
    /\ hist \in [Shards -> {"none", "clean", "stale"}]

(* The packets the network may send within the bound. *)
Sendable == UNION {{<<s, n>> : n \in 1 .. Budget[s]} : s \in Shards}

(* What core w holds, in the order it will handle it while it drains. *)
Held(w) == busy[w] \o myring[w] \o rx[w]

(* transfer_shard ignores how many packets rte_ring_enqueue_burst took.  A  *)
(* packet is lost there only on a core whose drain was once cut short (the  *)
(* ring was not empty) or whose counter wrapped (the drain ran on).         *)
LeakNeedsBadDrain ==
    QSIZE <= RING /\ leaked # {} =>
        \E w \in Cores : aborted[w] \/ overran[w]

(* Core w holds a packet of shard s. *)
Holds(w, s) == \E p \in Elements(Held(w)) : p[1] = s

(* What the pause flag is for: once it is down again, only the core that    *)
(* the NIC steers the shard to holds packets of it, so no two cores touch   *)
(* the shard's tables.  It holds for a shard whose owner field was right at *)
(* every reassignment, and for drains that process() did not cut short.     *)
ReleasedShardHasOneCore ==
    \A s \in Shards : \A w \in Cores :
        /\ pause[s] = 0 /\ hist[s] # "stale"
        /\ Holds(w, s) /\ ~aborted[w]
        => w = reta[s]

(* The assignment the controller is installing or has installed. *)
Assigned == IF cpc \in {"idle", "signal"} THEN A ELSE newA

(* A shard reassigned cleanly is not forgotten: its new core is its owner,  *)
(* is offered to it (owner_new), or is just taking it over.  A core whose   *)
(* offer is lost is never told of the shard's next migration.               *)
OwnerFollowsAssignment ==
    \A s \in Shards : hist[s] = "clean" /\ cpc \in {"idle", "signal", "notify", "tell"}
        => \/ Assigned[s] \in {owner[s], owner_new[s]}
           \/ \E w \in Cores : pc[w] = "claim2" /\ ls[w] = s /\ w = Assigned[s]

(* The NIC's table is the assignment the controller works with: outside     *)
(* update_shards it is A, and from update_reta on it is newA.               *)
RetaAgrees ==
    IF cpc \in {"notify", "tell"} THEN reta = newA ELSE reta = A

(* The table is rewritten only once every shard that leaves its owner is    *)
(* paused: the first loop of update_shards completes before update_reta.    *)
RetaAfterPause ==
    [][reta' # reta =>
        \A s \in Shards : newA[s] \notin {A[s], owner[s]} => pause[s] = 1]_vars

(* A paused shard is released again: its owner is signalled, drains, and    *)
(* clears the flag, unless process() cut a drain short or the process died. *)
PauseReleased ==
    \A s \in Shards : pause[s] = 1 ~>
        pause[s] = 0 \/ Faulted \/ \E w \in Cores : aborted[w]

(* Every packet the NIC delivered is processed or was lost at a full ring,  *)
(* unless it is stranded in the ring of a core whose drain was cut short.   *)
PacketsProcessed ==
    \A p \in Sendable : sent[p[1]] >= p[2] ~>
        \/ p \in done \union leaked \/ Faulted
        \/ \E w \in Cores : aborted[w] /\ p \in Elements(myring[w])

(* A shard is on the move while it is paused.  It never settles again for   *)
(* the order of its packets once a reassignment found a wrong owner field,  *)
(* nor does any shard once process() cut a drain short.                     *)
Moving ==
    {s \in Shards : \/ pause[s] = 1 \/ hist[s] = "stale"
                    \/ \E w \in Cores : aborted[w]}

Service == INSTANCE ShardService WITH
    inside <- UNION {Elements(Held(w)) : w \in Cores},
    lost   <- leaked,
    moving <- Moving

(* The cores, their queues and rings implement ShardService: each packet is *)
(* handled or lost once, and a shard that is not on the move has its packets*)
(* handled in the order the NIC received them, also across a migration: the *)
(* old core's are all done before the flag goes down.                       *)
ImplementsService == Service!Spec

=============================================================================
