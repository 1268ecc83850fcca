------------------------------- MODULE Offload -------------------------------
(***************************************************************************)
(* How Dyssect's working cores share rings with the offloading cores.      *)
(*                                                                         *)
(* Core w has two rings: it puts packets for its offloading core into q    *)
(* and keeps the other, myring, to itself.  An offloading core polls the   *)
(* rings in its vector Q in turn; rings enter and leave Q through its      *)
(* control queues toAdd and toRemove, written by the controller and by the *)
(* working cores.  When the ratio, the relationship or the shards change,  *)
(* a signalled core takes the packets in q back: transfer_r swaps the two  *)
(* rings, transfer_offloading and transfer_shard move the packets over.    *)
(*                                                                         *)
(* pending[e] holds what is in both control queues of e, in the order it   *)
(* was enqueued; each queue is the subsequence of one kind, and the        *)
(* offloading core takes from each in its own order.                       *)
(*                                                                         *)
(* Rings are single-consumer and control queues single-producer.  Two      *)
(* dequeues of a ring at a time leave an arbitrary count.  Two enqueues of *)
(* a control queue at a time set raced: entries may be lost or garbage, and*)
(* nothing is claimed of what follows.                                     *)
(*                                                                         *)
(* A ring is its number of packets.  Which packets are offloaded (r, cdf)  *)
(* is left open, as are the owners of the shards, ShardMigration's subject.*)
(* The controller begins an epoch when the cores are done with the last    *)
(* one, so the transfer flags do not change under a core that reads them;  *)
(* nothing makes it wait for the offloading cores.                         *)
(***************************************************************************)
EXTENDS Integers, Sequences, FiniteSets

CONSTANTS
    W, E,       \* working and offloading cores
    BURST,      \* packets per dequeue
    RING,       \* packets a ring can hold
    WORD,       \* modulus of an offloading core's counter, more than the
                \* rings in a vector Q
    MaxEpoch,   \* bound: decisions of the controller
    RatioCores, \* bound: cores whose ratios change
    ShardCores  \* bound: cores that lose shards

ASSUME SizesAssumption ==
    /\ W \in Nat \ {0} /\ E \in Nat \ {0} /\ E <= W
    /\ BURST \in Nat \ {0} /\ RING \in Nat \ {0}
    /\ WORD \in Nat \ {0} /\ MaxEpoch \in Nat
    /\ RatioCores \subseteq 0 .. W - 1 /\ ShardCores \subseteq 0 .. W - 1

Cores == 0 .. W - 1
Offs  == 0 .. E - 1
Rings == Cores \X {1, 2}
NONE  == -1                     \* UINT32_MAX
Entry == [op : {"remove", "add"}, ring : Rings]

VARIABLES
    \* controller
    cpc, cw, epoch, O, newO,
    \* shared: the cores asked for each transfer, and the control queues
    transfer_r, transfer_offloading, transfer_shard, controller_signal,
    new_offloading, pending,
    \* working cores; qi[w] says which ring of w is q
    pc, qi, myown, offloading_idx,
    fill,
    \* offloading cores
    opc, Q, cnt,
    \* history: a control queue was enqueued by two at a time; rings whose
    \* entries were taken out of order; cores given back to their first
    \* offloading core; cores whose drain was cut short by process(); a shard
    \* moved
    raced, overtaken, returned, cut, moved

cvars == <<cpc, cw, epoch, O, newO>>
flagvars == <<transfer_r, transfer_offloading, transfer_shard,
              controller_signal, new_offloading>>
wvars == <<qi, myown, offloading_idx>>
ovars == <<opc, Q, cnt>>
hvars == <<raced, overtaken, returned, cut, moved>>
vars == <<cvars, flagvars, pending, pc, wvars, fill, ovars, hvars>>

q(w)      == <<w, qi[w]>>
myring(w) == <<w, 3 - qi[w]>>

RoundRobin == [w \in Cores |-> w % E]

(* init_queues hands the ring of each core to its first offloading core. *)
Init ==
    /\ cpc = "idle" /\ cw = 0 /\ epoch = 0
    /\ O = RoundRobin /\ newO = RoundRobin
    /\ transfer_r = {} /\ transfer_offloading = {} /\ transfer_shard = {}
    /\ controller_signal = {}
    /\ new_offloading = [w \in Cores |-> NONE]
    /\ pending = [e \in Offs |->
                    [k \in 1 .. Cardinality({w \in Cores : w % E = e}) |->
                        [op |-> "add", ring |-> <<(k - 1) * E + e, 1>>]]]
    /\ pc = [w \in Cores |-> "top"]
    /\ qi = [w \in Cores |-> 1]
    /\ myown = [w \in Cores |-> FALSE]
    /\ offloading_idx = RoundRobin
    /\ fill = [x \in Rings |-> 0]
    /\ opc = [e \in Offs |-> "remove"]
    /\ Q = [e \in Offs |-> <<>>]
    /\ cnt = [e \in Offs |-> 0]
    /\ raced = FALSE /\ overtaken = {} /\ returned = {}
    /\ cut = {} /\ moved = FALSE

Lesser(a, b) == IF a < b THEN a ELSE b

-----------------------------------------------------------------------------
(* Control queues and rings.                                                *)

(* The control queue that w is about to enqueue, if any. *)
Target(w) ==
    CASE pc[w] \in {"rRemove", "oRemove", "sRemove"} ->
            <<"remove", offloading_idx[w]>>
      [] pc[w] \in {"rAdd", "sAdd"} -> <<"add", offloading_idx[w]>>
      [] pc[w] = "oAdd" -> <<"add", new_offloading[w]>>
      [] OTHER -> <<"none", NONE>>

(* rte_ring_enqueue by core w into its target *)
Enqueue(w) ==
    LET op == Target(w)[1]
        e  == Target(w)[2]
    IN  /\ pending' = [pending EXCEPT ![e] =
                          Append(@, [op |-> op, ring |-> q(w)])]
        /\ raced' = (raced \/ \E v \in Cores \ {w} : Target(v) = Target(w))

(* The ring an offloading core takes from next. *)
choose(e) == Q[e][(cnt[e] % Len(Q[e])) + 1]

(* The offloading cores that are in rte_ring_dequeue_burst on ring x. *)
Polling(x) == {e \in Offs : opc[e] = "deq" /\ choose(e) = x}

(* A working core is in rte_ring_dequeue_burst on ring x. *)
Taking(x) ==
    \/ pc[x[1]] = "own" /\ x = myring(x[1])
    \/ pc[x[1]] \in {"oMove", "sMove"} /\ x = q(x[1])

(* What a dequeue leaves in ring x, with n consumers at work on it. *)
Left(x, n) ==
    IF n = 1 THEN {fill[x] - Lesser(BURST, fill[x])} ELSE 0 .. RING

WorkerTakes(x) == Left(x, 1 + Cardinality(Polling(x)))

-----------------------------------------------------------------------------
(* The controller.                                                          *)

(* The relationships the solver's constraints admit: every offloading core  *)
(* serves a working core.                                                   *)
Feasible == {N \in [Cores -> Offs] : \A e \in Offs : \E w \in Cores : N[w] = e}

(* Core w has nothing left to do for the previous epoch. *)
Quiet(w) ==
    /\ w \notin controller_signal /\ ~myown[w]
    /\ pc[w] \in {"top", "process"}

(* The solver answered; update_ratio asks the owners of the shards whose    *)
(* ratio changes for transfer_r.  update_relationship has work to do only   *)
(* when the relationship changes; "same" says that nothing has changed yet. *)
CtlRatio ==
    /\ cpc = "idle" /\ epoch < MaxEpoch
    /\ \A w \in Cores : Quiet(w)
    /\ epoch' = epoch + 1
    /\ newO' \in Feasible
    /\ \E R \in SUBSET RatioCores :
          /\ transfer_r' = R
          /\ cpc' = IF newO' # O THEN "relate"
                    ELSE IF R # {} THEN "shards" ELSE "same"
    /\ cw' = 0
    /\ UNCHANGED <<O, transfer_offloading, transfer_shard, controller_signal,
                   new_offloading, pending, pc, wvars, fill, ovars, hvars>>

CtlNext(again, after) ==
    IF cw + 1 < W THEN cpc' = again /\ cw' = cw + 1
                  ELSE cpc' = after /\ cw' = 0

(* update_relationship for core cw.  offloading_from_working, which decides *)
(* whether the core is told, still has its first value.                     *)
CtlRelate ==
    LET e == newO[cw]
    IN  /\ cpc = "relate"
        /\ IF e # O[cw] /\ RoundRobin[cw] # e
           THEN /\ new_offloading' = [new_offloading EXCEPT ![cw] = e]
                /\ transfer_offloading' = transfer_offloading \union {cw}
           ELSE UNCHANGED <<new_offloading, transfer_offloading>>
        /\ pending' = IF e # O[cw]
                      THEN [pending EXCEPT ![O[cw]] =
                               Append(@, [op |-> "remove", ring |-> q(cw)])]
                      ELSE pending
        /\ returned' = IF e # O[cw] /\ RoundRobin[cw] = e
                       THEN returned \union {cw} ELSE returned
        /\ O' = [O EXCEPT ![cw] = e]
        /\ CtlNext("relate", "shards")
        /\ UNCHANGED <<epoch, newO, transfer_r, transfer_shard,
                       controller_signal, pc, wvars, fill, ovars, raced,
                       overtaken, cut, moved>>

(* update_shards asks the cores that lose a shard for transfer_shard.  The  *)
(* cores are signalled if anything has changed.                             *)
CtlShards ==
    /\ cpc \in {"shards", "same"}
    /\ \E M \in SUBSET ShardCores :
          /\ transfer_shard' = M /\ moved' = (moved \/ M # {})
          /\ cpc' = IF cpc = "same" /\ M = {} THEN "idle" ELSE "signal"
    /\ UNCHANGED <<cw, epoch, O, newO, transfer_r, transfer_offloading,
                   controller_signal, new_offloading, pending, pc, wvars, fill,
                   ovars, raced, overtaken, returned, cut>>

CtlSignal ==
    /\ cpc = "signal"
    /\ controller_signal' = controller_signal \union {cw}
    /\ CtlNext("signal", "idle")
    /\ UNCHANGED <<epoch, O, newO, transfer_r, transfer_offloading,
                   transfer_shard, new_offloading, pending, pc, wvars, fill,
                   ovars, hvars>>

Controller == CtlRelate \/ CtlShards \/ CtlSignal

-----------------------------------------------------------------------------
(* A working core.                                                          *)

Goto(w, l) == pc' = [pc EXCEPT ![w] = l]

(* The transfers asked for are made in this order. *)
AfterRatio(w) ==
    IF w \in transfer_offloading THEN "oRemove"
    ELSE IF w \in transfer_shard THEN "sRemove" ELSE "clear"

AfterOffloading(w) == IF w \in transfer_shard THEN "sRemove" ELSE "clear"

(* The start of run_task, while the private ring is worked off ... *)
Drain(w) ==
    /\ pc[w] = "top" /\ myown[w]
    /\ IF fill[myring(w)] = 0
       THEN myown' = [myown EXCEPT ![w] = FALSE] /\ UNCHANGED pc
       ELSE Goto(w, "own") /\ UNCHANGED myown
    /\ UNCHANGED <<cvars, flagvars, pending, qi, offloading_idx, fill, ovars,
                   hvars>>

(* ... and on a signal. *)
Signalled(w) ==
    /\ pc[w] = "top" /\ ~myown[w] /\ w \in controller_signal
    /\ Goto(w, IF w \in transfer_r THEN "ratio" ELSE AfterRatio(w))
    /\ UNCHANGED <<cvars, flagvars, pending, wvars, fill, ovars, hvars>>

(* Mutant: the drain ends with its first burst. *)
OwnBurstLast(w) ==
    /\ pc[w] = "own"
    /\ \E n \in WorkerTakes(myring(w)) : fill' = [fill EXCEPT ![myring(w)] = n]
    /\ myown' = [myown EXCEPT ![w] = FALSE]
    /\ Goto(w, "top")
    /\ UNCHANGED <<cvars, flagvars, pending, qi, offloading_idx, ovars, hvars>>

(* A burst of the private ring is processed. *)
OwnBurst(w) ==
    /\ pc[w] = "own"
    /\ \E n \in WorkerTakes(myring(w)) : fill' = [fill EXCEPT ![myring(w)] = n]
    /\ Goto(w, "top")
    /\ UNCHANGED <<cvars, flagvars, pending, wvars, ovars, hvars>>

(* transfer_r, when there are packets in q: it will be removed ... *)
TransferR(w) ==
    /\ pc[w] = "ratio"
    /\ IF fill[q(w)] # 0
       THEN Goto(w, "rRemove") /\ UNCHANGED transfer_r
       ELSE Goto(w, AfterRatio(w)) /\ transfer_r' = transfer_r \ {w}
    /\ UNCHANGED <<cvars, transfer_offloading, transfer_shard,
                   controller_signal, new_offloading, pending, wvars, fill,
                   ovars, hvars>>

(* Mutant: the old q is not removed. *)
SwapRingsNoRemove(w) ==
    /\ pc[w] = "rRemove"
    /\ myown' = [myown EXCEPT ![w] = TRUE]
    /\ qi' = [qi EXCEPT ![w] = 3 - @]
    /\ Goto(w, "rAdd")
    /\ UNCHANGED <<cvars, flagvars, pending, offloading_idx, fill, ovars, hvars>>

(* ... and the rings are swapped ... *)
SwapRings(w) ==
    /\ pc[w] = "rRemove"
    /\ Enqueue(w)
    /\ myown' = [myown EXCEPT ![w] = TRUE]
    /\ qi' = [qi EXCEPT ![w] = 3 - @]
    /\ Goto(w, "rAdd")
    /\ UNCHANGED <<cvars, flagvars, offloading_idx, fill, ovars, overtaken,
                   returned, cut, moved>>

(* ... and the new q is added. *)
AddSwapped(w) ==
    /\ pc[w] = "rAdd"
    /\ Enqueue(w)
    /\ transfer_r' = transfer_r \ {w}
    /\ Goto(w, AfterRatio(w))
    /\ UNCHANGED <<cvars, transfer_offloading, transfer_shard,
                   controller_signal, new_offloading, wvars, fill, ovars,
                   overtaken, returned, cut, moved>>

(* Mutant: transfer_shard does not ask for the removal. *)
RemoveQNotForShards(w) ==
    /\ pc[w] \in {"oRemove", "sRemove"}
    /\ IF pc[w] = "oRemove" THEN Enqueue(w) ELSE UNCHANGED <<pending, raced>>
    /\ Goto(w, IF pc[w] = "oRemove" THEN "oTest" ELSE "sTest")
    /\ UNCHANGED <<cvars, flagvars, wvars, fill, ovars, overtaken, returned,
                   cut, moved>>

(* transfer_offloading and transfer_shard first ask for the removal of q.   *)
(* transfer_shard then drains the rx queue, of any number of packets, into  *)
(* myring.                                                                  *)
RemoveQ(w) ==
    /\ pc[w] \in {"oRemove", "sRemove"}
    /\ Enqueue(w)
    /\ \/ /\ pc[w] = "oRemove" /\ Goto(w, "oTest")
          /\ UNCHANGED <<myown, fill>>
       \/ /\ pc[w] = "sRemove" /\ Goto(w, "sTest")
          /\ UNCHANGED <<myown, fill>>
       \/ /\ pc[w] = "sRemove" /\ Goto(w, "sTest")
          /\ myown' = [myown EXCEPT ![w] = TRUE]
          /\ \E n \in 0 .. RING :
                fill' = [fill EXCEPT ![myring(w)] = Lesser(RING, @ + n)]
    /\ UNCHANGED <<cvars, flagvars, qi, offloading_idx, ovars, overtaken,
                   returned, cut, moved>>

(* while(rte_ring_count(q) != 0) ... *)
CountQ(w) ==
    /\ pc[w] \in {"oTest", "sTest"}
    /\ LET some == fill[q(w)] # 0
       IN  /\ myown' = [myown EXCEPT ![w] = @ \/ some]
           /\ Goto(w, IF pc[w] = "oTest"
                      THEN IF some THEN "oMove" ELSE "oAdd"
                      ELSE IF some THEN "sMove" ELSE "sAdd")
    /\ UNCHANGED <<cvars, flagvars, pending, qi, offloading_idx, fill, ovars,
                   hvars>>

(* ... move a burst from q to myring. *)
MoveQ(w) ==
    /\ pc[w] \in {"oMove", "sMove"}
    /\ \E n \in WorkerTakes(q(w)) :
          fill' = [fill EXCEPT
                     ![q(w)] = n,
                     ![myring(w)] = Lesser(RING, @ + Lesser(BURST, fill[q(w)]))]
    /\ Goto(w, IF pc[w] = "oMove" THEN "oTest" ELSE "sTest")
    /\ UNCHANGED <<cvars, flagvars, pending, wvars, ovars, hvars>>

(* Mutant: the core goes on naming its old offloading core. *)
EndOffloadingOld(w) ==
    /\ pc[w] = "oAdd"
    /\ Enqueue(w)
    /\ new_offloading' = [new_offloading EXCEPT ![w] = NONE]
    /\ transfer_offloading' = transfer_offloading \ {w}
    /\ Goto(w, AfterOffloading(w))
    /\ UNCHANGED <<cvars, transfer_r, transfer_shard, controller_signal, wvars,
                   fill, ovars, overtaken, returned, cut, moved>>

(* The end of transfer_offloading: q goes to the new offloading core, which *)
(* update_relationship has always set.                                      *)
EndOffloading(w) ==
    /\ pc[w] = "oAdd"
    /\ Enqueue(w)
    /\ offloading_idx' = [offloading_idx EXCEPT ![w] = new_offloading[w]]
    /\ new_offloading' = [new_offloading EXCEPT ![w] = NONE]
    /\ transfer_offloading' = transfer_offloading \ {w}
    /\ Goto(w, AfterOffloading(w))
    /\ UNCHANGED <<cvars, transfer_r, transfer_shard, controller_signal, qi,
                   myown, fill, ovars, overtaken, returned, cut, moved>>

(* The end of transfer_shard: q is polled again. *)
EndShard(w) ==
    /\ pc[w] = "sAdd"
    /\ Enqueue(w)
    /\ transfer_shard' = transfer_shard \ {w}
    /\ Goto(w, "clear")
    /\ UNCHANGED <<cvars, transfer_r, transfer_offloading, controller_signal,
                   new_offloading, wvars, fill, ovars, overtaken, returned, cut, moved>>

ClearSignal(w) ==
    /\ pc[w] = "clear"
    /\ controller_signal' = controller_signal \ {w}
    /\ Goto(w, "process")
    /\ UNCHANGED <<cvars, transfer_r, transfer_offloading, transfer_shard,
                   new_offloading, pending, wvars, fill, ovars, hvars>>

(* process(): a shard handed over ends a drain; otherwise packets received  *)
(* may be put into q.                                                       *)
Process(w) ==
    /\ \/ pc[w] = "process"
       \/ pc[w] = "top" /\ ~myown[w] /\ w \notin controller_signal
    /\ \/ /\ moved /\ myown[w]
          /\ cut' = cut \union {w}
          /\ myown' = [myown EXCEPT ![w] = FALSE]
          /\ UNCHANGED fill
       \/ /\ ~myown[w] /\ w \in RatioCores \union ShardCores
          /\ fill' = [fill EXCEPT ![q(w)] = Lesser(RING, @ + 1)]
          /\ UNCHANGED <<myown, cut>>
       \/ UNCHANGED <<myown, fill, cut>>
    /\ Goto(w, "top")
    /\ UNCHANGED <<cvars, flagvars, pending, qi, offloading_idx, ovars, raced,
                   overtaken, returned, moved>>

Worker(w) ==
    \/ Drain(w) \/ Signalled(w) \/ OwnBurst(w)
    \/ TransferR(w) \/ SwapRings(w) \/ AddSwapped(w) \/ RemoveQ(w) \/ CountQ(w) \/ MoveQ(w)
    \/ EndOffloading(w) \/ EndShard(w) \/ ClearSignal(w) \/ Process(w)

-----------------------------------------------------------------------------
(* An offloading core.                                                      *)

Of(e, op) == {k \in DOMAIN pending[e] : pending[e][k].op = op}

(* Q.erase(std::remove(..., x), ...): the elements of s other than x. *)
Without(s, x) ==
    LET kept[n \in 0 .. Len(s)] ==
            IF n = 0 THEN <<>>
            ELSE IF s[n] = x THEN kept[n - 1] ELSE Append(kept[n - 1], s[n])
    IN  kept[Len(s)]

(* Mutant: std::remove without erase. *)
TakeEntryNoErase(e, op) ==
    LET k == CHOOSE i \in Of(e, op) : \A j \in Of(e, op) : i <= j
        x == pending[e][k].ring
    IN  /\ pending' = [pending EXCEPT ![e] =
                          SubSeq(@, 1, k - 1) \o SubSeq(@, k + 1, Len(@))]
        /\ overtaken' = IF \E j \in 1 .. k - 1 : pending[e][j].ring = x
                        THEN overtaken \union {x} ELSE overtaken
        /\ Q' = IF op = "add" THEN [Q EXCEPT ![e] = Append(@, x)] ELSE Q

(* rte_ring_dequeue of the control queue op: the ring it yields. *)
TakeEntry(e, op) ==
    LET k == CHOOSE i \in Of(e, op) : \A j \in Of(e, op) : i <= j
        x == pending[e][k].ring
    IN  /\ pending' = [pending EXCEPT ![e] =
                          SubSeq(@, 1, k - 1) \o SubSeq(@, k + 1, Len(@))]
        /\ overtaken' = IF \E j \in 1 .. k - 1 : pending[e][j].ring = x
                        THEN overtaken \union {x} ELSE overtaken
        /\ Q' = [Q EXCEPT ![e] =
                    IF op = "add" THEN Append(@, x) ELSE Without(@, x)]

(* All of toRemove is taken, then all of toAdd. *)
Control(e) ==
    /\ opc[e] \in {"remove", "add"}
    /\ Of(e, opc[e]) # {}
    /\ TakeEntry(e, opc[e])
    /\ UNCHANGED <<cvars, flagvars, pc, wvars, fill, opc, cnt, raced, returned, cut, moved>>

(* One of them is empty: go on, and choose a ring if there is one. *)
ControlEmpty(e) ==
    /\ \/ /\ opc[e] = "remove"
          /\ opc' = [opc EXCEPT ![e] = "add"]
       \/ /\ opc[e] = "add"
          /\ opc' = [opc EXCEPT ![e] = IF Q[e] = <<>> THEN "remove" ELSE "deq"]
    /\ Of(e, opc[e]) = {}
    /\ UNCHANGED <<cvars, flagvars, pending, pc, wvars, fill, Q, cnt, hvars>>

(* A burst of the ring chosen. *)
OffBurst(e) ==
    LET x == choose(e)
        n == Cardinality(Polling(x)) + (IF Taking(x) THEN 1 ELSE 0)
    IN  /\ opc[e] = "deq"
        /\ \E k \in Left(x, n) : fill' = [fill EXCEPT ![x] = k]
        /\ cnt' = [cnt EXCEPT ![e] = (@ + 1) % WORD]
        /\ opc' = [opc EXCEPT ![e] = "remove"]
        /\ UNCHANGED <<cvars, flagvars, pending, pc, wvars, Q, hvars>>

Offloader(e) == Control(e) \/ ControlEmpty(e) \/ OffBurst(e)

-----------------------------------------------------------------------------
Next ==
    \/ CtlRatio \/ Controller
    \/ \E w \in Cores : Worker(w)
    \/ \E e \in Offs : Offloader(e)

Spec == Init /\ [][Next]_vars

(* Each core runs its task for ever on a thread; the solver need not answer *)
(* again.                                                                   *)
FairSpec ==
    /\ Spec
    /\ WF_vars(Controller)
    /\ \A w \in Cores : WF_vars(Worker(w))
    /\ \A e \in Offs : WF_vars(Offloader(e))

-----------------------------------------------------------------------------
(* Properties.                                                              *)

WorkerLabels == {"top", "own", "ratio", "rRemove", "rAdd",
                 "oRemove", "sRemove", "oTest", "sTest", "oMove", "sMove",
                 "oAdd", "sAdd", "clear", "process"}

(* Every variable has its type. *)
TypeOK ==
    /\ cpc \in {"idle", "relate", "shards", "same", "signal"} /\ cw \in Cores
    /\ epoch \in 0 .. MaxEpoch
    /\ O \in [Cores -> Offs] /\ newO \in [Cores -> Offs]
    /\ transfer_r \subseteq Cores /\ transfer_offloading \subseteq Cores
    /\ transfer_shard \subseteq Cores /\ controller_signal \subseteq Cores
    /\ new_offloading \in [Cores -> Offs \union {NONE}]
    /\ pending \in [Offs -> Seq(Entry)]
    /\ pc \in [Cores -> WorkerLabels]
    /\ qi \in [Cores -> {1, 2}] /\ myown \in [Cores -> BOOLEAN]
    /\ offloading_idx \in [Cores -> Offs]
    /\ fill \in [Rings -> 0 .. RING]
    /\ opc \in [Offs -> {"remove", "add", "deq"}]
    /\ Q \in [Offs -> Seq(Rings)] /\ cnt \in [Offs -> 0 .. WORD - 1]
    /\ raced \in BOOLEAN /\ overtaken \subseteq Rings
    /\ returned \subseteq Cores /\ cut \subseteq Cores
    /\ moved \in BOOLEAN

(* State constraint: the code's behaviour is still defined. *)
Defined == ~raced

(* No transfer is under way and the control queues are empty. *)
Settled ==
    /\ cpc = "idle" /\ controller_signal = {}
    /\ \A w \in Cores : pc[w] \in {"top", "own", "process"}
    /\ \A e \in Offs : pending[e] = <<>>

(* Rings of core w were not taken from or given to Q out of order. *)
InOrder(w) == ~raced /\ \A x \in overtaken : x[1] # w

(* Once everything asked for has been done, the ring a core offloads to is  *)
(* polled by the offloading core the controller gave it, and is once in its *)
(* vector: run_task of the offloading core and the transfers agree.  The    *)
(* exceptions are a removal and an addition taken out of order, and a core  *)
(* given back to its first offloading core, which is not told.              *)
QueuePolled ==
    Settled => \A w \in Cores :
        InOrder(w) /\ w \notin returned =>
            /\ offloading_idx[w] = O[w]
            /\ Cardinality({k \in DOMAIN Q[O[w]] : Q[O[w]][k] = q(w)}) = 1

(* No offloading core but the one w names polls a ring of w, and none polls *)
(* its private ring, also when one signal swaps the rings (transfer_r) and  *)
(* changes the offloading core (transfer_offloading), and when the core was *)
(* not told.  The exception is an addition taken before a removal.          *)
NobodyElsePolls ==
    Settled => \A w \in Cores :
        InOrder(w) =>
            \A e \in Offs : \A k \in DOMAIN Q[e] :
                Q[e][k][1] = w => e = offloading_idx[w] /\ Q[e][k] = q(w)

(* A ring has one turn in a round of an offloading core, also while it is   *)
(* changing hands: no transfer adds it to a vector that still has it.       *)
RingOnce ==
    \A w \in Cores :
        InOrder(w) =>
            \A e \in Offs : \A j, k \in DOMAIN Q[e] :
                Q[e][j][1] = w /\ Q[e][j] = Q[e][k] => j = k

(* A ring with packets is dequeued by someone, in the order in which rings  *)
(* change hands: no packet waits in a ring nobody looks at.                 *)
RingServed ==
    \A x \in Rings :
        fill[x] # 0 ~> \/ Polling(x) # {} \/ Taking(x)
                       \/ ~InOrder(x[1]) \/ x[1] \in returned \union cut

(* A ring is dequeued by one core at a time, as RING_F_SC_DEQ promises.     *)
SingleConsumer ==
    \A x \in Rings :
        Cardinality(Polling(x)) + (IF Taking(x) THEN 1 ELSE 0) <= 1
=============================================================================
