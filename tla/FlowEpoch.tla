------------------------------ MODULE FlowEpoch ------------------------------
(***************************************************************************)
(* The per-shard statistics that working cores write and the controller    *)
(* reads once per epoch.                                                   *)
(*                                                                         *)
(* A core that handles a packet of a known flow records the flow in one of *)
(* two tables, flows3 (1) or flows3_2 (2), the one use_2 selects, between  *)
(* an increment and a decrement of that table's ref_count; then it adds to *)
(* the shard's byte and packet counters.  At the end of an epoch the       *)
(* controller flips use_2, reads and clears the counters, runs the solver, *)
(* waits for the ref_count of the retired table to drop to 0, copies the   *)
(* table into ordered_flows, waits again and empties it.                   *)
(*                                                                         *)
(* One shard is modelled; the controller's loops treat the shards alike.   *)
(* Several cores may handle one shard, because the new owner of a migrating*)
(* shard never looks at pause (see ShardMigration).  The flow's own fields *)
(* (epoch, bytes, prob, cdf) are left out.                                 *)
(***************************************************************************)
EXTENDS Integers, Sequences, FiniteSets

CONSTANTS
    Workers,    \* the cores that handle packets of the shard
    Flows,      \* its non-priority flows
    NoFlow,     \* no packet in hand
    Cap         \* counts above Cap are not told apart

ASSUME WorkersAssumption == IsFiniteSet(Workers)
ASSUME NoFlowAssumption == NoFlow \notin Flows
ASSUME CapAssumption == Cap \in Nat \ {0}

Counters == {"bytes", "packets"}

VARIABLES
    \* shared: the shard's fields
    use_2, ref_count, flows3, table, count,
    \* controller
    cpc, old, ordered_flows,
    \* cores: where in extract_state, the flow in hand, the table chosen
    pc, flow, choice,
    \* history: cores that had chosen the retired table and not yet entered
    \* it when the controller stopped waiting; what each core recorded there
    \* since; counted + pending - added, per counter
    stragglers, late, surplus

cvars == <<cpc, old, ordered_flows, stragglers>>
wvars == <<pc, flow, choice, late>>
vars == <<use_2, ref_count, flows3, table, count, cvars, wvars, surplus>>

Tables == {1, 2}

(* The table workers write while use_2 has value b, and the one retired. *)
Active(b) == IF b THEN 2 ELSE 1
Retired == Active(~use_2)

Init ==
    /\ use_2 = FALSE
    /\ ref_count = [t \in Tables |-> 0]
    /\ flows3 = [t \in Tables |-> {}]
    /\ table = {}
    /\ count = [c \in Counters |-> 0]
    /\ cpc = "idle"
    /\ old = [c \in Counters |-> 0]
    /\ ordered_flows = {}
    /\ pc = [w \in Workers |-> "idle"]
    /\ flow = [w \in Workers |-> NoFlow]
    /\ choice = [w \in Workers |-> 1]
    /\ stragglers = {}
    /\ late = [w \in Workers |-> <<>>]
    /\ surplus = [c \in Counters |-> 0]

-----------------------------------------------------------------------------
(* A working core in extract_state.                                         *)

Goto(w, l) == pc' = [pc EXCEPT ![w] = l]

(* A packet arrives; the shard's flow table is searched. *)
LookUp(w, f) ==
    /\ pc[w] = "idle"
    /\ flow' = [flow EXCEPT ![w] = f]
    /\ Goto(w, IF f \in table THEN "choose" ELSE "create")
    /\ UNCHANGED <<use_2, ref_count, flows3, table, count, cvars, choice, late,
                   surplus>>

(* A new flow gets a state; it is not recorded for this epoch. *)
Create(w) ==
    /\ pc[w] = "create"
    /\ table' = table \union {flow[w]}
    /\ Goto(w, "bytes")
    /\ UNCHANGED <<use_2, ref_count, flows3, count, cvars, flow, choice, late,
                   surplus>>

(* Mutant: the table of the previous packet is used again. *)
ChooseStale(w) ==
    /\ pc[w] = "choose"
    /\ Goto(w, "enter")
    /\ UNCHANGED <<use_2, ref_count, flows3, table, count, cvars, flow, choice,
                   late, surplus>>

(* A known flow: read use_2 ... *)
Choose(w) ==
    /\ pc[w] = "choose"
    /\ choice' = [choice EXCEPT ![w] = Active(use_2)]
    /\ Goto(w, "enter")
    /\ UNCHANGED <<use_2, ref_count, flows3, table, count, cvars, flow, late,
                   surplus>>

(* ... register as a writer of that table ... *)
Enter(w) ==
    /\ pc[w] = "enter"
    /\ ref_count' = [ref_count EXCEPT ![choice[w]] = @ + 1]
    /\ Goto(w, "insert")
    /\ UNCHANGED <<use_2, flows3, table, count, cvars, flow, choice, late,
                   surplus>>

(* The controller no longer waits for the writers of the retired table. *)
PastWait == cpc \in {"scan", "wait2", "wipe"}

(* ... record the flow ... *)
Insert(w) ==
    /\ pc[w] = "insert"
    /\ flows3' = [flows3 EXCEPT ![choice[w]] = @ \union {flow[w]}]
    /\ late' = IF PastWait /\ choice[w] = Retired
               THEN [late EXCEPT ![w] = Append(@, flow[w])] ELSE late
    /\ Goto(w, "leave")
    /\ UNCHANGED <<use_2, ref_count, table, count, cvars, flow, choice, surplus>>

(* Mutant: use_2 is read again to find the count to decrement. *)
LeaveRereads(w) ==
    /\ pc[w] = "leave"
    /\ ref_count' = [ref_count EXCEPT ![Active(use_2)] = @ - 1]
    /\ choice' = [choice EXCEPT ![w] = 1]
    /\ Goto(w, "bytes")
    /\ UNCHANGED <<use_2, flows3, table, count, cvars, flow, late, surplus>>

(* ... and leave. *)
Leave(w) ==
    /\ pc[w] = "leave"
    /\ ref_count' = [ref_count EXCEPT ![choice[w]] = @ - 1]
    /\ choice' = [choice EXCEPT ![w] = 1]
    /\ Goto(w, "bytes")
    /\ UNCHANGED <<use_2, flows3, table, count, cvars, flow, late, surplus>>

(* Add the packet to the shard's counters, one atomic addition each. *)
Add(w, c) ==
    /\ pc[w] = c
    /\ count' = [count EXCEPT ![c] = IF @ < Cap THEN @ + 1 ELSE @]
    /\ Goto(w, IF c = "bytes" THEN "packets" ELSE "idle")
    /\ flow' = IF c = "packets" THEN [flow EXCEPT ![w] = NoFlow] ELSE flow
    /\ UNCHANGED <<use_2, ref_count, flows3, table, cvars, choice, late, surplus>>

Begin(w) == \E f \in Flows : LookUp(w, f)

Proceed(w) ==
    \/ Create(w) \/ Choose(w) \/ Enter(w) \/ Insert(w) \/ Leave(w)
    \/ \E c \in Counters : Add(w, c)

-----------------------------------------------------------------------------
(* The controller in update_short_epoch.                                    *)

(* swap_shards: flip use_2 ... *)
Flip ==
    /\ cpc = "idle"
    /\ use_2' = ~use_2
    /\ cpc' = "readbytes"
    /\ UNCHANGED <<ref_count, flows3, table, count, old, ordered_flows,
                   stragglers, wvars, surplus>>

(* ... read both counters ... *)
Read(c) ==
    /\ cpc = IF c = "bytes" THEN "readbytes" ELSE "readpackets"
    /\ old' = [old EXCEPT ![c] = count[c]]
    /\ surplus' = [surplus EXCEPT ![c] = @ + count[c]]
    /\ cpc' = IF c = "bytes" THEN "readpackets" ELSE "clearbytes"
    /\ UNCHANGED <<use_2, ref_count, flows3, table, count, ordered_flows,
                   stragglers, wvars>>

(* Mutant: the counters are not cleared. *)
ClearMissing(c) ==
    /\ cpc = IF c = "bytes" THEN "clearbytes" ELSE "clearpackets"
    /\ cpc' = IF c = "bytes" THEN "clearpackets" ELSE "wait1"
    /\ UNCHANGED <<use_2, ref_count, flows3, table, count, old, ordered_flows,
                   stragglers, wvars, surplus>>

(* ... and clear both.  What a core added since the read is forgotten. *)
Clear(c) ==
    /\ cpc = IF c = "bytes" THEN "clearbytes" ELSE "clearpackets"
    /\ count' = [count EXCEPT ![c] = 0]
    /\ surplus' = [surplus EXCEPT ![c] =
                     IF @ - count[c] < -Cap THEN -Cap ELSE @ - count[c]]
    /\ cpc' = IF c = "bytes" THEN "clearpackets" ELSE "wait1"
    /\ UNCHANGED <<use_2, ref_count, flows3, table, old, ordered_flows,
                   stragglers, wvars>>

(* Mutant: the writers of the active table are waited for. *)
WaitForActive ==
    /\ cpc = "wait1" /\ ref_count[Active(use_2)] = 0
    /\ cpc' = "scan"
    /\ stragglers' = {w \in Workers : pc[w] = "enter" /\ choice[w] = Retired}
    /\ ordered_flows' = {}
    /\ UNCHANGED <<use_2, ref_count, flows3, table, count, old, wvars, surplus>>

(* order_shards waits for the writers of the retired table ... *)
WaitBeforeScan ==
    /\ cpc = "wait1" /\ ref_count[Retired] = 0
    /\ cpc' = "scan"
    /\ stragglers' = {w \in Workers : pc[w] = "enter" /\ choice[w] = Retired}
    /\ ordered_flows' = {}
    /\ UNCHANGED <<use_2, ref_count, flows3, table, count, old, wvars, surplus>>

(* Mutant: the table in use is copied instead of the retired one. *)
ScanActive ==
    /\ cpc = "scan"
    /\ ordered_flows' = flows3[Active(use_2)]
    /\ cpc' = "wait2"
    /\ UNCHANGED <<use_2, ref_count, flows3, table, count, old, stragglers,
                   wvars, surplus>>

(* ... and copies the table into ordered_flows. *)
Scan ==
    /\ cpc = "scan"
    /\ ordered_flows' = flows3[Retired]
    /\ cpc' = "wait2"
    /\ UNCHANGED <<use_2, ref_count, flows3, table, count, old, stragglers,
                   wvars, surplus>>

(* Mutant: clear_flows waits for a writer instead of for none. *)
WaitForWriter ==
    /\ cpc = "wait2" /\ ref_count[Retired] # 0
    /\ cpc' = "wipe"
    /\ UNCHANGED <<use_2, ref_count, flows3, table, count, old, ordered_flows,
                   stragglers, wvars, surplus>>

(* clear_flows waits again ... *)
WaitBeforeWipe ==
    /\ cpc = "wait2" /\ ref_count[Retired] = 0
    /\ cpc' = "wipe"
    /\ UNCHANGED <<use_2, ref_count, flows3, table, count, old, ordered_flows,
                   stragglers, wvars, surplus>>

(* ... and empties the table. *)
Wipe ==
    /\ cpc = "wipe"
    /\ flows3' = [flows3 EXCEPT ![Retired] = {}]
    /\ cpc' = "idle"
    /\ stragglers' = {}
    /\ late' = [w \in Workers |-> <<>>]
    /\ UNCHANGED <<use_2, ref_count, table, count, old, ordered_flows, pc,
                   flow, choice, surplus>>

EpochStep ==
    \/ \E c \in Counters : Read(c)
    \/ \E c \in Counters : Clear(c)
    \/ WaitBeforeScan \/ Scan \/ WaitBeforeWipe \/ Wipe

-----------------------------------------------------------------------------
Next ==
    \/ Flip \/ EpochStep
    \/ \E w \in Workers : Begin(w) \/ Proceed(w)

Spec == Init /\ [][Next]_vars

(* A core that has begun a packet finishes it and the controller's task,    *)
(* once in an epoch, keeps running; packets and epochs need not come.       *)
FairSpec ==
    /\ Spec
    /\ WF_vars(EpochStep)
    /\ \A w \in Workers : WF_vars(Proceed(w))

-----------------------------------------------------------------------------
(* Properties.                                                              *)

(* Every variable has its type; a ref_count never drops below 0, which the  *)
(* spin loops' comparison with 0 relies on.                                 *)
TypeOK ==
    /\ use_2 \in BOOLEAN
    /\ ref_count \in [Tables -> Nat]
    /\ flows3 \in [Tables -> SUBSET Flows]
    /\ table \subseteq Flows
    /\ count \in [Counters -> 0 .. Cap]
    /\ cpc \in {"idle", "readbytes", "readpackets", "clearbytes",
                "clearpackets", "wait1", "scan", "wait2", "wipe"}
    /\ old \in [Counters -> 0 .. Cap]
    /\ ordered_flows \subseteq Flows
    /\ pc \in [Workers -> {"idle", "create", "choose", "enter", "insert",
                           "leave", "bytes", "packets"}]
    /\ flow \in [Workers -> Flows \union {NoFlow}]
    /\ \A w \in Workers : pc[w] # "idle" => flow[w] \in Flows
    /\ choice \in [Workers -> Tables]
    /\ stragglers \subseteq Workers
    /\ late \in [Workers -> Seq(Flows)]
    /\ surplus \in [Counters -> Int]

(* The cores between the increment and the decrement of table t's count. *)
Inside(t) ==
    {w \in Workers : pc[w] \in {"insert", "leave"} /\ choice[w] = t}

(* A core increments and decrements the same table's ref_count, although    *)
(* use_2 may flip in between: the count is the number of cores inside.      *)
RefCountExact == \A t \in Tables : ref_count[t] = Cardinality(Inside(t))

(* What the two waits give the controller: while it copies and empties the  *)
(* retired table, the only cores that may be writing it are those that had  *)
(* read use_2 before the flip and had not yet incremented when the first    *)
(* wait ended.  The waits exclude every registered writer, not those.       *)
GracePeriod == PastWait => Inside(Retired) \subseteq stragglers

(* Such a core spoils one retirement with one record at most: its next      *)
(* packet reads the flipped use_2.                                          *)
OneLateRecord ==
    \A w \in Workers : Len(late[w]) <= IF w \in stragglers THEN 1 ELSE 0

(* No record is forgotten but a late one: when the retired table is emptied,*)
(* a flow in it that ordered_flows lacks was recorded late.                 *)
RecordsOrdered ==
    cpc \in {"wait2", "wipe"} =>
        \A f \in flows3[Retired] \ ordered_flows :
            \E w \in stragglers : \E k \in DOMAIN late[w] : late[w][k] = f

(* Counter c is between its read and its clearing in swap_shards. *)
BeingRead(c) ==
    cpc \in IF c = "bytes" THEN {"readpackets", "clearbytes"}
                           ELSE {"clearbytes", "clearpackets"}

(* swap_shards reads a counter and clears it later, while cores add to it:  *)
(* additions can be lost, but none is counted in two epochs.                *)
NoDoubleCount ==
    \A c \in Counters :
        surplus[c] <= IF BeingRead(c) THEN old[c] ELSE 0

(* The controller's spin loops end although packets keep coming: cores that *)
(* begin a packet after the flip use the other table.                       *)
WaitsEnd == cpc \in {"wait1", "wait2"} ~> cpc = "idle"
=============================================================================
