--------------------------- MODULE FlowEpochProofs ---------------------------
(***************************************************************************)
(* Theorems about FlowEpoch for every finite set of cores and every set of *)
(* flows.                                                                  *)
(***************************************************************************)
EXTENDS FlowEpoch, FiniteSetTheorems, SequenceTheorems, TLAPS

(* Type correctness without the lower bound of ref_count, which needs       *)
(* RefCountExact.                                                           *)
TypeInv ==
    /\ use_2 \in BOOLEAN
    /\ ref_count \in [Tables -> Int]
    /\ flows3 \in [Tables -> SUBSET Flows]
    /\ table \subseteq Flows
    /\ count \in [Counters -> 0 .. Cap]
    /\ cpc \in {"idle", "readbytes", "readpackets", "clearbytes",
                "clearpackets", "wait1", "scan", "wait2", "wipe"}
    /\ old \in [Counters -> 0 .. Cap]
    /\ ordered_flows \subseteq Flows
    /\ pc \in [Workers -> {"idle", "create", "choose", "enter", "insert",
                           "leave", "bytes", "packets"}]
    /\ flow \in [Workers -> Flows \union {NoFlow}]
    /\ \A w \in Workers : pc[w] # "idle" => flow[w] \in Flows
    /\ choice \in [Workers -> Tables]
    /\ stragglers \subseteq Workers
    /\ late \in [Workers -> Seq(Flows)]
    /\ surplus \in [Counters -> Int]

(* Each core's steps keep the types. *)
LEMMA TypeWorker ==
  ASSUME TypeInv, NEW w \in Workers, Begin(w) \/ Proceed(w) PROVE TypeInv'
  <1> USE DEF TypeInv, Tables, cvars, Goto
  <1>1. ASSUME NEW f \in Flows, LookUp(w, f) PROVE TypeInv'
    BY <1>1 DEF LookUp
  <1>2. CASE Create(w)
    BY <1>2 DEF Create
  <1>3. CASE Choose(w)
    BY <1>3 DEF Choose, Active
  <1>4. CASE Enter(w)
    BY <1>4 DEF Enter
  <1>5. CASE Insert(w)
    <2>1. flow[w] \in Flows
      BY <1>5 DEF Insert
    <2>2. Append(late[w], flow[w]) \in Seq(Flows)
      BY <2>1, AppendProperties
    <2>3. late' \in [Workers -> Seq(Flows)]
      BY <1>5, <2>2 DEF Insert
    <2>4. flows3' \in [Tables -> SUBSET Flows]
      BY <1>5, <2>1 DEF Insert
    <2> QED
      BY <1>5, <2>3, <2>4 DEF Insert
  <1>6. CASE Leave(w)
    BY <1>6 DEF Leave
  <1>7. ASSUME NEW c \in Counters, Add(w, c) PROVE TypeInv'
    <2>1. count' \in [Counters -> 0 .. Cap]
      BY <1>7, CapAssumption DEF Add
    <2>2. /\ flow' \in [Workers -> Flows \union {NoFlow}]
          /\ \A v \in Workers : pc'[v] # "idle" => flow'[v] \in Flows
      BY <1>7 DEF Add, Counters
    <2> QED
      BY <1>7, <2>1, <2>2 DEF Add
  <1> QED
    BY <1>1, <1>2, <1>3, <1>4, <1>5, <1>6, <1>7 DEF Begin, Proceed

(* The controller's steps keep the types. *)
LEMMA TypeController ==
  ASSUME TypeInv, Flip \/ EpochStep PROVE TypeInv'
  <1> USE DEF TypeInv, wvars
  <1>0. Retired \in Tables
    BY DEF Retired, Active, Tables
  <1>1. CASE Flip
    BY <1>1 DEF Flip
  <1>2. ASSUME NEW c \in Counters, Read(c) PROVE TypeInv'
    <2>1. surplus' \in [Counters -> Int] /\ old' \in [Counters -> 0 .. Cap]
      BY <1>2, CapAssumption DEF Read
    <2> QED
      BY <1>2, <2>1 DEF Read
  <1>3. ASSUME NEW c \in Counters, Clear(c) PROVE TypeInv'
    <2>1. surplus' \in [Counters -> Int] /\ count' \in [Counters -> 0 .. Cap]
      BY <1>3, CapAssumption DEF Clear
    <2> QED
      BY <1>3, <2>1 DEF Clear
  <1>4. CASE WaitBeforeScan
    BY <1>4 DEF WaitBeforeScan
  <1>5. CASE Scan
    BY <1>5, <1>0 DEF Scan
  <1>6. CASE WaitBeforeWipe
    BY <1>6 DEF WaitBeforeWipe
  <1>7. CASE Wipe
    BY <1>7, <1>0, EmptySeq DEF Wipe
  <1> QED
    BY <1>1, <1>2, <1>3, <1>4, <1>5, <1>6, <1>7 DEF EpochStep

(* The types hold in every behaviour. *)
LEMMA TypeStable == Spec => []TypeInv
  <1>1. Init => TypeInv
    <2> SUFFICES ASSUME Init PROVE TypeInv
      OBVIOUS
    <2>1. 0 \in 0 .. Cap /\ 1 \in Tables /\ <<>> \in Seq(Flows)
      BY CapAssumption, EmptySeq DEF Tables
    <2>2. /\ ref_count \in [Tables -> Int] /\ surplus \in [Counters -> Int]
          /\ count \in [Counters -> 0 .. Cap] /\ old \in [Counters -> 0 .. Cap]
      BY <2>1 DEF Init
    <2>3. late \in [Workers -> Seq(Flows)] /\ choice \in [Workers -> Tables]
      BY <2>1 DEF Init
    <2> QED
      BY <2>1, <2>2, <2>3 DEF Init, TypeInv
  <1>2. TypeInv /\ [Next]_vars => TypeInv'
    <2> SUFFICES ASSUME TypeInv, [Next]_vars PROVE TypeInv'
      OBVIOUS
    <2>1. CASE UNCHANGED vars
      BY <2>1 DEF vars, cvars, wvars, TypeInv
    <2> QED
      BY <2>1, TypeWorker, TypeController DEF Next
  <1> QED
    BY <1>1, <1>2, PTL DEF Spec

-----------------------------------------------------------------------------
(* Reference counts.                                                        *)

(* Only finitely many cores are inside a table. *)
LEMMA InsideFinite ==
  ASSUME NEW t PROVE IsFiniteSet(Inside(t)) /\ Cardinality(Inside(t)) \in Nat
  <1>1. Inside(t) \subseteq Workers
    BY DEF Inside
  <1> QED
    BY <1>1, WorkersAssumption, FS_Subset, FS_CardinalityType

(* RefCountExact is inductive. *)
LEMMA RefCountStep ==
  ASSUME TypeInv, RefCountExact, [Next]_vars PROVE RefCountExact'
  <1>1. ASSUME NEW w \in Workers, Enter(w) PROVE RefCountExact'
    <2> SUFFICES ASSUME NEW t \in Tables
                 PROVE  ref_count'[t] = Cardinality(Inside(t)')
      BY DEF RefCountExact
    <2>1. CASE t = choice[w]
      <3>1. Inside(t)' = Inside(t) \union {w} /\ w \notin Inside(t)
        BY <1>1, <2>1 DEF Enter, Goto, Inside, TypeInv
      <3>2. Cardinality(Inside(t)') = Cardinality(Inside(t)) + 1
        BY <3>1, InsideFinite, FS_AddElement
      <3>3. ref_count'[t] = ref_count[t] + 1
        BY <1>1, <2>1 DEF Enter, TypeInv
      <3> QED
        BY <3>2, <3>3 DEF RefCountExact
    <2>2. CASE t # choice[w]
      <3>1. Inside(t)' = Inside(t)
        BY <1>1, <2>2 DEF Enter, Goto, Inside, TypeInv
      <3>2. ref_count'[t] = ref_count[t]
        BY <1>1, <2>2 DEF Enter, TypeInv
      <3> QED
        BY <3>1, <3>2 DEF RefCountExact
    <2> QED
      BY <2>1, <2>2
  <1>2. ASSUME NEW w \in Workers, Leave(w) PROVE RefCountExact'
    <2> SUFFICES ASSUME NEW t \in Tables
                 PROVE  ref_count'[t] = Cardinality(Inside(t)')
      BY DEF RefCountExact
    <2>1. CASE t = choice[w]
      <3>1. Inside(t)' = Inside(t) \ {w} /\ w \in Inside(t)
        BY <1>2, <2>1 DEF Leave, Goto, Inside, TypeInv
      <3>2. Cardinality(Inside(t)') = Cardinality(Inside(t)) - 1
        BY <3>1, InsideFinite, FS_RemoveElement
      <3>3. ref_count'[t] = ref_count[t] - 1
        BY <1>2, <2>1 DEF Leave, TypeInv
      <3> QED
        BY <3>2, <3>3 DEF RefCountExact
    <2>2. CASE t # choice[w]
      <3>1. Inside(t)' = Inside(t)
        BY <1>2, <2>2 DEF Leave, Goto, Inside, TypeInv
      <3>2. ref_count'[t] = ref_count[t]
        BY <1>2, <2>2 DEF Leave, TypeInv
      <3> QED
        BY <3>1, <3>2 DEF RefCountExact
    <2> QED
      BY <2>1, <2>2
  <1>3. ASSUME NEW w \in Workers,
               Begin(w) \/ Create(w) \/ Choose(w) \/ Insert(w)
                 \/ \E c \in Counters : Add(w, c)
        PROVE  RefCountExact'
    <2>1. ref_count' = ref_count
      BY <1>3 DEF Begin, LookUp, Create, Choose, Insert, Add
    <2>2. \A t \in Tables : Inside(t)' = Inside(t)
      <3>1. CASE Choose(w)
        BY <3>1 DEF Choose, Goto, Inside, TypeInv
      <3>2. CASE Insert(w)
        BY <3>2 DEF Insert, Goto, Inside, TypeInv
      <3>3. CASE Begin(w) \/ Create(w)
        BY <3>3 DEF Begin, LookUp, Create, Goto, Inside, TypeInv
      <3>4. CASE \E c \in Counters : Add(w, c)
        BY <3>4 DEF Add, Counters, Goto, Inside, TypeInv
      <3> QED
        BY <1>3, <3>1, <3>2, <3>3, <3>4
    <2> QED
      BY <2>1, <2>2 DEF RefCountExact
  <1>4. CASE Flip \/ EpochStep \/ UNCHANGED vars
    <2>1. ref_count' = ref_count /\ pc' = pc /\ choice' = choice
      BY <1>4 DEF Flip, EpochStep, Read, Clear, WaitBeforeScan, Scan,
                  WaitBeforeWipe, Wipe, wvars, vars
    <2> QED
      BY <2>1 DEF RefCountExact, Inside
  <1> QED
    BY <1>1, <1>2, <1>3, <1>4 DEF Next, Proceed

(* The count the controller spins on is, at every instant, the number of    *)
(* cores between its increment and its decrement, for any number of cores.  *)
THEOREM RefCountCorrect == Spec => []RefCountExact
  <1>1. Init => RefCountExact
    <2> SUFFICES ASSUME Init PROVE RefCountExact
      OBVIOUS
    <2>1. \A t \in Tables : Inside(t) = {}
      BY DEF Init, Inside
    <2> QED
      BY <2>1, FS_EmptySet DEF Init, RefCountExact
  <1> QED
    BY <1>1, RefCountStep, TypeStable, PTL DEF Spec

(* With the counts exact they are never negative: the full type invariant.  *)
THEOREM TypeCorrect == Spec => []TypeOK
  <1>1. TypeInv /\ RefCountExact => TypeOK
    <2> SUFFICES ASSUME TypeInv, RefCountExact PROVE TypeOK
      OBVIOUS
    <2>1. ref_count \in [Tables -> Nat]
      BY InsideFinite DEF RefCountExact, TypeInv
    <2> QED
      BY <2>1 DEF TypeInv, TypeOK
  <1> QED
    BY <1>1, TypeStable, RefCountCorrect, PTL

-----------------------------------------------------------------------------
(* The grace period.                                                        *)

(* Strengthening of GracePeriod: past the first wait, a core that goes for  *)
(* the retired table at all is a straggler.                                 *)
GraceInv ==
    PastWait => \A w \in Workers :
        /\ pc[w] \in {"enter", "insert", "leave"} /\ choice[w] = Retired
        => w \in stragglers

(* Strengthening of OneLateRecord: a core still on its way to the retired   *)
(* table has recorded nothing late.                                         *)
LateInv ==
    /\ OneLateRecord
    /\ ~PastWait => \A w \in Workers : late[w] = <<>>
    /\ \A w \in Workers :
          pc[w] \in {"enter", "insert"} /\ choice[w] = Retired => late[w] = <<>>

(* What the first wait establishes: no registered writer is left. *)
LEMMA WaitExcludesInside ==
  ASSUME TypeInv, RefCountExact, ref_count[Retired] = 0
  PROVE  Inside(Retired) = {}
  <1>1. Retired \in Tables
    BY DEF Retired, Active, Tables
  <1>2. Cardinality(Inside(Retired)) = 0
    BY <1>1 DEF RefCountExact
  <1> QED
    BY <1>2, InsideFinite, FS_EmptySet

(* Both strengthenings are inductive. *)
LEMMA GraceStep ==
  ASSUME TypeInv, RefCountExact, GraceInv, LateInv, [Next]_vars
  PROVE  GraceInv' /\ LateInv'
  <1> USE DEF GraceInv, LateInv, OneLateRecord, PastWait, Retired, TypeInv
  <1>0. Len(<<>>) = 0
    OBVIOUS
  <1>1. CASE UNCHANGED vars
    BY <1>1 DEF vars, cvars, wvars
  <1>2. ASSUME NEW w \in Workers, NEW f \in Flows, LookUp(w, f)
        PROVE  GraceInv' /\ LateInv'
    BY <1>2 DEF LookUp, Goto, cvars
  <1>3. ASSUME NEW w \in Workers, Create(w) PROVE GraceInv' /\ LateInv'
    BY <1>3 DEF Create, Goto, cvars
  <1>4. ASSUME NEW w \in Workers, Choose(w) PROVE GraceInv' /\ LateInv'
    BY <1>4 DEF Choose, Goto, cvars, Active
  <1>5. ASSUME NEW w \in Workers, Enter(w) PROVE GraceInv' /\ LateInv'
    BY <1>5 DEF Enter, Goto, cvars
  <1>6. ASSUME NEW w \in Workers, Insert(w) PROVE GraceInv' /\ LateInv'
    <2>1. GraceInv'
      BY <1>6 DEF Insert, Goto, cvars
    <2>2. CASE PastWait /\ choice[w] = Retired
      <3>1. w \in stragglers /\ late[w] = <<>> /\ flow[w] \in Flows
        BY <1>6, <2>2 DEF Insert
      <3>2. Len(Append(late[w], flow[w])) = 1
        BY <3>1, <1>0
      <3>3. late'[w] = Append(late[w], flow[w])
        BY <1>6, <2>2 DEF Insert
      <3>4. \A v \in Workers : v # w => late'[v] = late[v] /\ pc'[v] = pc[v]
        BY <1>6, <2>2 DEF Insert, Goto
      <3>5. pc'[w] = "leave" /\ UNCHANGED <<cpc, stragglers, use_2, choice>>
        BY <1>6 DEF Insert, Goto, cvars
      <3> HIDE DEF TypeInv
      <3>6. OneLateRecord'
        <4>1. Len(late'[w]) <= IF w \in stragglers' THEN 1 ELSE 0
          BY <3>1, <3>2, <3>3, <3>5
        <4>2. \A v \in Workers : v # w =>
                Len(late'[v]) <= IF v \in stragglers' THEN 1 ELSE 0
          BY <3>4, <3>5
        <4>3. \A v \in Workers : Len(late'[v]) <= IF v \in stragglers' THEN 1 ELSE 0
          BY <4>1, <4>2
        <4> QED
          BY <4>3 DEF OneLateRecord
      <3>7. LateInv'
        BY <2>2, <3>4, <3>5, <3>6
      <3> QED
        BY <2>1, <3>7
    <2>3. CASE ~(PastWait /\ choice[w] = Retired)
      BY <1>6, <2>1, <2>3 DEF Insert, Goto, cvars
    <2> QED
      BY <2>2, <2>3
  <1>7. ASSUME NEW w \in Workers, Leave(w) PROVE GraceInv' /\ LateInv'
    BY <1>7 DEF Leave, Goto, cvars
  <1>8. ASSUME NEW w \in Workers, NEW c \in Counters, Add(w, c)
        PROVE  GraceInv' /\ LateInv'
    BY <1>8 DEF Add, Counters, Goto, cvars
  <1>9. CASE Flip
    BY <1>9 DEF Flip, wvars
  <1>10. ASSUME NEW c \in Counters, Read(c) \/ Clear(c) PROVE GraceInv' /\ LateInv'
    BY <1>10 DEF Read, Clear, wvars
  <1>11. CASE WaitBeforeScan
    <2>1. Inside(Retired) = {}
      BY <1>11, WaitExcludesInside DEF WaitBeforeScan
    <2>2. GraceInv'
      BY <1>11, <2>1 DEF WaitBeforeScan, wvars, Inside
    <2>3. LateInv'
      BY <1>11, <1>0 DEF WaitBeforeScan, wvars
    <2> QED
      BY <2>2, <2>3
  <1>12. CASE Scan \/ WaitBeforeWipe
    BY <1>12 DEF Scan, WaitBeforeWipe, wvars
  <1>13. CASE Wipe
    BY <1>13, <1>0 DEF Wipe
  <1> QED
    BY <1>1, <1>2, <1>3, <1>4, <1>5, <1>6, <1>7, <1>8, <1>9, <1>10, <1>11,
       <1>12, <1>13 DEF Next, Begin, Proceed, EpochStep

(* Both strengthenings hold in every behaviour. *)
LEMMA GraceStable == Spec => [](GraceInv /\ LateInv)
  <1>1. Init => GraceInv /\ LateInv
    BY DEF Init, GraceInv, LateInv, OneLateRecord, PastWait
  <1> QED
    BY <1>1, GraceStep, TypeStable, RefCountCorrect, PTL DEF Spec

(* The waits exclude every writer of the retired table except the cores     *)
(* that read use_2 before the flip and incremented after the first wait.    *)
THEOREM GraceCorrect == Spec => []GracePeriod
  <1>1. GraceInv => GracePeriod
    BY DEF GraceInv, GracePeriod, Inside
  <1> QED
    BY <1>1, GraceStable, PTL

(* Each such core writes at most one record into a table being retired.     *)
THEOREM OneLateCorrect == Spec => []OneLateRecord
  <1>1. LateInv => OneLateRecord
    BY DEF LateInv
  <1> QED
    BY <1>1, GraceStable, PTL

-----------------------------------------------------------------------------
(* Records and counters.                                                    *)

(* A record that the scan missed was made by a core that came late: the     *)
(* waits keep every other core out of the table between scan and wipe.      *)
LEMMA RecordsStep ==
  ASSUME TypeInv, GraceInv, RecordsOrdered, [Next]_vars PROVE RecordsOrdered'
  <1> USE DEF RecordsOrdered, Retired
  <1>1. CASE UNCHANGED vars
    BY <1>1 DEF vars, cvars, wvars
  <1>2. ASSUME NEW w \in Workers, Insert(w) PROVE RecordsOrdered'
    <2> SUFFICES ASSUME cpc \in {"wait2", "wipe"},
                        NEW f \in flows3'[Retired] \ ordered_flows
                 PROVE  \E v \in stragglers :
                           \E k \in DOMAIN late'[v] : late'[v][k] = f
      BY <1>2 DEF Insert, cvars
    <2>1. /\ late[w] \in Seq(Flows) /\ flow[w] \in Flows
          /\ \A v \in Workers : late[v] \in Seq(Flows)
          /\ stragglers \subseteq Workers /\ late \in [Workers -> Seq(Flows)]
      BY <1>2 DEF Insert, TypeInv
    <2>2. CASE f \in flows3[Retired]
      <3>1. PICK v \in stragglers : \E k \in DOMAIN late[v] : late[v][k] = f
        BY <2>2
      <3>2. PICK k \in DOMAIN late[v] : late[v][k] = f
        BY <3>1
      <3>3. CASE late'[v] = late[v]
        BY <3>2, <3>3
      <3>4. CASE late'[v] # late[v]
        <4>1. late'[v] = Append(late[v], flow[v])
          BY <1>2, <2>1, <3>4 DEF Insert
        <4>2. v = w
          BY <1>2, <2>1, <3>4 DEF Insert
        <4>3. k \in 1 .. Len(late[v]) /\ Len(late[v]) \in Nat
          BY <2>1, <3>2, <4>2, LenProperties
        <4>4. late'[v][k] = f /\ k \in DOMAIN late'[v]
          <5>1. /\ late'[v] \in Seq(Flows) /\ Len(late'[v]) = Len(late[v]) + 1
                /\ late'[v][k] = late[v][k]
            BY <2>1, <4>1, <4>2, <4>3, AppendProperties
          <5> QED
            BY <5>1, <4>3, <3>2, LenProperties
        <4> QED
          BY <4>4
      <3> QED
        BY <3>3, <3>4
    <2>3. CASE f \notin flows3[Retired]
      <3>1. choice[w] = Retired /\ f = flow[w]
        BY <1>2, <2>3 DEF Insert, TypeInv, Tables, Active
      <3>2. w \in stragglers
        BY <1>2, <3>1 DEF Insert, GraceInv, PastWait
      <3>3. late'[w] = Append(late[w], f)
        BY <1>2, <2>1, <3>1 DEF Insert, PastWait
      <3>4. /\ late'[w] \in Seq(Flows) /\ Len(late[w]) + 1 \in Nat
            /\ Len(late'[w]) = Len(late[w]) + 1 /\ Len(late[w]) \in Nat
            /\ late'[w][Len(late[w]) + 1] = f
        BY <2>1, <3>1, <3>3, AppendProperties, LenProperties
      <3>5. Len(late[w]) + 1 \in DOMAIN late'[w]
        BY <3>4, LenProperties
      <3> QED
        BY <3>2, <3>4, <3>5
    <2> QED
      BY <2>2, <2>3
  <1>3. ASSUME NEW w \in Workers,
               Begin(w) \/ Create(w) \/ Choose(w) \/ Enter(w) \/ Leave(w)
                 \/ \E c \in Counters : Add(w, c)
        PROVE  RecordsOrdered'
    BY <1>3 DEF Begin, LookUp, Create, Choose, Enter, Leave, Add, cvars
  <1>4. CASE Flip \/ \E c \in Counters : Read(c) \/ Clear(c)
    BY <1>4 DEF Flip, Read, Clear
  <1>5. CASE WaitBeforeScan \/ Scan \/ WaitBeforeWipe \/ Wipe
    BY <1>5 DEF WaitBeforeScan, Scan, WaitBeforeWipe, Wipe, wvars
  <1> QED
    BY <1>1, <1>2, <1>3, <1>4, <1>5 DEF Next, Proceed, EpochStep

(* No record is forgotten but a late one.                                   *)
THEOREM RecordsCorrect == Spec => []RecordsOrdered
  <1>1. Init => RecordsOrdered
    BY DEF Init, RecordsOrdered
  <1> QED
    BY <1>1, RecordsStep, TypeStable, GraceStable, PTL DEF Spec

(* Strengthening of NoDoubleCount: what was read is still in the counter    *)
(* when it is cleared, because the cores only add to it.                    *)
CountInv ==
    /\ NoDoubleCount
    /\ \A c \in Counters : BeingRead(c) => old[c] <= count[c]

(* CountInv is inductive. *)
LEMMA CountStep ==
  ASSUME TypeInv, CountInv, [Next]_vars PROVE CountInv'
  <1> USE DEF CountInv, NoDoubleCount, BeingRead
  <1>0. /\ \A c \in Counters : count[c] \in 0 .. Cap /\ old[c] \in 0 .. Cap
        /\ \A c \in Counters : surplus[c] \in Int
        /\ count \in [Counters -> 0 .. Cap] /\ old \in [Counters -> 0 .. Cap]
        /\ surplus \in [Counters -> Int] /\ Cap \in Nat \ {0}
    BY CapAssumption DEF TypeInv
  <1>1. CASE UNCHANGED vars
    BY <1>1 DEF vars, cvars
  <1>2. ASSUME NEW w \in Workers, NEW c \in Counters, Add(w, c) PROVE CountInv'
    <2>1. \A d \in Counters : count'[d] >= count[d]
      BY <1>0, <1>2 DEF Add
    <2>2. \A d \in Counters : count'[d] \in 0 .. Cap
      BY <1>0, <1>2 DEF Add
    <2>3. UNCHANGED <<cpc, old, surplus>>
      BY <1>2 DEF Add, cvars
    <2> QED
      BY <1>0, <2>1, <2>2, <2>3
  <1>3. ASSUME NEW w \in Workers,
               Begin(w) \/ Create(w) \/ Choose(w) \/ Enter(w) \/ Insert(w) \/ Leave(w)
        PROVE  CountInv'
    BY <1>3 DEF Begin, LookUp, Create, Choose, Enter, Insert, Leave, cvars
  <1>4. ASSUME NEW c \in Counters, Read(c) PROVE CountInv'
    BY <1>0, <1>4 DEF Read, Counters
  <1>5. ASSUME NEW c \in Counters, Clear(c) PROVE CountInv'
    BY <1>0, <1>5 DEF Clear, Counters
  <1>6. CASE Flip \/ WaitBeforeScan \/ Scan \/ WaitBeforeWipe \/ Wipe
    BY <1>6 DEF Flip, WaitBeforeScan, Scan, WaitBeforeWipe, Wipe
  <1> QED
    BY <1>1, <1>2, <1>3, <1>4, <1>5, <1>6 DEF Next, Proceed, EpochStep

(* No addition to the shard's counters is counted in two epochs, although   *)
(* swap_shards reads and clears them in separate steps.                     *)
THEOREM NoDoubleCountCorrect == Spec => []NoDoubleCount
  <1>1. Init => CountInv
    BY DEF Init, CountInv, NoDoubleCount, BeingRead
  <1>2. CountInv => NoDoubleCount
    BY DEF CountInv
  <1> QED
    BY <1>1, <1>2, CountStep, TypeStable, PTL DEF Spec
=============================================================================
