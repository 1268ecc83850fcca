------------------------- MODULE FastUDPFlowsProofs -------------------------
(***************************************************************************)
(* Theorems about FastUDPFlows for every number of flows, burst, batch and *)
(* flow size, port range and counter width.                                *)
(***************************************************************************)
EXTENDS FastUDPFlows, TLAPS

(* Quotient and remainder. *)
LEMMA DivMod ==
  ASSUME NEW a \in Int, NEW b \in Nat \ {0}
  PROVE  /\ a % b \in 0 .. b - 1 /\ a \div b \in Int
         /\ a = b * (a \div b) + (a % b)
         /\ a \in Nat => a \div b \in Nat
  OBVIOUS

(* The quotient and the remainder of a number given as one of each. *)
LEMMA DivModOf ==
  ASSUME NEW b \in Nat \ {0}, NEW q \in Nat, NEW r \in 0 .. b - 1
  PROVE  (q * b + r) \div b = q /\ (q * b + r) % b = r
  OBVIOUS

(* Counting modulo n goes up by one or starts again. *)
LEMMA ModSucc ==
  ASSUME NEW i \in Nat, NEW n \in Nat \ {0}
  PROVE  (i + 1) % n = IF (i % n) + 1 < n THEN (i % n) + 1 ELSE 0
  <1> DEFINE q == i \div n
             r == i % n
  <1>1. q \in Nat /\ r \in 0 .. n - 1 /\ i = q * n + r
    <2>1. i \in Int
      OBVIOUS
    <2>2. r \in 0 .. n - 1 /\ q \in Nat /\ i = n * q + r
      BY <2>1, DivMod
    <2> HIDE DEF q, r
    <2> QED
      BY <2>2
  <1> HIDE DEF q, r
  <1>2. CASE r + 1 < n
    <2>1. i + 1 = q * n + (r + 1) /\ r + 1 \in 0 .. n - 1
      BY <1>1, <1>2
    <2>2. (q * n + (r + 1)) % n = r + 1
      BY <1>1, <2>1, DivModOf
    <2> QED
      BY <1>2, <2>1, <2>2 DEF r
  <1>3. CASE ~(r + 1 < n)
    <2>1. i + 1 = q * n + n
      BY <1>1, <1>3
    <2>2. i + 1 = (q + 1) * n + 0 /\ 0 \in 0 .. n - 1 /\ q + 1 \in Nat
      BY <1>1, <2>1
    <2>3. ((q + 1) * n + 0) % n = 0
      BY <2>2, DivModOf
    <2> QED
      BY <1>3, <2>2, <2>3 DEF r
  <1> QED
    BY <1>2, <1>3

(* A number below the modulus, and one round more. *)
LEMMA ModRound ==
  ASSUME NEW b \in Nat \ {0}, NEW t \in 0 .. b - 1
  PROVE  t % b = t /\ (t + b) % b = t
  OBVIOUS

(* A round of all flows has at least one packet. *)
LEMMA RoundNat == Round \in Nat \ {0}
  BY ArgsAssumption DEF Round

(* change_ports moves a sequential flow to a port it is not on. *)
LEMMA PortChanges ==
  ASSUME NEW p \in 0 .. PORTS
  PROVE  (p + 1) % PORTS # p /\ (p + 1) % PORTS \in 0 .. PORTS
  BY ArgsAssumption

-----------------------------------------------------------------------------
(* Type correctness. *)

(* A packet keeps the generator's variables in their types. *)
LEMMA GetPacketType ==
  ASSUME TypeOK, NEW f \in Flow, GetPacket(f)
  PROVE  /\ index' \in 0 .. WORD - 1 /\ burst_count' \in 1 .. FLOWBURST
         /\ flow_count' \in [Flow -> 0 .. FLOWSIZE]
         /\ port' \in [Flow -> 0 .. PORTS]
         /\ turn' \in 0 .. Round - 1 /\ lastFlow' \in Flow
         /\ onPort' \in [Flow -> Nat]
  <1>1. index' \in 0 .. WORD - 1
    <2>1. index \in 0 .. WORD - 1 /\ index' \in {(index + 1) % WORD, index}
      BY DEF TypeOK, GetPacket, NextIndex
    <2> QED
      BY <2>1, ArgsAssumption, DivMod
  <1>2. burst_count' \in 1 .. FLOWBURST
    <2>1. burst_count \in 1 .. FLOWBURST
      BY DEF TypeOK
    <2>2. burst_count' = IF burst_count < FLOWBURST THEN burst_count + 1 ELSE 1
      BY DEF GetPacket, BurstGoesOn
    <2> QED
      BY <2>1, <2>2, ArgsAssumption
  <1>3. flow_count' \in [Flow -> 0 .. FLOWSIZE]
    <2>1. flow_count \in [Flow -> 0 .. FLOWSIZE] /\ flow_count[f] \in 0 .. FLOWSIZE
      BY DEF TypeOK
    <2>2. \/ flow_count' = [flow_count EXCEPT ![f] = 1]
          \/ flow_count[f] < FLOWSIZE /\ flow_count' = [flow_count EXCEPT ![f] = flow_count[f] + 1]
      BY DEF GetPacket
    <2>3. 1 \in 0 .. FLOWSIZE /\ (flow_count[f] < FLOWSIZE => flow_count[f] + 1 \in 0 .. FLOWSIZE)
      BY <2>1, ArgsAssumption
    <2> QED
      BY <2>1, <2>2, <2>3
  <1>4. port' \in [Flow -> 0 .. PORTS]
    <2>1. port \in [Flow -> 0 .. PORTS] /\ port[f] \in 0 .. PORTS
      BY DEF TypeOK
    <2>2. NewPorts(port[f]) \subseteq 0 .. PORTS
      BY <2>1, PortChanges, ArgsAssumption DEF NewPorts
    <2>3. port' = port \/ \E p \in NewPorts(port[f]) : port' = [port EXCEPT ![f] = p]
      BY DEF GetPacket
    <2> QED
      BY <2>1, <2>2, <2>3
  <1>5. turn' \in 0 .. Round - 1 /\ lastFlow' \in Flow
    <2>1. turn + 1 \in Int /\ turn' = (turn + 1) % Round /\ lastFlow' = f
      BY DEF TypeOK, GetPacket
    <2> QED
      BY <2>1, RoundNat, DivMod
  <1>6. onPort' \in [Flow -> Nat]
    <2>1. onPort \in [Flow -> Nat] /\ onPort[f] + 1 \in Nat
      BY DEF TypeOK
    <2>2. \E n \in {onPort[f] + 1, 1} : onPort' = [onPort EXCEPT ![f] = n]
      BY DEF GetPacket
    <2> QED
      BY <2>1, <2>2
  <1> QED
    BY <1>1, <1>2, <1>3, <1>4, <1>5, <1>6

(* Every variable keeps its type: no counter leaves its range and no flow   *)
(* or port is out of bounds, whatever the handlers write in between.        *)
THEOREM TypeCorrect == Spec => []TypeOK
  <1>1. Init => TypeOK
    <2> SUFFICES ASSUME Init PROVE TypeOK
      OBVIOUS
    <2>1. /\ 0 \in 0 .. WORD - 1 /\ 1 \in 1 .. FLOWBURST /\ 0 \in 0 .. FLOWSIZE
          /\ 0 \in 0 .. MAXBATCH /\ 0 \in Flow
      BY ArgsAssumption DEF Flow
    <2>2. 0 \in 0 .. Round - 1
      BY RoundNat
    <2> QED
      BY <2>1, <2>2 DEF Init, TypeOK
  <1>2. TypeOK /\ [Next]_vars => TypeOK'
    <2> SUFFICES ASSUME TypeOK, [Next]_vars PROVE TypeOK'
      OBVIOUS
    <2>c. 0 \in 0 .. WORD - 1 /\ 0 \in 0 .. MAXBATCH
      BY ArgsAssumption
    <2>1. CASE UNCHANGED vars
      BY <2>1 DEF vars, gvars, tvars, TypeOK
    <2>2. CASE TaskStarts
      BY <2>2, <2>c DEF TaskStarts, gvars, TypeOK
    <2>8. CASE TaskEnds
      <3>1. scheduled' \in BOOLEAN
        BY <2>8 DEF TaskEnds
      <3>2. timer' \in BOOLEAN
        BY <2>8 DEF TaskEnds
      <3> QED
        BY <2>8, <2>c, <3>1, <3>2 DEF TaskEnds, gvars, TypeOK
    <2>3. CASE PullPacket
      <3>1. count' \in 0 .. WORD - 1
        <4>1. count + 1 \in Int /\ count' = (count + 1) % WORD
          BY <2>3 DEF TypeOK, PullPacket
        <4>2. WORD \in Nat \ {0}
          BY ArgsAssumption
        <4> QED
          BY <4>1, <4>2, DivMod
      <3>2. got' \in 0 .. MAXBATCH
        BY <2>3, ArgsAssumption DEF PullPacket, TypeOK
      <3>3. stopped' \in BOOLEAN
        BY <2>3 DEF PullPacket
      <3>4. /\ index' \in 0 .. WORD - 1 /\ burst_count' \in 1 .. FLOWBURST
            /\ flow_count' \in [Flow -> 0 .. FLOWSIZE]
            /\ port' \in [Flow -> 0 .. PORTS]
            /\ turn' \in 0 .. Round - 1 /\ lastFlow' \in Flow
            /\ onPort' \in [Flow -> Nat]
        BY <2>3, GetPacketType DEF PullPacket
      <3> QED
        BY <2>3, <3>1, <3>2, <3>3, <3>4 DEF PullPacket, TypeOK
    <2>4. CASE TimerFires \/ TimePasses
      BY <2>4 DEF TimerFires, TimePasses, gvars, tvars, TypeOK
    <2>5. CASE WriteReset
      BY <2>5, <2>c DEF WriteReset, Sends, gvars, tvars, TypeOK
    <2>6. ASSUME NEW a \in BOOLEAN, WriteActive(a) PROVE TypeOK'
      BY <2>6, <2>c DEF WriteActive, gvars, tvars, TypeOK
    <2>7. ASSUME NEW l \in Limits, WriteLimit(l) PROVE TypeOK'
      BY <2>7 DEF WriteLimit, Sends, gvars, tvars, TypeOK
    <2> QED
      BY <2>1, <2>2, <2>3, <2>4, <2>5, <2>6, <2>7, <2>8 DEF Next, Task
  <1> QED
    BY <1>1, <1>2, PTL DEF Spec

-----------------------------------------------------------------------------
(* Only a pull touches the generator's state. *)
LEMMA OthersKeepFlows ==
  ASSUME [Next]_vars, ~PullPacket PROVE UNCHANGED gvars
  BY DEF Next, Task, TaskStarts, TaskEnds, TimerFires, TimePasses, WriteReset, WriteActive,
         WriteLimit, vars

(* The element's own count of a flow is what the flow sent on its port. *)
CountsPort == Sequential => \A f \in Flow : onPort[f] = flow_count[f]

(* In sequential mode no flow sends more than FLOWSIZE packets on one port, *)
(* for every port range above one: a flow at its limit really changes port, *)
(* also from the initial port that change_ports itself never draws.         *)
THEOREM FlowSizeCorrect == Spec => []FlowSizeKept
  <1>1. Init => CountsPort
    BY DEF Init, CountsPort
  <1>2. TypeOK /\ CountsPort /\ [Next]_vars => CountsPort'
    <2> SUFFICES ASSUME TypeOK, CountsPort, [Next]_vars, Sequential, NEW g \in Flow
                 PROVE  onPort'[g] = flow_count'[g]
      BY DEF CountsPort
    <2>0. onPort[g] = flow_count[g]
      BY DEF CountsPort
    <2>1. CASE ~PullPacket
      BY <2>0, <2>1, OthersKeepFlows DEF gvars
    <2>2. CASE PullPacket
      <3>1. PICK f \in Flow : GetPacket(f)
        BY <2>2 DEF PullPacket
      <3>2. DOMAIN onPort = Flow /\ DOMAIN flow_count = Flow /\ DOMAIN port = Flow
        BY DEF TypeOK
      <3>3. CASE g # f
        <4>1. onPort'[g] = onPort[g]
          BY <3>1, <3>2, <3>3 DEF GetPacket
        <4>2. flow_count'[g] = flow_count[g]
          BY <3>1, <3>2, <3>3 DEF GetPacket
        <4> QED
          BY <2>0, <4>1, <4>2
      <3>4. CASE g = f
        <4>1. onPort'[f] = IF port'[f] = port[f] THEN onPort[f] + 1 ELSE 1
          BY <3>1, <3>2 DEF GetPacket
        <4>2. CASE flow_count[f] >= FLOWSIZE
          <5>1. flow_count[f] \in 0 .. FLOWSIZE /\ port[f] \in 0 .. PORTS
            BY DEF TypeOK
          <5>2. ~(flow_count[f] < FLOWSIZE)
            BY <4>2, <5>1, ArgsAssumption
          <5>3. port'[f] = (port[f] + 1) % PORTS /\ flow_count'[f] = 1
            BY <3>1, <3>2, <5>2 DEF GetPacket, NewPorts
          <5>4. port'[f] # port[f]
            BY <5>1, <5>3, PortChanges
          <5> QED
            BY <3>4, <4>1, <5>3, <5>4
        <4>3. CASE ~(flow_count[f] >= FLOWSIZE)
          <5>1. port' = port /\ flow_count'[f] = flow_count[f] + 1
            BY <3>1, <3>2, <4>3 DEF GetPacket
          <5> QED
            BY <2>0, <3>4, <4>1, <5>1
        <4> QED
          BY <4>2, <4>3
      <3> QED
        BY <3>3, <3>4
    <2> QED
      BY <2>1, <2>2
  <1>3. TypeOK /\ CountsPort => FlowSizeKept
    BY ArgsAssumption DEF TypeOK, CountsPort, FlowSizeKept
  <1> QED
    BY <1>1, <1>2, <1>3, TypeCorrect, PTL DEF Spec

-----------------------------------------------------------------------------
(* The place in the round is told by the index and the burst counter, as    *)
(* long as the index wraps at a multiple of the number of flows.            *)
TurnByIndex ==
    Sequential /\ WORD % NFLOWS = 0 =>
        turn = (index % NFLOWS) * FLOWBURST + (burst_count - 1)

(* The next packet's place in the round and the flow that goes with it. *)
LEMMA TurnStep ==
  ASSUME TypeOK, TurnByIndex, Sequential, WORD % NFLOWS = 0, NEW f \in Flow, GetPacket(f)
  PROVE  /\ turn' = (index' % NFLOWS) * FLOWBURST + (burst_count' - 1)
         /\ f = (((turn' + Round - 1) % Round) \div FLOWBURST) % NFLOWS
  <1> DEFINE k == index % NFLOWS
             r == burst_count - 1
  <1>a. /\ NFLOWS \in Nat \ {0} /\ FLOWBURST \in Nat \ {0} /\ WORD \in Nat \ {0}
        /\ Round = NFLOWS * FLOWBURST /\ Round \in Nat \ {0}
    BY ArgsAssumption, RoundNat DEF Round
  <1>t. /\ index \in 0 .. WORD - 1 /\ index \in Nat /\ burst_count \in 1 .. FLOWBURST
        /\ turn \in 0 .. Round - 1
    BY <1>a DEF TypeOK
  <1>1. k \in 0 .. NFLOWS - 1 /\ r \in 0 .. FLOWBURST - 1 /\ burst_count = r + 1
    BY <1>a, <1>t, DivMod
  <1>2. turn = k * FLOWBURST + r
    BY DEF TurnByIndex
  <1>3. f = k
    BY DEF GetPacket, FlowChoices
  <1>4. turn' = (turn + 1) % Round
    BY DEF GetPacket
  <1>s. /\ burst_count < FLOWBURST => burst_count' = burst_count + 1 /\ index' = index
        /\ ~(burst_count < FLOWBURST) => burst_count' = 1 /\ index' = (index + 1) % WORD
    BY DEF GetPacket, NextIndex, BurstGoesOn
  <1> HIDE DEF k, r
  <1>5. (turn' + Round - 1) % Round = turn
    <2>1. CASE turn + 1 < Round
      <3>1. turn' = turn + 1
        <4>1. turn + 1 \in 0 .. Round - 1
          BY <1>a, <1>t, <2>1
        <4> QED
          BY <1>4, <1>a, <4>1, ModRound
      <3>2. turn' + Round - 1 = turn + Round
        BY <1>a, <1>t, <3>1
      <3> QED
        BY <1>a, <1>t, <3>2, ModRound
    <2>2. CASE ~(turn + 1 < Round)
      <3>1. turn + 1 = 0 + Round /\ 0 \in 0 .. Round - 1
        BY <1>a, <1>t, <2>2
      <3>2. turn' = 0
        BY <1>4, <1>a, <3>1, ModRound
      <3>3. turn' + Round - 1 = turn
        BY <1>a, <1>t, <3>1, <3>2
      <3> QED
        BY <1>a, <1>t, <3>3, ModRound
    <2> QED
      BY <2>1, <2>2
  <1>6. f = (((turn' + Round - 1) % Round) \div FLOWBURST) % NFLOWS
    <2>1. turn \div FLOWBURST = k
      BY <1>1, <1>2, <1>a, DivModOf
    <2>2. k % NFLOWS = k
      BY <1>1, <1>a, ModRound
    <2> QED
      BY <1>3, <1>5, <2>1, <2>2
  <1>7. CASE burst_count < FLOWBURST
    <2>1. turn + 1 \in 0 .. Round - 1
      <3>1. k * FLOWBURST + FLOWBURST <= NFLOWS * FLOWBURST
        BY <1>1, <1>a
      <3>2. k * FLOWBURST \in Nat /\ NFLOWS * FLOWBURST \in Nat
        BY <1>1, <1>a
      <3> QED
        BY <1>1, <1>2, <1>7, <1>a, <1>t, <3>1, <3>2
    <2>2. turn' = turn + 1
      BY <1>4, <1>a, <2>1, ModRound
    <2>3. k * FLOWBURST \in Nat
      BY <1>1, <1>a
    <2>4. turn' = k * FLOWBURST + (burst_count' - 1)
      BY <1>1, <1>2, <1>7, <1>s, <2>2, <2>3
    <2> QED
      BY <1>6, <1>7, <1>s, <2>4 DEF k
  <1>8. CASE ~(burst_count < FLOWBURST)
    <2>1. r = FLOWBURST - 1
      BY <1>1, <1>8, <1>a, <1>t
    <2>2. turn + 1 = (k + 1) * FLOWBURST
      BY <1>1, <1>2, <1>a, <2>1
    <2>3. index' % NFLOWS = IF k + 1 < NFLOWS THEN k + 1 ELSE 0
      <3>1. (index + 1) % NFLOWS = IF k + 1 < NFLOWS THEN k + 1 ELSE 0
        BY <1>a, <1>t, ModSucc DEF k
      <3>2. CASE index + 1 < WORD
        <4>1. (index + 1) % WORD = index + 1
          BY <1>a, <1>t, <3>2, ModRound
        <4> QED
          BY <1>8, <1>s, <3>1, <4>1
      <3>3. CASE ~(index + 1 < WORD)
        <4>1. index + 1 = 0 + WORD /\ 0 \in 0 .. WORD - 1
          BY <1>a, <1>t, <3>3
        <4>2. (index + 1) % WORD = 0
          BY <1>a, <4>1, ModRound
        <4>3. (index + 1) % NFLOWS = 0
          BY <1>a, <4>1
        <4>4. ~(k + 1 < NFLOWS)
          BY <1>1, <3>1, <4>3
        <4>5. 0 % NFLOWS = 0
          BY <1>a, ModRound
        <4> QED
          BY <1>8, <1>s, <4>2, <4>4, <4>5
      <3> QED
        BY <3>2, <3>3
    <2>4. CASE k + 1 < NFLOWS
      <3>1. (k + 1) * FLOWBURST + FLOWBURST <= NFLOWS * FLOWBURST
        <4>1. k + 1 \in 0 .. NFLOWS - 1
          BY <1>1, <1>a, <2>4
        <4> QED
          BY <1>a, <4>1
      <3>2. turn + 1 \in 0 .. Round - 1
        BY <1>a, <1>t, <2>2, <3>1
      <3>3. turn' = turn + 1
        BY <1>4, <1>a, <3>2, ModRound
      <3>4. index' % NFLOWS = k + 1 /\ burst_count' - 1 = 0
        BY <1>8, <1>s, <2>3, <2>4
      <3>5. (k + 1) * FLOWBURST \in Nat
        BY <1>1, <1>a
      <3> QED
        BY <1>6, <2>2, <3>3, <3>4, <3>5
    <2>5. CASE ~(k + 1 < NFLOWS)
      <3>1. k + 1 = NFLOWS
        BY <1>1, <1>a, <2>5
      <3>2. turn + 1 = 0 + Round /\ 0 \in 0 .. Round - 1
        BY <1>a, <2>2, <3>1
      <3>3. turn' = 0
        BY <1>4, <1>a, <3>2, ModRound
      <3>4. index' % NFLOWS = 0 /\ burst_count' - 1 = 0
        BY <1>8, <1>s, <2>3, <2>5
      <3> QED
        BY <1>6, <1>a, <3>3, <3>4
    <2> QED
      BY <2>4, <2>5
  <1> QED
    BY <1>7, <1>8

(* Together with the property, an inductive invariant. *)
TurnsInv == TurnByIndex /\ FlowsTakeTurns

(* In sequential mode the flows take turns of FLOWBURST packets for any     *)
(* number of flows that divides the index's modulus, through every wrap of  *)
(* the index and whatever resets, limits and batches do to the stream.      *)
THEOREM TurnsCorrect == Spec => []FlowsTakeTurns
  <1>1. Init => TurnsInv
    <2> SUFFICES ASSUME Init PROVE TurnsInv
      OBVIOUS
    <2>1. FlowsTakeTurns
      BY DEF Init, FlowsTakeTurns
    <2>2. TurnByIndex
      <3>1. 0 % NFLOWS = 0
        BY ArgsAssumption, ModRound
      <3>2. turn = 0 /\ index = 0 /\ burst_count = 1 /\ FLOWBURST \in Nat
        BY ArgsAssumption DEF Init
      <3> QED
        BY <3>1, <3>2 DEF TurnByIndex
    <2> QED
      BY <2>1, <2>2 DEF TurnsInv
  <1>2. TypeOK /\ TurnsInv /\ [Next]_vars => TurnsInv'
    <2> SUFFICES ASSUME TypeOK, TurnsInv, [Next]_vars PROVE TurnsInv'
      OBVIOUS
    <2>1. CASE ~PullPacket
      BY <2>1, OthersKeepFlows DEF gvars, TurnsInv, TurnByIndex, FlowsTakeTurns
    <2>2. CASE PullPacket
      <3>1. PICK f \in Flow : GetPacket(f)
        BY <2>2 DEF PullPacket
      <3>2. lastFlow' = f
        BY <3>1 DEF GetPacket
      <3> QED
        BY <3>1, <3>2, TurnStep DEF TurnsInv, TurnByIndex, FlowsTakeTurns
    <2> QED
      BY <2>1, <2>2
  <1>3. TurnsInv => FlowsTakeTurns
    BY DEF TurnsInv
  <1> QED
    BY <1>1, <1>2, <1>3, TypeCorrect, PTL DEF Spec
=============================================================================
