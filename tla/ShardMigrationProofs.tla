------------------------ MODULE ShardMigrationProofs ------------------------
(***************************************************************************)
(* Theorems about ShardMigration for every number of cores and shards and  *)
(* every burst, queue and ring size.                                       *)
(***************************************************************************)
EXTENDS ShardMigration, SequenceTheorems, FiniteSetTheorems, TLAPS

(* Remainders lie below the modulus (the unsigned counter, the round robin).*)
LEMMA ModRange ==
  ASSUME NEW a \in Int, NEW b \in Nat \ {0}
  PROVE  a % b \in 0 .. b - 1
  OBVIOUS

(* A number below the modulus is its own remainder. *)
LEMMA ModSmall ==
  ASSUME NEW b \in Nat \ {0}, NEW a \in 0 .. b - 1
  PROVE  a % b = a
  OBVIOUS

(* Taking a burst from a queue leaves two queues of the same packets. *)
LEMMA BurstType ==
  ASSUME NEW S, NEW q \in Seq(S), NEW n \in Int
  PROVE  /\ Front(q, n) \in Seq(S)
         /\ n \in Nat => Rest(q, n) \in Seq(S)
         /\ Elements(q) \subseteq S
         /\ Len(Front(q, n)) \in Nat
  BY SubSeqProperties, LenProperties, ElementOfSeq DEF Front, Rest, Least, Elements

(* The initial state is well typed: the round robin names cores only. *)
LEMMA TypeInit == Init => TypeOK
  <1> SUFFICES ASSUME Init PROVE TypeOK
    OBVIOUS
  <1>1. RoundRobin \in [Shards -> Cores]
    BY SizesAssumption, ModRange DEF RoundRobin, Shards, Cores
  <1>2. 0 \in Cores /\ 0 \in Shards /\ 0 \in 0 .. WORD - 1
    BY SizesAssumption DEF Cores, Shards
  <1> QED
    BY <1>1, <1>2, EmptySeq, SizesAssumption
    DEF Init, TypeOK, Bit, Packet, Labels

-----------------------------------------------------------------------------
(* Type correctness. *)

(* The controller's steps keep every variable in its type. *)
LEMMA TypeController ==
  ASSUME TypeOK, CtlSolve \/ Controller PROVE TypeOK'
  <1>a. /\ 0 \in Shards
        /\ ci + 1 < NS => ci + 1 \in Shards
        /\ ci + 1 < W => ci + 1 \in Shards
    <2>1. ci \in Shards
      BY DEF TypeOK
    <2> QED
      BY <2>1, SizesAssumption DEF Shards
  <1>b. Feasible \subseteq [Shards -> Cores]
    BY DEF Feasible
  <1>1. CASE CtlSolve
    <2>1. newA' \in [Shards -> Cores] /\ ci' \in Shards
      BY <1>1, <1>a, <1>b DEF CtlSolve
    <2>2. epoch' \in Nat
      BY <1>1 DEF CtlSolve, TypeOK
    <2> QED
      BY <1>1, <2>1, <2>2 DEF CtlSolve, TypeOK, cvars, shardvars, flagvars, wlocal, pktvars, hvars,
             Bit
  <1>2. CASE CtlMarkSkip
    <2>1. ci' \in Shards /\ cpc' \in {"mark", "reta"}
      BY <1>2, <1>a DEF CtlMarkSkip, CtlNextShard
    <2>2. hist' \in [Shards -> {"none", "clean", "stale"}]
      BY <1>2 DEF CtlMarkSkip, TypeOK
    <2> QED
      BY <1>2, <2>1, <2>2 DEF CtlMarkSkip, TypeOK, cvars, shardvars, flagvars, wlocal, pktvars, hvars,
             Bit
  <1>3. CASE CtlMark
    <2> QED
      BY <1>3 DEF CtlMark, TypeOK, cvars, shardvars, flagvars, wlocal, pktvars, hvars,
             Bit
  <1>4. CASE CtlPause
    <2>1. ci' \in Shards /\ cpc' \in {"mark", "reta"}
      BY <1>4, <1>a DEF CtlPause, CtlNextShard
    <2> QED
      BY <1>4, <2>1 DEF CtlPause, TypeOK, cvars, shardvars, flagvars, wlocal, pktvars, hvars,
             Bit
  <1>5. CASE CtlReta
    <2> QED
      BY <1>5 DEF CtlReta, TypeOK, cvars, shardvars, flagvars, wlocal, pktvars, hvars,
             Bit
  <1>6. CASE CtlNotifySkip
    <2>1. ci' \in Shards /\ cpc' \in {"notify", "signal"}
      BY <1>6, <1>a DEF CtlNotifySkip, CtlNextNotify, CtlNextShard
    <2>2. A' \in [Shards -> Cores]
      BY <1>6 DEF CtlNotifySkip, CtlNextNotify, TypeOK
    <2> QED
      BY <1>6, <2>1, <2>2 DEF CtlNotifySkip, TypeOK, cvars, shardvars, flagvars, wlocal, pktvars, hvars,
             Bit
  <1>7. CASE CtlNotify
    <2> QED
      BY <1>7 DEF CtlNotify, TypeOK, cvars, shardvars, flagvars, wlocal, pktvars, hvars,
             Bit
  <1>8. CASE CtlTell
    <2>1. ci' \in Shards /\ cpc' \in {"notify", "signal"}
      BY <1>8, <1>a DEF CtlTell, CtlNextNotify, CtlNextShard
    <2>2. A' \in [Shards -> Cores]
      BY <1>8 DEF CtlTell, CtlNextNotify, TypeOK
    <2> QED
      BY <1>8, <2>1, <2>2 DEF CtlTell, TypeOK, cvars, shardvars, flagvars, wlocal, pktvars, hvars,
             Bit
  <1>9. CASE CtlSignal
    <2>1. ci' \in Shards /\ cpc' \in {"idle", "signal"}
      BY <1>9, <1>a DEF CtlSignal
    <2> QED
      BY <1>9, <2>1 DEF CtlSignal, TypeOK, cvars, shardvars, flagvars, wlocal, pktvars, hvars,
             Bit
  <1> QED
    BY <1>1, <1>2, <1>3, <1>4, <1>5, <1>6, <1>7, <1>8, <1>9 DEF Controller

(* A packet's arrival keeps every variable in its type. *)
LEMMA TypeNic ==
  ASSUME TypeOK, NEW s \in Shards, NicReceive(s) PROVE TypeOK'
  <1>1. <<s, sent[s] + 1>> \in Packet /\ sent[s] + 1 \in Nat
    <2>1. sent[s] \in Nat
      BY DEF TypeOK
    <2> QED
      BY <2>1 DEF Packet
  <1>2. Append(rx[reta[s]], <<s, sent[s] + 1>>) \in Seq(Packet)
    BY <1>1, AppendProperties DEF TypeOK
  <1> QED
    BY <1>1, <1>2
    DEF NicReceive, TypeOK, cvars, shardvars, flagvars, wlocal, hvars

(* A working core's steps keep every variable in its type. *)
LEMMA TypeWorker ==
  ASSUME TypeOK, NEW w \in Cores, Worker(w) PROVE TypeOK'
  <1>a. /\ \A q \in Seq(Packet) : Front(q, BURST) \in Seq(Packet)
        /\ \A q \in Seq(Packet) : Rest(q, BURST) \in Seq(Packet)
        /\ \A q \in Seq(Packet) : Elements(q) \subseteq Packet
        /\ \A q \in Seq(Packet) : Len(q) \in Nat
    <2>1. BURST \in Nat /\ BURST \in Int
      BY SizesAssumption
    <2> QED
      BY <2>1, BurstType, LenProperties
  <1>b. ls[w] + 1 < NS => ls[w] + 1 \in Shards
    <2>1. ls[w] \in Shards
      BY DEF TypeOK
    <2> QED
      BY <2>1, SizesAssumption DEF Shards
  <1>c. 0 \in Shards /\ 0 \in 0 .. WORD - 1
    BY SizesAssumption DEF Shards
  <1>d. /\ rx[w] \in Seq(Packet) /\ busy[w] \in Seq(Packet)
        /\ myring[w] \in Seq(Packet) /\ count[w] \in 0 .. WORD - 1
        /\ ls[w] \in Shards /\ owner_new[ls[w]] \in Cores \union {NONE}
    BY DEF TypeOK
  <1>p. pc \in [Cores -> Labels]
    BY DEF TypeOK, Labels
  <1>1. CASE RingBurst(w)
    <2>1. busy' \in [Cores -> Seq(Packet)] /\ myring' \in [Cores -> Seq(Packet)]
      BY <1>1, <1>a, <1>d DEF RingBurst, TypeOK
    <2>2. pc' \in [Cores -> Labels]
      BY <1>1, <1>p DEF RingBurst, NextShard, Goto, Labels
    <2> QED
      BY <1>1, <2>1, <2>2 DEF RingBurst, TypeOK, cvars, shardvars, flagvars, wlocal, pktvars, hvars,
             Bit
  <1>2. CASE FinishBatch(w)
    <2>1. busy' \in [Cores -> Seq(Packet)] /\ done' \subseteq Packet
      BY <1>2, <1>a, <1>d, EmptySeq DEF FinishBatch, TypeOK
    <2>2. pc' \in [Cores -> Labels]
      BY <1>2, <1>p DEF FinishBatch, NextShard, Goto, Labels
    <2> QED
      BY <1>2, <2>1, <2>2 DEF FinishBatch, TypeOK, cvars, shardvars, flagvars, wlocal, pktvars, hvars,
             Bit
  <1>3. CASE DrainOver(w)
    <2>1. pc' \in [Cores -> Labels]
      BY <1>3, <1>p DEF DrainOver, NextShard, Goto, Labels
    <2> QED
      BY <1>3, <2>1 DEF DrainOver, TypeOK, cvars, shardvars, flagvars, wlocal, pktvars, hvars,
             Bit
  <1>4. CASE ReleaseTest(w)
    <2>1. ls' \in [Cores -> Shards]
      BY <1>4, <1>b, <1>c DEF ReleaseTest, NextShard, TypeOK, wlocal
    <2>2. pc' \in [Cores -> Labels]
      BY <1>4, <1>p DEF ReleaseTest, NextShard, Goto, Labels
    <2>3. lnew' \in [Cores -> Cores \union {NONE}]
      BY <1>4, <1>d DEF ReleaseTest, TypeOK
    <2> QED
      BY <1>4, <2>1, <2>2, <2>3 DEF ReleaseTest, TypeOK, cvars, shardvars, flagvars, wlocal, pktvars, hvars,
             Bit
  <1>5. CASE ReleasePause(w)
    <2>1. pc' \in [Cores -> Labels]
      BY <1>5, <1>p DEF ReleasePause, NextShard, Goto, Labels
    <2> QED
      BY <1>5, <2>1 DEF ReleasePause, TypeOK, cvars, shardvars, flagvars, wlocal, pktvars, hvars,
             Bit
  <1>6. CASE ReleaseTell(w)
    <2>1. ls' \in [Cores -> Shards]
      BY <1>6, <1>b, <1>c DEF ReleaseTell, NextShard, TypeOK, wlocal
    <2>2. pc' \in [Cores -> Labels]
      BY <1>6, <1>p DEF ReleaseTell, NextShard, Goto, Labels
    <2>3. had_changes' \in [Cores -> Bit] /\ lnew' \in [Cores -> Cores \union {NONE}]
      BY <1>6, <1>d DEF ReleaseTell, TypeOK, Bit
    <2> QED
      BY <1>6, <2>1, <2>2, <2>3 DEF ReleaseTell, TypeOK, cvars, shardvars, flagvars, wlocal, pktvars, hvars,
             Bit
  <1>7. CASE ClaimTest(w)
    <2>1. ls' \in [Cores -> Shards]
      BY <1>7, <1>b, <1>c DEF ClaimTest, NextShard, TypeOK, wlocal
    <2>2. pc' \in [Cores -> Labels]
      BY <1>7, <1>p DEF ClaimTest, NextShard, Goto, Labels
    <2> QED
      BY <1>7, <2>1, <2>2 DEF ClaimTest, TypeOK, cvars, shardvars, flagvars, wlocal, pktvars, hvars,
             Bit
  <1>8. CASE ClaimOffer(w)
    <2>1. pc' \in [Cores -> Labels]
      BY <1>8, <1>p DEF ClaimOffer, NextShard, Goto, Labels
    <2> QED
      BY <1>8, <2>1 DEF ClaimOffer, TypeOK, cvars, shardvars, flagvars, wlocal, pktvars, hvars,
             Bit
  <1>9. CASE ClaimOwner(w)
    <2>1. ls' \in [Cores -> Shards]
      BY <1>9, <1>b, <1>c DEF ClaimOwner, NextShard, TypeOK, wlocal
    <2>2. pc' \in [Cores -> Labels]
      BY <1>9, <1>p DEF ClaimOwner, NextShard, Goto, Labels
    <2>3. owner' \in [Shards -> Cores]
      BY <1>9 DEF ClaimOwner, TypeOK
    <2> QED
      BY <1>9, <2>1, <2>2, <2>3 DEF ClaimOwner, TypeOK, cvars, shardvars, flagvars, wlocal, pktvars, hvars,
             Bit
  <1>10. CASE SignalTest(w)
    <2>1. pc' \in [Cores -> Labels]
      BY <1>10, <1>p DEF SignalTest, NextShard, Goto, Labels
    <2> QED
      BY <1>10, <2>1 DEF SignalTest, TypeOK, cvars, shardvars, flagvars, wlocal, pktvars, hvars,
             Bit
  <1>11. CASE TransferTest(w)
    <2>1. pc' \in [Cores -> Labels]
      BY <1>11, <1>p DEF TransferTest, NextShard, Goto, Labels
    <2> QED
      BY <1>11, <2>1 DEF TransferTest, TypeOK, cvars, shardvars, flagvars, wlocal, pktvars, hvars,
             Bit
  <1>12. CASE DrainCount(w)
    <2>1. Least(Len(rx[w]), QSIZE) \in 0 .. WORD - 1
      BY <1>a, <1>d, SizesAssumption DEF Least
    <2>2. count' \in [Cores -> 0 .. WORD - 1]
      BY <1>12, <2>1 DEF DrainCount, TypeOK
    <2>3. pc' \in [Cores -> Labels]
      BY <1>12, <1>p DEF DrainCount, NextShard, Goto, Labels
    <2> QED
      BY <1>12, <2>1, <2>2, <2>3 DEF DrainCount, TypeOK, cvars, shardvars, flagvars, wlocal, pktvars, hvars,
             Bit
  <1>13. CASE DrainBurst(w)
    <2> DEFINE burst == Front(rx[w], BURST)
               kept  == Front(burst, RING - Len(myring[w]))
    <2>1. burst \in Seq(Packet) /\ Len(burst) \in Nat
      BY <1>a, <1>d
    <2>2. kept \in Seq(Packet) /\ myring[w] \o kept \in Seq(Packet)
      <3>1. RING - Len(myring[w]) \in Int
        BY <1>a, <1>d, SizesAssumption
      <3> HIDE DEF burst
      <3>2. kept \in Seq(Packet)
        BY <2>1, <3>1, BurstType
      <3> QED
        BY <3>2, <1>d, ConcatProperties
    <2>3. (count[w] - Len(burst)) % WORD \in 0 .. WORD - 1
      <3>1. count[w] - Len(burst) \in Int /\ WORD \in Nat \ {0}
        BY <1>d, <2>1, SizesAssumption
      <3> QED
        BY <3>1, ModRange
    <2>4. Elements(burst) \subseteq Packet
      BY <2>1, <1>a
    <2> HIDE DEF burst, kept
    <2>5. /\ myown' = [myown EXCEPT ![w] = TRUE]
          /\ rx' = [rx EXCEPT ![w] = Rest(@, BURST)]
          /\ myring' = [myring EXCEPT ![w] = @ \o kept]
          /\ leaked' = leaked \union (Elements(burst) \ Elements(kept))
          /\ count' = [count EXCEPT ![w] = (@ - Len(burst)) % WORD]
          /\ overran' = [overran EXCEPT ![w] = @ \/ Len(burst) > count[w]]
          /\ UNCHANGED <<cvars, shardvars, flagvars, pc, ls, lnew, busy, sent,
                         done, aborted>>
      BY <1>13 DEF DrainBurst, burst, kept
    <2> QED
      BY <1>a, <1>d, <2>1, <2>2, <2>3, <2>4, <2>5 DEF TypeOK, cvars, shardvars, flagvars, wlocal, pktvars, hvars
  <1>14. CASE DrainEnd(w)
    <2>1. myown' \in [Cores -> BOOLEAN] /\ count' \in [Cores -> 0 .. WORD - 1]
      BY <1>14, <1>c DEF DrainEnd, TypeOK
    <2>2. pc' \in [Cores -> Labels]
      BY <1>14, <1>p DEF DrainEnd, NextShard, Goto, Labels
    <2> QED
      BY <1>14, <2>1, <2>2 DEF DrainEnd, TypeOK, cvars, shardvars, flagvars, wlocal, pktvars, hvars,
             Bit
  <1>15. CASE TransferClear(w)
    <2>1. pc' \in [Cores -> Labels]
      BY <1>15, <1>p DEF TransferClear, NextShard, Goto, Labels
    <2> QED
      BY <1>15, <2>1 DEF TransferClear, TypeOK, cvars, shardvars, flagvars, wlocal, pktvars, hvars,
             Bit
  <1>16. CASE SignalClear(w)
    <2>1. pc' \in [Cores -> Labels]
      BY <1>16, <1>p DEF SignalClear, NextShard, Goto, Labels
    <2> QED
      BY <1>16, <2>1 DEF SignalClear, TypeOK, cvars, shardvars, flagvars, wlocal, pktvars, hvars,
             Bit
  <1>17. CASE ChangesTest(w)
    <2>1. pc' \in [Cores -> Labels]
      BY <1>17, <1>p DEF ChangesTest, NextShard, Goto, Labels
    <2> QED
      BY <1>17, <2>1 DEF ChangesTest, TypeOK, cvars, shardvars, flagvars, wlocal, pktvars, hvars,
             Bit
  <1>18. CASE ChangesShard(w)
    <2>1. ls' \in [Cores -> Shards]
      BY <1>18, <1>b, <1>c DEF ChangesShard, NextShard, TypeOK, wlocal
    <2>2. pc' \in [Cores -> Labels]
      BY <1>18, <1>p DEF ChangesShard, NextShard, Goto, Labels
    <2>3. myown' \in [Cores -> BOOLEAN] /\ aborted' \in [Cores -> BOOLEAN]
      BY <1>18 DEF ChangesShard, TypeOK
    <2> QED
      BY <1>18, <2>1, <2>2, <2>3 DEF ChangesShard, TypeOK, cvars, shardvars, flagvars, wlocal, pktvars, hvars,
             Bit
  <1>19. CASE ChangesClear(w)
    <2>1. pc' \in [Cores -> Labels]
      BY <1>19, <1>p DEF ChangesClear, NextShard, Goto, Labels
    <2> QED
      BY <1>19, <2>1 DEF ChangesClear, TypeOK, cvars, shardvars, flagvars, wlocal, pktvars, hvars,
             Bit
  <1>20. CASE RxBurst(w)
    <2>1. busy' \in [Cores -> Seq(Packet)] /\ rx' \in [Cores -> Seq(Packet)]
      BY <1>20, <1>a, <1>d DEF RxBurst, TypeOK
    <2>2. pc' \in [Cores -> Labels]
      BY <1>20, <1>p DEF RxBurst, NextShard, Goto, Labels
    <2> QED
      BY <1>20, <2>1, <2>2 DEF RxBurst, TypeOK, cvars, shardvars, flagvars, wlocal, pktvars, hvars,
             Bit
  <1>21. CASE RxNothing(w)
    <2>1. pc' \in [Cores -> Labels]
      BY <1>21, <1>p DEF RxNothing, NextShard, Goto, Labels
    <2> QED
      BY <1>21, <2>1 DEF RxNothing, TypeOK, cvars, shardvars, flagvars, wlocal, pktvars, hvars,
             Bit
  <1> QED
    BY <1>1, <1>2, <1>3, <1>4, <1>5, <1>6, <1>7, <1>8, <1>9, <1>10, <1>11,
       <1>12, <1>13, <1>14, <1>15, <1>16, <1>17, <1>18, <1>19, <1>20, <1>21 DEF Worker

(* Every variable keeps its type; in particular no field of the handshake   *)
(* ever names a core that does not exist, whatever the controller and the   *)
(* cores overwrite of each other's marks.                                   *)
THEOREM TypeCorrect == Spec => []TypeOK
  <1>1. Init => TypeOK
    BY TypeInit
  <1>2. TypeOK /\ [Next]_vars => TypeOK'
    <2> SUFFICES ASSUME TypeOK, [Next]_vars PROVE TypeOK'
      OBVIOUS
    <2>1. CASE UNCHANGED vars
      BY <2>1 DEF vars, cvars, shardvars, flagvars, wlocal, pktvars, hvars, TypeOK
    <2>2. CASE Next
      BY <2>1, <2>2, TypeController, TypeNic, TypeWorker DEF Next, Halted
    <2> QED
      BY <2>1, <2>2
  <1> QED
    BY <1>1, <1>2, PTL DEF Spec

-----------------------------------------------------------------------------
(* The cores and the NIC leave the controller's variables alone. *)
LEMMA CoresKeepController ==
  ASSUME \/ \E s \in Shards : NicReceive(s)
         \/ \E w \in Cores : Worker(w)
  PROVE  UNCHANGED cvars
  BY DEF NicReceive, Worker, RingBurst, FinishBatch, DrainOver, ReleaseTest, ReleasePause, ReleaseTell, ClaimTest,
         ClaimOffer, ClaimOwner, SignalTest, TransferTest, DrainCount, DrainBurst, DrainEnd,
         TransferClear, SignalClear, ChangesTest, ChangesShard, ChangesClear, RxBurst, RxNothing

(* The NIC's table and the controller's assignment never drift apart: the   *)
(* table is A outside update_shards and newA from update_reta on, for every *)
(* number of epochs and whatever the cores do meanwhile.                    *)
THEOREM RetaCorrect == Spec => []RetaAgrees
  <1>1. Init => RetaAgrees
    BY DEF Init, RetaAgrees
  <1>2. RetaAgrees /\ [Next]_vars => RetaAgrees'
    <2> SUFFICES ASSUME RetaAgrees, [Next]_vars PROVE RetaAgrees'
      OBVIOUS
    <2>1. CASE UNCHANGED cvars
      BY <2>1 DEF cvars, RetaAgrees
    <2>2. CASE CtlSolve
      BY <2>2 DEF CtlSolve, RetaAgrees
    <2>3. CASE CtlMarkSkip
      BY <2>3 DEF CtlMarkSkip, CtlNextShard, RetaAgrees
    <2>4. CASE CtlMark
      BY <2>4 DEF CtlMark, RetaAgrees
    <2>5. CASE CtlPause
      BY <2>5 DEF CtlPause, CtlNextShard, RetaAgrees
    <2>6. CASE CtlReta
      BY <2>6 DEF CtlReta, RetaAgrees
    <2>7. CASE CtlNotifySkip
      BY <2>7 DEF CtlNotifySkip, CtlNextNotify, CtlNextShard, RetaAgrees
    <2>8. CASE CtlNotify
      BY <2>8 DEF CtlNotify, RetaAgrees
    <2>9. CASE CtlTell
      BY <2>9 DEF CtlTell, CtlNextNotify, CtlNextShard, RetaAgrees
    <2>10. CASE CtlSignal
      BY <2>10 DEF CtlSignal, RetaAgrees
    <2> QED
      BY <2>1, <2>2, <2>3, <2>4, <2>5, <2>6, <2>7, <2>8, <2>9, <2>10, CoresKeepController
      DEF Next, Controller, Halted, vars, cvars
  <1> QED
    BY <1>1, <1>2, PTL DEF Spec

-----------------------------------------------------------------------------
(* Pausing before steering.                                                 *)

(* The core is between two signals: it takes and finishes bursts only. *)
Idling(w) ==
    /\ controller_signal[w] = 0 /\ had_changes[w] = 0
    /\ ~myown[w] /\ pc[w] \in {"top", "proc", "rx", "work"}

(* While the controller marks shards and until it flips the table, no core  *)
(* handles a signal, so the shards marked so far stay paused.               *)
MarksHold ==
    cpc \in {"mark", "pause", "reta"} =>
        /\ \A w \in Cores : Idling(w)
        /\ \A s \in Shards :
              /\ cpc = "reta" \/ s < ci
              /\ newA[s] \notin {A[s], owner[s]}
              => pause[s] = 1

(* An idling core stays so and touches nothing the controller marked. *)
LEMMA IdlingStays ==
  ASSUME TypeOK, NEW w \in Cores, Idling(w), Worker(w)
  PROVE  /\ UNCHANGED <<shardvars, flagvars, cvars>>
         /\ \A v \in Cores : Idling(v) => Idling(v)'
  <1>1. \/ FinishBatch(w) \/ SignalTest(w) \/ ChangesTest(w)
        \/ RxBurst(w) \/ RxNothing(w)
    BY DEF Idling, Worker, RingBurst, FinishBatch, DrainOver, ReleaseTest, ReleasePause, ReleaseTell, ClaimTest,
           ClaimOffer, ClaimOwner, SignalTest, TransferTest, DrainCount, DrainBurst, DrainEnd,
           TransferClear, SignalClear, ChangesTest, ChangesShard, ChangesClear, RxBurst, RxNothing
  <1>2. UNCHANGED <<shardvars, flagvars, cvars, myown>>
    BY <1>1 DEF FinishBatch, SignalTest, ChangesTest, RxBurst, RxNothing
  <1>3. \E l \in {"top", "proc", "rx", "work"} : pc' = [pc EXCEPT ![w] = l]
    BY <1>1 DEF Idling, FinishBatch, SignalTest, ChangesTest, RxBurst, RxNothing, Goto
  <1>4. \A v \in Cores : Idling(v) => Idling(v)'
    BY <1>2, <1>3 DEF Idling, flagvars, TypeOK
  <1> QED
    BY <1>2, <1>4

(* MarksHold is inductive when epochs do not overlap. *)
LEMMA MarksHoldStep ==
  ASSUME ~Overlap, TypeOK, MarksHold, [Next]_vars PROVE MarksHold'
  <1>1. CASE UNCHANGED vars
    BY <1>1 DEF vars, cvars, shardvars, flagvars, MarksHold, Idling
  <1>2. CASE CtlSolve
    <2>1. cpc' = "mark" /\ ci' = 0 /\ \A w \in Cores : Quiet(w)
      BY <1>2 DEF CtlSolve
    <2>2. \A w \in Cores : Idling(w)'
      BY <2>1, <1>2 DEF CtlSolve, Quiet, Idling, flagvars
    <2>3. \A s \in Shards : ~(s < ci')
      BY <2>1, SizesAssumption DEF Shards
    <2> QED
      BY <2>1, <2>2, <2>3 DEF MarksHold
  <1>3. CASE CtlMarkSkip
    <2>1. \A w \in Cores : Idling(w)'
      BY <1>3 DEF CtlMarkSkip, MarksHold, Idling, flagvars
    <2>2. \A s \in Shards : cpc' = "reta" \/ s < ci' => s < ci \/ s = ci
      <3>1. \/ cpc' # "reta" /\ ci' = ci + 1
            \/ cpc' = "reta" /\ ~(ci + 1 < NS) /\ ci' = 0
        BY <1>3 DEF CtlMarkSkip, CtlNextShard
      <3>2. ci \in Shards
        BY DEF TypeOK
      <3> QED
        BY <3>1, <3>2, SizesAssumption DEF Shards
    <2> QED
      BY <1>3, <2>1, <2>2 DEF CtlMarkSkip, MarksHold, shardvars
  <1>4. CASE CtlMark
    BY <1>4 DEF CtlMark, MarksHold, Idling, flagvars
  <1>5. CASE CtlPause
    <2>1. \A w \in Cores : Idling(w)'
      BY <1>5 DEF CtlPause, MarksHold, Idling, flagvars
    <2>2. \A s \in Shards : cpc' = "reta" \/ s < ci' => s < ci \/ s = ci
      <3>1. \/ cpc' # "reta" /\ ci' = ci + 1
            \/ cpc' = "reta" /\ ~(ci + 1 < NS) /\ ci' = 0
        BY <1>5 DEF CtlPause, CtlNextShard
      <3>2. ci \in Shards
        BY DEF TypeOK
      <3> QED
        BY <3>1, <3>2, SizesAssumption DEF Shards
    <2> QED
      BY <1>5, <2>1, <2>2 DEF CtlPause, MarksHold, TypeOK
  <1>6. CASE CtlReta \/ CtlNotifySkip \/ CtlNotify \/ CtlTell \/ CtlSignal
    BY <1>6 DEF CtlReta, CtlNotifySkip, CtlNotify, CtlTell, CtlSignal,
                CtlNextNotify, CtlNextShard, MarksHold
  <1>7. ASSUME NEW s \in Shards, NicReceive(s) PROVE MarksHold'
    BY <1>7 DEF NicReceive, MarksHold, Idling, cvars, shardvars, flagvars
  <1>8. ASSUME NEW w \in Cores, Worker(w) PROVE MarksHold'
    <2>1. CASE cpc \in {"mark", "pause", "reta"}
      <3>1. Idling(w)
        BY <2>1 DEF MarksHold
      <3> QED
        BY <1>8, <2>1, <3>1, IdlingStays DEF MarksHold, cvars, shardvars
    <2>2. CASE cpc \notin {"mark", "pause", "reta"}
      BY <1>8, <2>2, CoresKeepController DEF MarksHold, cvars
    <2> QED
      BY <2>1, <2>2
  <1> QED
    BY <1>1, <1>2, <1>3, <1>4, <1>5, <1>6, <1>7, <1>8 DEF Next, Controller, Halted

(* With epochs that do not overlap, the table is rewritten only when every  *)
(* shard that leaves its owner is paused, for any number of cores, shards   *)
(* and epochs: the cores cannot lower a pause between the two.              *)
THEOREM PauseBeforeReta == ~Overlap => (Spec => RetaAfterPause)
  <1> SUFFICES ASSUME ~Overlap PROVE Spec => RetaAfterPause
    OBVIOUS
  <1>1. Init => MarksHold
    BY DEF Init, MarksHold
  <1>2. TypeOK /\ MarksHold /\ [Next]_vars => MarksHold'
    BY MarksHoldStep
  <1>3. MarksHold /\ [Next]_vars =>
          [reta' # reta =>
             \A s \in Shards : newA[s] \notin {A[s], owner[s]} => pause[s] = 1]_vars
    <2> SUFFICES ASSUME MarksHold, Next, reta' # reta
                 PROVE  \A s \in Shards : newA[s] \notin {A[s], owner[s]} => pause[s] = 1
      OBVIOUS
    <2>1. CtlReta
      BY CoresKeepController
      DEF Next, Controller, Halted, vars, cvars, CtlSolve, CtlMarkSkip, CtlMark,
          CtlPause, CtlNotifySkip, CtlNotify, CtlTell, CtlSignal
    <2> QED
      BY <2>1 DEF CtlReta, MarksHold
  <1> QED
    BY <1>1, <1>2, <1>3, TypeCorrect, PTL DEF Spec, RetaAfterPause
-----------------------------------------------------------------------------
(* No packet is lost at the ring by a drain that goes to plan.              *)

(* A step of one core leaves the program counters, locals, queues and       *)
(* history of the others alone.                                             *)
LEMMA WorkerLocal ==
  ASSUME TypeOK, NEW w \in Cores, Worker(w), NEW v \in Cores, v # w
  PROVE  /\ pc'[v] = pc[v] /\ ls'[v] = ls[v] /\ lnew'[v] = lnew[v]
         /\ count'[v] = count[v] /\ myown'[v] = myown[v]
         /\ rx'[v] = rx[v] /\ myring'[v] = myring[v] /\ busy'[v] = busy[v]
         /\ aborted'[v] = aborted[v] /\ overran'[v] = overran[v]
  <1>f. /\ Cores = DOMAIN pc /\ Cores = DOMAIN ls /\ Cores = DOMAIN lnew
        /\ Cores = DOMAIN count /\ Cores = DOMAIN myown /\ Cores = DOMAIN rx
        /\ Cores = DOMAIN myring /\ Cores = DOMAIN busy
        /\ Cores = DOMAIN aborted /\ Cores = DOMAIN overran
    BY DEF TypeOK
  <1>1. CASE RingBurst(w)
    BY <1>1, <1>f DEF RingBurst, Goto, wlocal, pktvars, hvars
  <1>2. CASE FinishBatch(w)
    BY <1>2, <1>f DEF FinishBatch, Goto, wlocal, pktvars, hvars
  <1>3. CASE DrainOver(w)
    BY <1>3, <1>f DEF DrainOver, Goto, wlocal, pktvars, hvars
  <1>4. CASE ReleaseTest(w)
    BY <1>4, <1>f DEF ReleaseTest, NextShard, Goto, wlocal, pktvars, hvars
  <1>5. CASE ReleasePause(w)
    BY <1>5, <1>f DEF ReleasePause, Goto, wlocal, pktvars, hvars
  <1>6. CASE ReleaseTell(w)
    BY <1>6, <1>f DEF ReleaseTell, NextShard, Goto, wlocal, pktvars, hvars
  <1>7. CASE ClaimTest(w)
    BY <1>7, <1>f DEF ClaimTest, NextShard, Goto, wlocal, pktvars, hvars
  <1>8. CASE ClaimOffer(w)
    BY <1>8, <1>f DEF ClaimOffer, Goto, wlocal, pktvars, hvars
  <1>9. CASE ClaimOwner(w)
    BY <1>9, <1>f DEF ClaimOwner, NextShard, Goto, wlocal, pktvars, hvars
  <1>10. CASE SignalTest(w)
    BY <1>10, <1>f DEF SignalTest, Goto, wlocal, pktvars, hvars
  <1>11. CASE TransferTest(w)
    BY <1>11, <1>f DEF TransferTest, Goto, wlocal, pktvars, hvars
  <1>12. CASE DrainCount(w)
    BY <1>12, <1>f DEF DrainCount, Goto, wlocal, pktvars, hvars
  <1>13. CASE DrainBurst(w)
    BY <1>13, <1>f DEF DrainBurst, wlocal, pktvars, hvars
  <1>14. CASE DrainEnd(w)
    BY <1>14, <1>f DEF DrainEnd, Goto, wlocal, pktvars, hvars
  <1>15. CASE TransferClear(w)
    BY <1>15, <1>f DEF TransferClear, Goto, wlocal, pktvars, hvars
  <1>16. CASE SignalClear(w)
    BY <1>16, <1>f DEF SignalClear, Goto, wlocal, pktvars, hvars
  <1>17. CASE ChangesTest(w)
    BY <1>17, <1>f DEF ChangesTest, Goto, wlocal, pktvars, hvars
  <1>18. CASE ChangesShard(w)
    BY <1>18, <1>f DEF ChangesShard, NextShard, Goto, wlocal, pktvars, hvars
  <1>19. CASE ChangesClear(w)
    BY <1>19, <1>f DEF ChangesClear, Goto, wlocal, pktvars, hvars
  <1>20. CASE RxBurst(w)
    BY <1>20, <1>f DEF RxBurst, Goto, wlocal, pktvars, hvars
  <1>21. CASE RxNothing(w)
    BY <1>21, <1>f DEF RxNothing, Goto, wlocal, pktvars, hvars
  <1> QED
    BY <1>1, <1>2, <1>3, <1>4, <1>5, <1>6, <1>7, <1>8, <1>9, <1>10, <1>11,
       <1>12, <1>13, <1>14, <1>15, <1>16, <1>17, <1>18, <1>19, <1>20, <1>21 DEF Worker

(* A core whose drains all went to plan begins each of them with an empty   *)
(* ring, and the ring and what the drain still plans for never exceed the   *)
(* most one drain takes.                                                    *)
DrainSound(w) ==
    ~aborted[w] /\ ~overran[w] =>
        /\ ~myown[w] => myring[w] = <<>>
        /\ pc[w] \in {"sig", "count"} => ~myown[w]
        /\ pc[w] = "drain" => Len(myring[w]) + count[w] <= QSIZE

(* The whole of a queue that is no longer than the burst is taken. *)
LEMMA FrontWhole ==
  ASSUME NEW S, NEW q \in Seq(S), NEW n \in Int, Len(q) <= n
  PROVE  Front(q, n) = q
  <1>1. Least(n, Len(q)) = Len(q)
    BY LenProperties DEF Least
  <1>2. SubSeq(q, 1, Len(q)) = q
    BY LenProperties, SubSeqProperties
  <1> QED
    BY <1>1, <1>2 DEF Front

(* A burst of a drain that does not run past its plan fits in the ring and  *)
(* leaves the drain within its plan.                                        *)
LEMMA BurstFits ==
  ASSUME TypeOK, QSIZE <= RING, NEW w \in Cores, DrainSound(w), DrainBurst(w),
         ~aborted[w], ~overran'[w]
  PROVE  /\ leaked' = leaked
         /\ Len(myring'[w]) + count'[w] <= QSIZE
         /\ myring'[w] = myring[w] \o Front(rx[w], BURST)
  <1> DEFINE burst == Front(rx[w], BURST)
             kept  == Front(burst, RING - Len(myring[w]))
  <1>1. burst \in Seq(Packet) /\ Len(burst) \in Nat /\ myring[w] \in Seq(Packet)
    <2>1. rx[w] \in Seq(Packet) /\ myring[w] \in Seq(Packet) /\ BURST \in Int
      BY SizesAssumption DEF TypeOK
    <2> QED
      BY <2>1, BurstType
  <1>2. /\ myring' = [myring EXCEPT ![w] = @ \o kept]
        /\ leaked' = leaked \union (Elements(burst) \ Elements(kept))
        /\ count' = [count EXCEPT ![w] = (@ - Len(burst)) % WORD]
        /\ overran' = [overran EXCEPT ![w] = @ \/ Len(burst) > count[w]]
        /\ pc[w] = "drain"
    BY DEF DrainBurst
  <1> HIDE DEF burst, kept
  <1>3. ~overran[w] /\ ~(Len(burst) > count[w])
    BY <1>2 DEF TypeOK
  <1>4. Len(myring[w]) + count[w] <= QSIZE
    BY <1>2, <1>3 DEF DrainSound
  <1>5. Len(myring[w]) \in Nat /\ count[w] \in 0 .. WORD - 1
    BY <1>1, LenProperties DEF TypeOK
  <1>6. kept = burst
    <2>1. Len(burst) <= RING - Len(myring[w]) /\ RING - Len(myring[w]) \in Int
      BY <1>1, <1>3, <1>4, <1>5, SizesAssumption
    <2> QED
      BY <1>1, <2>1, FrontWhole DEF kept
  <1>7. count'[w] = count[w] - Len(burst)
    <2>1. count[w] - Len(burst) \in 0 .. WORD - 1
      BY <1>1, <1>3, <1>5, SizesAssumption
    <2>2. (count[w] - Len(burst)) % WORD = count[w] - Len(burst)
      <3> DEFINE d == count[w] - Len(burst)
      <3>1. d \in 0 .. WORD - 1 /\ WORD \in Nat \ {0}
        BY <2>1, SizesAssumption
      <3> HIDE DEF d
      <3>2. d % WORD = d
        BY <3>1, ModSmall
      <3> QED
        BY <3>2 DEF d
    <2> QED
      BY <1>2, <2>2 DEF TypeOK
  <1>8. Len(myring[w] \o burst) = Len(myring[w]) + Len(burst)
    BY <1>1, ConcatProperties
  <1>9. myring'[w] = myring[w] \o burst
    BY <1>2, <1>6 DEF TypeOK
  <1>10. leaked' = leaked
    BY <1>2, <1>6
  <1>11. Len(myring'[w]) + count'[w] <= QSIZE
    BY <1>1, <1>4, <1>5, <1>7, <1>8, <1>9
  <1> QED
    BY <1>9, <1>10, <1>11 DEF burst

(* DrainSound is kept by the core's own steps. *)
LEMMA DrainSoundWorker ==
  ASSUME TypeOK, QSIZE <= RING, NEW w \in Cores, DrainSound(w), Worker(w)
  PROVE  DrainSound(w)'
  <1>1. CASE RingBurst(w)
    BY <1>1 DEF TypeOK, RingBurst, DrainSound, Goto, hvars
  <1>2. CASE FinishBatch(w) \/ DrainOver(w)
    BY <1>2 DEF TypeOK, FinishBatch, DrainOver, DrainSound, Goto, wlocal, pktvars, hvars
  <1>3. CASE ReleaseTest(w)
    BY <1>3 DEF TypeOK, ReleaseTest, NextShard, DrainSound, Goto, wlocal, pktvars, hvars
  <1>4. CASE ReleasePause(w)
    BY <1>4 DEF TypeOK, ReleasePause, DrainSound, Goto, wlocal, pktvars, hvars
  <1>13. CASE ReleaseTell(w)
    <2>1. pc'[w] \notin {"sig", "count", "drain"}
      BY <1>13 DEF TypeOK, ReleaseTell, NextShard, Goto
    <2> QED
      BY <1>13, <2>1 DEF ReleaseTell, DrainSound, pktvars, hvars
  <1>5. CASE ClaimTest(w) \/ ClaimOffer(w) \/ ClaimOwner(w)
    BY <1>5 DEF TypeOK, ClaimTest, ClaimOffer, ClaimOwner, NextShard, DrainSound, Goto, wlocal, pktvars, hvars
  <1>6. CASE SignalTest(w) \/ TransferTest(w)
    BY <1>6 DEF TypeOK, SignalTest, TransferTest, DrainSound, Goto, wlocal, pktvars, hvars
  <1>7. CASE DrainCount(w)
    <2> SUFFICES ASSUME ~aborted[w], ~overran[w]
                 PROVE  /\ ~myown'[w] => myring'[w] = <<>>
                        /\ pc'[w] \notin {"sig", "count"}
                        /\ Len(myring'[w]) + count'[w] <= QSIZE
      BY <1>7 DEF DrainCount, DrainSound, hvars
    <2>1. ~myown[w] /\ myring[w] = <<>>
      BY <1>7 DEF DrainCount, DrainSound
    <2>2. Least(Len(rx[w]), QSIZE) <= QSIZE /\ Least(Len(rx[w]), QSIZE) \in Nat
      BY LenProperties, SizesAssumption DEF Least, TypeOK
    <2>3. count'[w] = Least(Len(rx[w]), QSIZE) /\ pc'[w] = "drain" /\ myring' = myring
      BY <1>7 DEF DrainCount, TypeOK, Goto, pktvars
    <2>4. Len(<<>>) = 0
      BY EmptySeq
    <2> QED
      BY <2>1, <2>2, <2>3, <2>4
  <1>8. CASE DrainBurst(w)
    <2>1. myown'[w] /\ pc' = pc /\ pc[w] = "drain" /\ aborted' = aborted
      BY <1>8 DEF DrainBurst, TypeOK
    <2> QED
      BY <1>8, <2>1, BurstFits DEF DrainSound
  <1>9. CASE DrainEnd(w)
    <2>1. pc'[w] \in {"tclear", "trel"} /\ UNCHANGED <<aborted, overran, myring>>
      BY <1>9 DEF DrainEnd, Goto, TypeOK, pktvars, hvars
    <2>2. ~myown'[w] => ~myown[w]
      BY <1>9 DEF DrainEnd, TypeOK
    <2> QED
      BY <2>1, <2>2 DEF DrainSound
  <1>10. CASE TransferClear(w) \/ SignalClear(w) \/ ChangesTest(w) \/ ChangesClear(w)
    BY <1>10 DEF TypeOK, TransferClear, SignalClear, ChangesTest, ChangesClear, DrainSound, Goto, wlocal, pktvars, hvars
  <1>11. CASE ChangesShard(w)
    BY <1>11 DEF TypeOK, ChangesShard, NextShard, DrainSound, Goto, wlocal, pktvars, hvars
  <1>12. CASE RxBurst(w) \/ RxNothing(w)
    BY <1>12 DEF TypeOK, RxBurst, RxNothing, DrainSound, Goto, wlocal, pktvars, hvars
  <1> QED
    BY <1>1, <1>2, <1>3, <1>4, <1>5, <1>6, <1>7, <1>8, <1>9, <1>10, <1>11, <1>12, <1>13 DEF Worker

LeakInv ==
    /\ \A w \in Cores : DrainSound(w)
    /\ LeakNeedsBadDrain

(* LeakInv is inductive: a core that has gone wrong stays marked, and only  *)
(* a burst of a drain can lose a packet.                                    *)
LEMMA LeakStep ==
  ASSUME TypeOK, QSIZE <= RING, LeakInv, [Next]_vars PROVE LeakInv'
  <1>1. CASE UNCHANGED <<pc, wlocal, myown, myring, leaked, hvars>>
    BY <1>1 DEF LeakInv, DrainSound, LeakNeedsBadDrain, wlocal, hvars
  <1>2. ASSUME NEW w \in Cores, Worker(w) PROVE LeakInv'
    <2>1. DrainSound(w)'
      BY <1>2, DrainSoundWorker DEF LeakInv
    <2>2. \A v \in Cores : DrainSound(v)'
      <3> SUFFICES ASSUME NEW v \in Cores, v # w PROVE DrainSound(v)'
        BY <2>1
      <3> QED
        BY <1>2, WorkerLocal DEF DrainSound, LeakInv
    <2>3. \A v \in Cores : (aborted[v] => aborted'[v]) /\ (overran[v] => overran'[v])
      <3>1. (aborted[w] => aborted'[w]) /\ (overran[w] => overran'[w])
        <4>1. CASE DrainBurst(w)
          BY <4>1 DEF DrainBurst, TypeOK
        <4>2. CASE ChangesShard(w)
          BY <4>2 DEF ChangesShard, TypeOK
        <4>3. CASE UNCHANGED hvars
          BY <4>3 DEF hvars
        <4> QED
          BY <1>2, <4>1, <4>2, <4>3 DEF Worker, RingBurst, FinishBatch, DrainOver, ReleaseTest, ReleasePause, ReleaseTell, ClaimTest,
             ClaimOffer, ClaimOwner, SignalTest, TransferTest, DrainCount, DrainEnd,
             TransferClear, SignalClear, ChangesTest, ChangesClear, RxBurst, RxNothing
      <3> QED
        BY <1>2, <3>1, WorkerLocal
    <2>4. leaked' = leaked \/ aborted'[w] \/ overran'[w]
      <3>1. CASE DrainBurst(w)
        <4>1. aborted' = aborted
          BY <3>1 DEF DrainBurst
        <4> QED
          BY <3>1, <4>1, BurstFits DEF LeakInv
      <3>2. CASE ~DrainBurst(w)
        BY <1>2, <3>2 DEF pktvars, Worker, RingBurst, FinishBatch, DrainOver, ReleaseTest, ReleasePause, ReleaseTell, ClaimTest,
             ClaimOffer, ClaimOwner, SignalTest, TransferTest, DrainCount, DrainEnd,
             TransferClear, SignalClear, ChangesTest, ChangesShard, ChangesClear, RxBurst, RxNothing
      <3> QED
        BY <3>1, <3>2
    <2>5. LeakNeedsBadDrain'
      BY <2>3, <2>4 DEF LeakInv, LeakNeedsBadDrain
    <2> QED
      BY <2>2, <2>5 DEF LeakInv
  <1>3. ASSUME NEW s \in Shards, NicReceive(s) PROVE LeakInv'
    BY <1>1, <1>3 DEF NicReceive
  <1>4. CASE CtlSolve \/ Controller
    BY <1>1, <1>4 DEF Controller, CtlSolve, CtlMarkSkip, CtlMark, CtlPause, CtlReta,
       CtlNotifySkip, CtlNotify, CtlTell, CtlSignal, pktvars
  <1> QED
    BY <1>1, <1>2, <1>3, <1>4 DEF Next, Halted, vars, pktvars

(* Every packet lost at the ring is lost by a core whose drain was cut      *)
(* short or ran past its plan, whatever the sizes (the ring holding at      *)
(* least one drain) and however the epochs overlap: ignoring the result of  *)
(* rte_ring_enqueue_burst is harmless as long as every drain goes to plan.  *)
THEOREM LeakCorrect == Spec => []LeakNeedsBadDrain
  <1>1. CASE QSIZE <= RING
    <2>1. Init => LeakInv
      BY DEF Init, LeakInv, DrainSound, LeakNeedsBadDrain
    <2>2. TypeOK /\ LeakInv /\ [Next]_vars => LeakInv'
      BY <1>1, LeakStep
    <2>3. LeakInv => LeakNeedsBadDrain
      BY DEF LeakInv
    <2> QED
      BY <2>1, <2>2, <2>3, TypeCorrect, PTL DEF Spec
  <1>2. CASE ~(QSIZE <= RING)
    <2>1. LeakNeedsBadDrain
      BY <1>2 DEF LeakNeedsBadDrain
    <2> QED
      BY <2>1, PTL
  <1> QED
    BY <1>1, <1>2

-----------------------------------------------------------------------------
(* Bursts and the packets of a queue.                                       *)

(* What a burst takes from a queue and what it leaves, position by position.*)
LEMMA BurstSplit ==
  ASSUME NEW S, NEW q \in Seq(S), NEW n \in Nat
  PROVE  /\ Len(Front(q, n)) = Least(n, Len(q))
         /\ Len(Rest(q, n)) = Len(q) - Least(n, Len(q))
         /\ Least(n, Len(q)) \in 0 .. Len(q)
         /\ \A k \in 1 .. Least(n, Len(q)) : Front(q, n)[k] = q[k]
         /\ \A k \in 1 .. Len(q) - Least(n, Len(q)) :
               Rest(q, n)[k] = q[k + Least(n, Len(q))]
  <1> DEFINE m == Least(n, Len(q))
  <1>1. Len(q) \in Nat /\ m \in 0 .. Len(q) /\ DOMAIN q = 1 .. Len(q)
    BY LenProperties DEF Least
  <1>2. \A i \in 1 .. Len(q) : q[i] \in S
    BY ElementOfSeq
  <1> HIDE DEF m
  <1>3. /\ Len(SubSeq(q, 1, m)) = m
        /\ \A k \in 1 .. m : SubSeq(q, 1, m)[k] = q[k]
    BY <1>1, <1>2, SubSeqProperties
  <1>4. /\ Len(SubSeq(q, m + 1, Len(q))) = Len(q) - m
        /\ \A k \in 1 .. Len(q) - m : SubSeq(q, m + 1, Len(q))[k] = q[k + m]
    <2>1. /\ Len(SubSeq(q, m + 1, Len(q))) =
                 IF m + 1 <= Len(q) THEN Len(q) - (m + 1) + 1 ELSE 0
          /\ \A i \in 1 .. Len(q) - (m + 1) + 1 :
                 SubSeq(q, m + 1, Len(q))[i] = q[(m + 1) + i - 1]
      <3>1. m + 1 \in Int /\ Len(q) \in Int /\ \A i \in m + 1 .. Len(q) : q[i] \in S
        BY <1>1, <1>2
      <3> QED
        BY <3>1, SubSeqProperties
    <2>2. \A k \in 1 .. Len(q) - m : (m + 1) + k - 1 = k + m
      BY <1>1
    <2>3. Len(q) - (m + 1) + 1 = Len(q) - m
      BY <1>1
    <2>4. Len(SubSeq(q, m + 1, Len(q))) = Len(q) - m
      <3>1. CASE m + 1 <= Len(q)
        BY <2>1, <2>3, <3>1
      <3>2. CASE ~(m + 1 <= Len(q))
        <4>1. Len(q) - m = 0
          <5> DEFINE l == Len(q)
          <5>1. l \in Nat /\ m \in 0 .. l /\ ~(m + 1 <= l)
            BY <1>1, <3>2
          <5> HIDE DEF l
          <5>2. l - m = 0
            BY <5>1
          <5> QED
            BY <5>2 DEF l
        <4> QED
          BY <2>1, <3>2, <4>1
      <3> QED
        BY <3>1, <3>2
    <2>5. ASSUME NEW k \in 1 .. Len(q) - m
          PROVE  SubSeq(q, m + 1, Len(q))[k] = q[k + m]
      BY <2>1, <2>2, <2>3
    <2> QED
      BY <2>4, <2>5
  <1> QED
    BY <1>1, <1>3, <1>4 DEF Front, Rest, m

(* A queue's packets by position. *)
LEMMA ElementsByIndex ==
  ASSUME NEW S, NEW q \in Seq(S)
  PROVE  Elements(q) = {q[k] : k \in 1 .. Len(q)}
  BY LenProperties DEF Elements

(* A burst is a prefix of its queue, also when there is no room for it. *)
LEMMA FrontPrefix ==
  ASSUME NEW S, NEW q \in Seq(S), NEW n \in Int
  PROVE  /\ Front(q, n) \in Seq(S)
         /\ Len(Front(q, n)) \in Nat /\ Len(Front(q, n)) <= Len(q)
         /\ \A k \in 1 .. Len(Front(q, n)) : k \in 1 .. Len(q) /\ Front(q, n)[k] = q[k]
         /\ Elements(Front(q, n)) \subseteq Elements(q)
  <1> DEFINE m == Least(n, Len(q))
             f == Front(q, n)
  <1>1. f \in Seq(S) /\ Len(f) \in Nat /\ Len(q) \in Nat
    BY BurstType, LenProperties
  <1>2. m \in Int /\ m <= Len(q)
    BY <1>1 DEF Least
  <1>3. \A i \in 1 .. m : q[i] \in S
    BY <1>1, <1>2, ElementOfSeq
  <1>4. f = SubSeq(q, 1, m)
    BY DEF Front
  <1> HIDE DEF m, f
  <1>5. /\ Len(f) = IF 1 <= m THEN m - 1 + 1 ELSE 0
        /\ \A k \in 1 .. m - 1 + 1 : f[k] = q[1 + k - 1]
    BY <1>2, <1>3, <1>4, SubSeqProperties
  <1>6. \A k \in 1 .. Len(f) : k \in 1 .. Len(q) /\ f[k] = q[k]
    BY <1>1, <1>2, <1>5
  <1>7. Elements(f) = {f[k] : k \in 1 .. Len(f)} /\ Elements(q) = {q[k] : k \in 1 .. Len(q)}
    BY <1>1, ElementsByIndex
  <1>8. Elements(f) \subseteq Elements(q)
    BY <1>6, <1>7
  <1>9. Len(f) <= Len(q)
    BY <1>1, <1>2, <1>5
  <1> QED
    BY <1>1, <1>6, <1>8, <1>9 DEF f

(* The packets of two queues put together. *)
LEMMA ElementsConcat ==
  ASSUME NEW S, NEW q \in Seq(S), NEW r \in Seq(S)
  PROVE  Elements(q \o r) = Elements(q) \union Elements(r)
  <1>1. /\ q \o r \in Seq(S)
        /\ Len(q \o r) = Len(q) + Len(r)
        /\ \A i \in 1 .. Len(q) + Len(r) :
              (q \o r)[i] = IF i <= Len(q) THEN q[i] ELSE r[i - Len(q)]
        /\ Len(q) \in Nat /\ Len(r) \in Nat
    BY ConcatProperties, LenProperties
  <1>2. Elements(q \o r) = {(q \o r)[k] : k \in 1 .. Len(q) + Len(r)}
    BY <1>1, ElementsByIndex
  <1>3. Elements(q) = {q[k] : k \in 1 .. Len(q)} /\ Elements(r) = {r[k] : k \in 1 .. Len(r)}
    BY ElementsByIndex
  <1>4. ASSUME NEW k \in 1 .. Len(q)
        PROVE  k \in 1 .. Len(q) + Len(r) /\ (q \o r)[k] = q[k]
    BY <1>1
  <1>5. ASSUME NEW k \in 1 .. Len(r)
        PROVE  k + Len(q) \in 1 .. Len(q) + Len(r) /\ (q \o r)[k + Len(q)] = r[k]
    BY <1>1
  <1>6. ASSUME NEW k \in 1 .. Len(q) + Len(r)
        PROVE  (q \o r)[k] \in Elements(q) \union Elements(r)
    BY <1>1, <1>3
  <1> QED
    BY <1>2, <1>3, <1>4, <1>5, <1>6

(* The packets of a queue after an arrival. *)
LEMMA ElementsAppend ==
  ASSUME NEW S, NEW q \in Seq(S), NEW p \in S
  PROVE  Elements(Append(q, p)) = Elements(q) \union {p}
  <1>1. /\ Append(q, p) \in Seq(S)
        /\ Len(Append(q, p)) = Len(q) + 1
        /\ \A i \in 1 .. Len(q) : Append(q, p)[i] = q[i]
        /\ Append(q, p)[Len(q) + 1] = p
        /\ Len(q) \in Nat
    BY AppendProperties, LenProperties
  <1>2. Elements(Append(q, p)) = {Append(q, p)[k] : k \in 1 .. Len(q) + 1}
    BY <1>1, ElementsByIndex
  <1>3. Elements(q) = {q[k] : k \in 1 .. Len(q)}
    BY ElementsByIndex
  <1>4. 1 .. Len(q) + 1 = (1 .. Len(q)) \union {Len(q) + 1}
    BY <1>1
  <1> QED
    BY <1>1, <1>2, <1>3, <1>4

(* A burst and the rest together are the queue. *)
LEMMA ElementsSplit ==
  ASSUME NEW S, NEW q \in Seq(S), NEW n \in Nat
  PROVE  /\ Elements(Front(q, n)) \union Elements(Rest(q, n)) = Elements(q)
  <1> DEFINE m == Least(n, Len(q))
  <1>1. /\ Front(q, n) \in Seq(S) /\ Rest(q, n) \in Seq(S)
        /\ Len(Front(q, n)) = m /\ Len(Rest(q, n)) = Len(q) - m /\ m \in 0 .. Len(q)
        /\ \A k \in 1 .. m : Front(q, n)[k] = q[k]
        /\ \A k \in 1 .. Len(q) - m : Rest(q, n)[k] = q[k + m]
        /\ Len(q) \in Nat
    <2>1. n \in Int
      OBVIOUS
    <2> QED
      BY <2>1, BurstSplit, BurstType, LenProperties
  <1> HIDE DEF m
  <1>2. /\ Elements(q) = {q[k] : k \in 1 .. Len(q)}
        /\ Elements(Front(q, n)) = {Front(q, n)[k] : k \in 1 .. m}
        /\ Elements(Rest(q, n)) = {Rest(q, n)[k] : k \in 1 .. Len(q) - m}
    <2>1. Elements(q) = {q[k] : k \in 1 .. Len(q)}
      BY ElementsByIndex
    <2>2. Elements(Front(q, n)) = {Front(q, n)[k] : k \in 1 .. Len(Front(q, n))}
      BY <1>1, ElementsByIndex
    <2>3. Elements(Rest(q, n)) = {Rest(q, n)[k] : k \in 1 .. Len(Rest(q, n))}
      BY <1>1, ElementsByIndex
    <2> QED
      BY <1>1, <2>1, <2>2, <2>3
  <1>3. Elements(Front(q, n)) \union Elements(Rest(q, n)) \subseteq Elements(q)
    BY <1>1, <1>2
  <1>4. ASSUME NEW k \in 1 .. Len(q)
        PROVE  q[k] \in Elements(Front(q, n)) \union Elements(Rest(q, n))
    <2>1. CASE k <= m
      BY <1>1, <1>2, <2>1
    <2>2. CASE k > m
      <3>1. k - m \in 1 .. Len(q) - m /\ Rest(q, n)[k - m] = q[k]
        BY <1>1, <2>2
      <3> QED
        BY <1>2, <3>1
    <2> QED
      BY <1>1, <2>1, <2>2
  <1> QED
    BY <1>2, <1>3, <1>4

-----------------------------------------------------------------------------
(* The handover, with epochs that do not overlap.                           *)

(* The labels after a drain, when a core releases and claims shards. *)
Handing == {"rel", "relclear", "reltell", "claim", "claim1", "claim2",
            "trel", "trelclear", "treltell"}

(* From the first mark until the cores are signalled no core handles the    *)
(* handshake.                                                               *)
Serial ==
    cpc \in {"mark", "pause", "reta", "notify", "tell"} =>
        \A w \in Cores : Idling(w)

(* The first loop of update_shards has named the new owner of shard s. *)
Visited(s) == cpc = "reta" \/ s < ci \/ (s = ci /\ cpc = "pause")

(* The core that shard s belongs to by the assignment the controller has    *)
(* announced so far.                                                        *)
Target(s) ==
    IF cpc \in {"idle", "signal"} \/ (cpc \in {"mark", "pause"} /\ ~Visited(s))
    THEN A[s] ELSE newA[s]

(* A shard that moves and was marked in time is still with its old owner,   *)
(* and paused.                                                              *)
MarkInv(s) ==
    cpc \in {"mark", "pause", "reta"} /\ Visited(s) /\ newA[s] # A[s] /\ hist[s] # "stale" =>
        /\ owner[s] = A[s]
        /\ pause[s] = 1 \/ (cpc = "pause" /\ s = ci)

(* A shard reassigned cleanly is offered to its target or to nobody, and to *)
(* nobody only once its target has it or is taking it.                      *)
OfferInv(s) ==
    hist[s] = "clean" =>
        /\ owner_new[s] \in {Target(s), NONE}
        /\ owner_new[s] = NONE =>
              \/ owner[s] = Target(s)
              \/ \E w \in Cores : pc[w] = "claim2" /\ ls[w] = s

(* What a core's last test of a shard still guarantees in the steps that    *)
(* act on it.                                                               *)
ClaimInv(w) ==
    /\ pc[w] = "claim1" => owner_new[ls[w]] = w
    /\ pc[w] = "claim2" /\ hist[ls[w]] = "clean" => w = Target(ls[w])
    /\ pc[w] \in {"claim1", "claim2"} => pause[ls[w]] = 0
    /\ pc[w] \in {"relclear", "trelclear"} => pause[ls[w]] = 0 \/ owner[ls[w]] = w

(* The packet is of a shard that the NIC steers to core w. *)
Steered(w, p) == reta[p[1]] = w

(* What a core holds in each phase: outside its batches nothing in hand,    *)
(* outside a drain nothing in the ring, and from the end of a drain until   *)
(* the last release only packets of its own shards in the rx queue.         *)
QueueInv(w) ==
    /\ pc[w] # "work" => busy[w] = <<>>
    /\ ~aborted[w] /\ ~myown[w] => myring[w] = <<>>
    /\ pc[w] \in Handing \union {"sig", "count"} => ~myown[w]
    /\ Len(rx[w]) <= NDESC
    /\ pc[w] = "drain" =>
          \A k \in 1 .. Len(rx[w]) : k > count[w] => Steered(w, rx[w][k])
    /\ pc[w] \in Handing \/ (myown[w] /\ pc[w] # "drain") =>
          \A k \in 1 .. Len(rx[w]) : Steered(w, rx[w][k])

(* Who holds packets of a shard that the NIC steers elsewhere is its paused *)
(* owner.                                                                   *)
HoldInv(w, s) ==
    hist[s] # "stale" /\ ~aborted[w] /\ Holds(w, s) /\ w # reta[s] =>
        pause[s] = 1 /\ owner[s] = w

HandoverInv ==
    /\ Serial
    /\ \A s \in Shards : MarkInv(s) /\ OfferInv(s)
    /\ \A w \in Cores : ClaimInv(w) /\ QueueInv(w)
    /\ \A w \in Cores, s \in Shards : HoldInv(w, s)

(* The steps of a core that leave the shards' fields alone and are not part *)
(* of a release or a claim.                                                 *)
Plain(w) ==
    \/ RingBurst(w) \/ FinishBatch(w) \/ DrainOver(w) \/ ReleaseTell(w)
    \/ SignalTest(w) \/ TransferTest(w)
    \/ DrainCount(w) \/ DrainBurst(w) \/ DrainEnd(w)
    \/ TransferClear(w) \/ SignalClear(w)
    \/ ChangesTest(w) \/ ChangesShard(w) \/ ChangesClear(w)
    \/ RxBurst(w) \/ RxNothing(w)

(* A plain step enters and leaves no release or claim. *)
LEMMA PlainStep ==
  ASSUME TypeOK, NEW w \in Cores, Plain(w)
  PROVE  /\ UNCHANGED shardvars
         /\ pc[w] # "claim2"
         /\ pc'[w] \notin {"claim1", "claim2", "relclear", "trelclear"}
  <1>f. Cores = DOMAIN pc
    BY DEF TypeOK
  <1>1. CASE RingBurst(w)
    BY <1>1, <1>f DEF RingBurst, Goto
  <1>2. CASE FinishBatch(w)
    BY <1>2, <1>f DEF FinishBatch, Goto
  <1>3. CASE DrainOver(w)
    BY <1>3, <1>f DEF DrainOver, Goto
  <1>4. CASE ReleaseTell(w)
    BY <1>4, <1>f DEF ReleaseTell, NextShard, Goto
  <1>5. CASE SignalTest(w)
    BY <1>5, <1>f DEF SignalTest, Goto
  <1>6. CASE TransferTest(w)
    BY <1>6, <1>f DEF TransferTest, Goto
  <1>7. CASE DrainCount(w)
    BY <1>7, <1>f DEF DrainCount, Goto
  <1>8. CASE DrainBurst(w)
    BY <1>8, <1>f DEF DrainBurst
  <1>9. CASE DrainEnd(w)
    BY <1>9, <1>f DEF DrainEnd, Goto
  <1>10. CASE TransferClear(w)
    BY <1>10, <1>f DEF TransferClear, Goto
  <1>11. CASE SignalClear(w)
    BY <1>11, <1>f DEF SignalClear, Goto
  <1>12. CASE ChangesTest(w)
    BY <1>12, <1>f DEF ChangesTest, Goto
  <1>13. CASE ChangesShard(w)
    BY <1>13, <1>f DEF ChangesShard, NextShard, Goto
  <1>14. CASE ChangesClear(w)
    BY <1>14, <1>f DEF ChangesClear, Goto
  <1>15. CASE RxBurst(w)
    BY <1>15, <1>f DEF RxBurst, Goto
  <1>16. CASE RxNothing(w)
    BY <1>16, <1>f DEF RxNothing, Goto
  <1> QED
    BY <1>1, <1>2, <1>3, <1>4, <1>5, <1>6, <1>7, <1>8, <1>9, <1>10, <1>11, <1>12, <1>13, <1>14, <1>15, <1>16
    DEF Plain

(* No core handles the handshake before the cores are signalled. *)
LEMMA SerialStep ==
  ASSUME ~Overlap, TypeOK, Serial, [Next]_vars PROVE Serial'
  <1>1. CASE UNCHANGED vars
    BY <1>1 DEF vars, cvars, shardvars, flagvars, Serial, Idling
  <1>2. CASE CtlSolve
    <2>1. \A w \in Cores : Quiet(w)
      BY <1>2 DEF CtlSolve
    <2> QED
      BY <2>1, <1>2 DEF CtlSolve, Quiet, Idling, Serial, flagvars
  <1>3. CASE CtlMarkSkip \/ CtlMark \/ CtlPause \/ CtlReta
    BY <1>3 DEF CtlMarkSkip, CtlMark, CtlPause, CtlReta, Serial, Idling, flagvars
  <1>4. CASE CtlNotifySkip \/ CtlNotify \/ CtlTell
    BY <1>4 DEF CtlNotifySkip, CtlNotify, CtlTell, Serial, Idling, flagvars
  <1>5. CASE CtlSignal
    BY <1>5 DEF CtlSignal, Serial
  <1>6. ASSUME NEW s \in Shards, NicReceive(s) PROVE Serial'
    BY <1>6 DEF NicReceive, Serial, Idling, cvars, flagvars
  <1>7. ASSUME NEW w \in Cores, Worker(w) PROVE Serial'
    <2>1. CASE cpc \in {"mark", "pause", "reta", "notify", "tell"}
      <3>1. Idling(w)
        BY <2>1 DEF Serial
      <3> QED
        BY <1>7, <2>1, <3>1, IdlingStays DEF Serial
    <2>2. CASE cpc \notin {"mark", "pause", "reta", "notify", "tell"}
      BY <1>7, <2>2, CoresKeepController DEF Serial, cvars
    <2> QED
      BY <2>1, <2>2
  <1> QED
    BY <1>1, <1>2, <1>3, <1>4, <1>5, <1>6, <1>7 DEF Next, Controller, Halted

(* The end of an iteration of the first loop: the shards visited are now    *)
(* the earlier ones and the current one.                                    *)
LEMMA VisitNext ==
  ASSUME TypeOK, cpc \in {"mark", "pause"}, CtlNextShard("mark", "reta"),
         NEW s \in Shards
  PROVE  Visited(s)' <=> s < ci \/ s = ci
  <1>1. \/ cpc' = "mark" /\ ci' = ci + 1
        \/ cpc' = "reta" /\ ~(ci + 1 < NS) /\ ci' = 0
    BY DEF CtlNextShard
  <1>2. ci \in Shards
    BY DEF TypeOK
  <1> QED
    BY <1>1, <1>2, SizesAssumption DEF Shards, Visited

(* The marks stay until the table is flipped. *)
LEMMA MarkStep ==
  ASSUME TypeOK, Serial, \A s \in Shards : MarkInv(s), [Next]_vars
  PROVE  \A s \in Shards : MarkInv(s)'
  <1> SUFFICES ASSUME NEW s \in Shards PROVE MarkInv(s)'
    OBVIOUS
  <1>s. MarkInv(s) /\ ci \in Shards
    BY DEF TypeOK
  <1>1. CASE UNCHANGED <<cvars, shardvars>>
    BY <1>1, <1>s DEF cvars, shardvars, MarkInv, Visited
  <1>2. CASE CtlSolve
    BY <1>2, SizesAssumption DEF CtlSolve, MarkInv, Visited, Shards
  <1>3. CASE CtlMarkSkip
    <2>1. Visited(s)' <=> s < ci \/ s = ci
      BY <1>3, VisitNext DEF CtlMarkSkip
    <2>2. UNCHANGED <<newA, A, owner, pause>> /\ cpc = "mark"
      BY <1>3 DEF CtlMarkSkip, shardvars
    <2>3. CASE s = ci
      <3>1. newA[s] = A[s] \/ hist'[s] = "stale"
        BY <1>3, <2>3 DEF CtlMarkSkip, TypeOK
      <3> QED
        BY <2>2, <3>1 DEF MarkInv
    <2>4. CASE s # ci
      <3>1. hist'[s] = hist[s]
        BY <1>3, <2>4 DEF CtlMarkSkip, TypeOK
      <3> QED
        BY <1>s, <2>1, <2>2, <2>4, <3>1 DEF MarkInv, Visited
    <2> QED
      BY <2>3, <2>4
  <1>4. CASE CtlMark
    <2>1. UNCHANGED <<newA, A, owner, pause, ci>> /\ cpc = "mark" /\ cpc' = "pause"
      BY <1>4 DEF CtlMark
    <2>2. CASE s = ci
      <3>1. hist'[s] = "stale" \/ owner[s] = A[s]
        BY <1>4, <2>2 DEF CtlMark, TypeOK
      <3> QED
        BY <2>1, <2>2, <3>1 DEF MarkInv
    <2>3. CASE s # ci
      <3>1. hist'[s] = hist[s]
        BY <1>4, <2>3 DEF CtlMark, TypeOK
      <3> QED
        BY <1>s, <2>1, <2>3, <3>1 DEF MarkInv, Visited
    <2> QED
      BY <2>2, <2>3
  <1>5. CASE CtlPause
    <2>1. Visited(s)' <=> s < ci \/ s = ci
      BY <1>5, VisitNext DEF CtlPause
    <2>2. UNCHANGED <<newA, A, owner, hist>> /\ cpc = "pause"
      BY <1>5 DEF CtlPause
    <2>3. cpc' # "pause" /\ pause'[s] = IF s = ci THEN 1 ELSE pause[s]
      BY <1>5 DEF CtlPause, CtlNextShard, TypeOK
    <2> QED
      BY <1>s, <2>1, <2>2, <2>3 DEF MarkInv, Visited
  <1>6. CASE CtlReta \/ CtlNotifySkip \/ CtlNotify \/ CtlTell \/ CtlSignal
    BY <1>6 DEF CtlReta, CtlNotifySkip, CtlNotify, CtlTell, CtlSignal,
                CtlNextNotify, CtlNextShard, MarkInv
  <1>7. ASSUME NEW w \in Cores, Worker(w) PROVE MarkInv(s)'
    <2>1. CASE cpc \in {"mark", "pause", "reta"}
      <3>1. Idling(w)
        BY <2>1 DEF Serial
      <3> QED
        BY <1>7, <1>1, <3>1, IdlingStays
    <2>2. CASE cpc \notin {"mark", "pause", "reta"}
      BY <1>7, <2>2, CoresKeepController DEF MarkInv, cvars
    <2> QED
      BY <2>1, <2>2
  <1> QED
    BY <1>1, <1>2, <1>3, <1>4, <1>5, <1>6, <1>7 DEF Next, Controller, Halted, NicReceive, vars


(* The controller moves the target of a shard only by marking it. *)
LEMMA TargetStep ==
  ASSUME TypeOK, CtlSolve \/ Controller, NEW s \in Shards
  PROVE  \/ Target(s)' = Target(s)
         \/ cpc = "mark" /\ s = ci /\ Target(s) = A[s] /\ Target(s)' = newA[s]
  <1>0. ci \in Shards
    BY DEF TypeOK
  <1>1. CASE CtlSolve
    BY <1>1, SizesAssumption DEF CtlSolve, Target, Visited, Shards
  <1>2. CASE CtlMarkSkip
    <2>1. Visited(s)' <=> s < ci \/ s = ci
      BY <1>2, VisitNext DEF CtlMarkSkip
    <2>2. cpc = "mark" /\ cpc' \in {"mark", "reta"} /\ UNCHANGED <<A, newA>>
      BY <1>2 DEF CtlMarkSkip, CtlNextShard
    <2>3. cpc' = "reta" => Visited(s)'
      BY DEF Visited
    <2>4. Visited(s) <=> s < ci
      BY <2>2 DEF Visited
    <2>5. s = ci => ~(s < ci)
      BY <1>0 DEF Shards
    <2> QED
      BY <2>1, <2>2, <2>3, <2>4, <2>5 DEF Target
  <1>3. CASE CtlMark
    <2>1. cpc = "mark" /\ cpc' = "pause" /\ UNCHANGED <<A, newA, ci>>
      BY <1>3 DEF CtlMark
    <2>5. s = ci => ~(s < ci)
      BY <1>0 DEF Shards
    <2> QED
      BY <2>1, <2>5 DEF Target, Visited
  <1>4. CASE CtlPause
    <2>1. Visited(s)' <=> s < ci \/ s = ci
      BY <1>4, VisitNext DEF CtlPause
    <2>2. cpc = "pause" /\ cpc' \in {"mark", "reta"} /\ UNCHANGED <<A, newA>>
      BY <1>4 DEF CtlPause, CtlNextShard
    <2>3. cpc' = "reta" => Visited(s)'
      BY DEF Visited
    <2>4. Visited(s) <=> s < ci \/ s = ci
      BY <2>2 DEF Visited
    <2> QED
      BY <2>1, <2>2, <2>3, <2>4 DEF Target
  <1>5. CASE CtlReta
    BY <1>5 DEF CtlReta, Target
  <1>6. CASE CtlNotifySkip
    BY <1>6 DEF CtlNotifySkip, CtlNextNotify, CtlNextShard, Target
  <1>7. CASE CtlNotify
    BY <1>7 DEF CtlNotify, Target
  <1>8. CASE CtlTell
    BY <1>8 DEF CtlTell, CtlNextNotify, CtlNextShard, Target
  <1>9. CASE CtlSignal
    BY <1>9 DEF CtlSignal, Target
  <1> QED
    BY <1>1, <1>2, <1>3, <1>4, <1>5, <1>6, <1>7, <1>8, <1>9 DEF Controller

(* Offers and claims under the controller's steps: it names and pauses      *)
(* shards only while no core claims any.                                    *)
LEMMA OfferController ==
  ASSUME TypeOK, Serial, \A s \in Shards : OfferInv(s), \A w \in Cores : ClaimInv(w),
         ~Overlap, CtlSolve \/ Controller
  PROVE  (\A s \in Shards : OfferInv(s)') /\ (\A w \in Cores : ClaimInv(w)')
  <1>0. UNCHANGED <<pc, ls, owner>>
    BY DEF Controller, CtlSolve, CtlMarkSkip, CtlMark, CtlPause, CtlReta,
           CtlNotifySkip, CtlNotify, CtlTell, CtlSignal, shardvars, wlocal
  <1>1. CASE CtlSignal
    <2>1. \A s \in Shards : Target(s)' = Target(s)
      BY <1>1 DEF CtlSignal, Target
    <2>2. UNCHANGED <<shardvars, hist>>
      BY <1>1 DEF CtlSignal
    <2>3. \A w \in Cores : ls[w] \in Shards
      BY DEF TypeOK
    <2> QED
      BY <1>0, <2>1, <2>2, <2>3 DEF OfferInv, ClaimInv, shardvars
  <1>2. CASE ~CtlSignal
    <2>1. \A w \in Cores : pc[w] \in {"top", "proc", "rx", "work"}
      BY <1>2 DEF Serial, Idling, Controller, CtlSolve, Quiet, CtlMarkSkip, CtlMark,
            CtlPause, CtlReta, CtlNotifySkip, CtlNotify, CtlTell
    <2>2. \A w \in Cores : ClaimInv(w)'
      BY <1>0, <2>1 DEF ClaimInv
    <2>3. ASSUME NEW s \in Shards PROVE OfferInv(s)'
      <3>0. OfferInv(s)
        OBVIOUS
      <3>1. CASE CtlMark
        <4>1. CASE s = ci
          <5>1. owner_new'[s] = newA[s] /\ newA[s] \in Cores
            BY <3>1, <4>1 DEF CtlMark, TypeOK
          <5>2. Target(s)' = newA[s]
            BY <3>1, <4>1 DEF CtlMark, Target, Visited
          <5>3. newA[s] # NONE
            BY <5>1, SizesAssumption DEF Cores, NONE
          <5> QED
            BY <5>1, <5>2, <5>3 DEF OfferInv
        <4>2. CASE s # ci
          <5>1. owner_new'[s] = owner_new[s] /\ hist'[s] = hist[s]
            BY <3>1, <4>2 DEF CtlMark, TypeOK
          <5> QED
            BY <1>0, <3>0, <4>2, <5>1, TargetStep DEF OfferInv
        <4> QED
          BY <4>1, <4>2
      <3>2. CASE CtlMarkSkip
        <4>1. owner_new' = owner_new /\ cpc = "mark"
          BY <3>2 DEF CtlMarkSkip, shardvars
        <4>2. CASE s = ci
          <5>1. hist'[s] = "stale" \/ (newA[s] = A[s] /\ hist'[s] = hist[s])
            BY <3>2, <4>2 DEF CtlMarkSkip, TypeOK
          <5> QED
            BY <1>0, <3>0, <4>1, <5>1, TargetStep DEF OfferInv
        <4>3. CASE s # ci
          <5>1. hist'[s] = hist[s]
            BY <3>2, <4>3 DEF CtlMarkSkip, TypeOK
          <5> QED
            BY <1>0, <3>0, <4>1, <4>3, <5>1, TargetStep DEF OfferInv
        <4> QED
          BY <4>2, <4>3
      <3>3. CASE ~CtlMark /\ ~CtlMarkSkip
        <4>1. UNCHANGED <<owner_new, hist>> /\ cpc # "mark"
          BY <3>3 DEF Controller, CtlSolve, CtlPause, CtlReta,
             CtlNotifySkip, CtlNotify, CtlTell, CtlSignal, shardvars
        <4> QED
          BY <1>0, <3>0, <4>1, TargetStep DEF OfferInv
      <3> QED
        BY <3>1, <3>2, <3>3
    <2> QED
      BY <2>2, <2>3
  <1> QED
    BY <1>1, <1>2

(* Offers and claims under a core's steps. *)
LEMMA OfferWorker ==
  ASSUME TypeOK, \A s \in Shards : OfferInv(s), \A w \in Cores : ClaimInv(w),
         NEW w \in Cores, Worker(w)
  PROVE  (\A s \in Shards : OfferInv(s)') /\ (\A v \in Cores : ClaimInv(v)')
  <1>0. \A s \in Shards : Target(s)' = Target(s) /\ hist'[s] = hist[s]
    BY CoresKeepController DEF cvars, Target, Visited
  <1>t. \A v \in Cores : ls[v] \in Shards /\ ls'[v] \in Shards
    BY TypeWorker DEF TypeOK
  <1>l. \A v \in Cores : v # w => pc'[v] = pc[v] /\ ls'[v] = ls[v]
    BY WorkerLocal
  <1>n. w # NONE /\ \A s \in Shards : owner_new[s] \in Cores \union {NONE}
    <2>1. w # NONE
      BY SizesAssumption DEF Cores, NONE
    <2> QED
      BY <2>1 DEF TypeOK
  <1>f. /\ DOMAIN pc = Cores /\ DOMAIN ls = Cores /\ DOMAIN pause = Shards
        /\ DOMAIN owner = Shards /\ DOMAIN owner_new = Shards
    BY DEF TypeOK
  <1>1. CASE Plain(w)
    <2>1. UNCHANGED shardvars /\ pc[w] # "claim2"
          /\ pc'[w] \notin {"claim1", "claim2", "relclear", "trelclear"}
      BY <1>1, PlainStep
    <2>2. ASSUME NEW s \in Shards PROVE OfferInv(s)'
      BY <1>0, <1>l, <2>1 DEF OfferInv, shardvars
    <2>3. ASSUME NEW v \in Cores PROVE ClaimInv(v)'
      BY <1>0, <1>l, <1>t, <2>1 DEF ClaimInv, shardvars
    <2> QED
      BY <2>2, <2>3
  <1>2. CASE ReleaseTest(w)
    <2>1. UNCHANGED shardvars /\ pc[w] # "claim2" /\ pc'[w] \notin {"claim1", "claim2"}
      BY <1>2, <1>f DEF ReleaseTest, NextShard, Goto
    <2>2. pc'[w] \in {"relclear", "trelclear"} => ls'[w] = ls[w] /\ owner[ls[w]] = w
      BY <1>2, <1>f DEF ReleaseTest, NextShard, Goto, MayRelease
    <2>3. ASSUME NEW s \in Shards PROVE OfferInv(s)'
      BY <1>0, <1>l, <2>1 DEF OfferInv, shardvars
    <2>4. ASSUME NEW v \in Cores PROVE ClaimInv(v)'
      BY <1>0, <1>l, <1>t, <2>1, <2>2 DEF ClaimInv, shardvars
    <2> QED
      BY <2>3, <2>4
  <1>3. CASE ReleasePause(w)
    <2>1. /\ UNCHANGED <<owner, owner_new>> /\ pc[w] # "claim2"
          /\ pc'[w] \notin {"claim1", "claim2", "relclear", "trelclear"}
      BY <1>3, <1>f DEF ReleasePause, Goto
    <2>2. \A s \in Shards : pause'[s] \in {0, pause[s]}
      BY <1>3, <1>f DEF ReleasePause
    <2>3. ASSUME NEW s \in Shards PROVE OfferInv(s)'
      BY <1>0, <1>l, <2>1 DEF OfferInv
    <2>4. ASSUME NEW v \in Cores PROVE ClaimInv(v)'
      BY <1>0, <1>l, <1>t, <2>1, <2>2 DEF ClaimInv
    <2> QED
      BY <2>3, <2>4
  <1>4. CASE ClaimTest(w)
    <2>1. /\ UNCHANGED shardvars /\ pc[w] # "claim2"
          /\ pc'[w] \notin {"claim2", "relclear", "trelclear"}
      BY <1>4, <1>f DEF ClaimTest, NextShard, Goto
    <2>2. pc'[w] = "claim1" => ls'[w] = ls[w] /\ pause[ls[w]] = 0 /\ owner_new[ls[w]] = w
      BY <1>4, <1>f DEF ClaimTest, NextShard, Goto, MayClaim
    <2>3. ASSUME NEW s \in Shards PROVE OfferInv(s)'
      BY <1>0, <1>l, <2>1 DEF OfferInv, shardvars
    <2>4. ASSUME NEW v \in Cores PROVE ClaimInv(v)'
      BY <1>0, <1>l, <1>t, <2>1, <2>2 DEF ClaimInv, shardvars
    <2> QED
      BY <2>3, <2>4
  <1>5. CASE ClaimOffer(w)
    <2>1. /\ UNCHANGED <<owner, pause>> /\ pc[w] = "claim1" /\ pc'[w] = "claim2"
          /\ ls' = ls /\ owner_new' = [owner_new EXCEPT ![ls[w]] = NONE]
      BY <1>5, <1>f DEF ClaimOffer, Goto, wlocal
    <2>2. owner_new[ls[w]] = w /\ pause[ls[w]] = 0
      BY <2>1 DEF ClaimInv
    <2>3. hist[ls[w]] = "clean" => w = Target(ls[w])
      BY <1>n, <1>t, <2>2 DEF OfferInv
    <2>4. ASSUME NEW s \in Shards PROVE OfferInv(s)'
      <3>1. CASE s = ls[w]
        BY <1>f, <2>1, <3>1 DEF OfferInv
      <3>2. CASE s # ls[w]
        <4>1. owner_new'[s] = owner_new[s]
          BY <1>f, <2>1, <3>2
        <4> QED
          BY <1>0, <1>l, <2>1, <4>1 DEF OfferInv
      <3> QED
        BY <3>1, <3>2
    <2>5. ASSUME NEW v \in Cores PROVE ClaimInv(v)'
      <3>1. CASE v = w
        BY <1>0, <1>t, <2>1, <2>2, <2>3, <3>1 DEF ClaimInv
      <3>2. CASE v # w
        <4>1. pc[v] = "claim1" => owner_new'[ls[v]] = v
          <5>1. pc[v] = "claim1" => owner_new[ls[v]] = v /\ ls[v] # ls[w]
            BY <2>2, <3>2 DEF ClaimInv
          <5> QED
            BY <1>f, <1>t, <2>1, <5>1
        <4> QED
          BY <1>0, <1>l, <1>t, <2>1, <3>2, <4>1 DEF ClaimInv
      <3> QED
        BY <3>1, <3>2
    <2> QED
      BY <2>4, <2>5
  <1>6. CASE ClaimOwner(w)
    <2>1. /\ UNCHANGED <<owner_new, pause>> /\ pc[w] = "claim2"
          /\ owner' = [owner EXCEPT ![ls[w]] = w]
          /\ pc'[w] \notin {"claim1", "claim2", "relclear", "trelclear"}
      BY <1>6, <1>f DEF ClaimOwner, NextShard, Goto
    <2>2. pause[ls[w]] = 0 /\ (hist[ls[w]] = "clean" => w = Target(ls[w]))
      BY <2>1 DEF ClaimInv
    <2>3. ASSUME NEW s \in Shards PROVE OfferInv(s)'
      <3>1. CASE s = ls[w]
        BY <1>0, <1>f, <2>1, <2>2, <3>1 DEF OfferInv
      <3>2. CASE s # ls[w]
        <4>1. owner'[s] = owner[s]
          BY <1>f, <2>1, <3>2
        <4> QED
          BY <1>0, <1>l, <2>1, <3>2, <4>1 DEF OfferInv
      <3> QED
        BY <3>1, <3>2
    <2>4. ASSUME NEW v \in Cores PROVE ClaimInv(v)'
      <3>1. CASE v = w
        BY <2>1, <3>1 DEF ClaimInv
      <3>2. CASE v # w
        <4>1. pause[ls[v]] # 0 => owner'[ls[v]] = owner[ls[v]]
          BY <1>f, <1>t, <2>1, <2>2
        <4> QED
          BY <1>0, <1>l, <1>t, <2>1, <3>2, <4>1 DEF ClaimInv
      <3> QED
        BY <3>1, <3>2
    <2> QED
      BY <2>3, <2>4
  <1> QED
    BY <1>1, <1>2, <1>3, <1>4, <1>5, <1>6 DEF Worker, Plain

(* Offers and claims under every step. *)
LEMMA OfferStep ==
  ASSUME ~Overlap, TypeOK, Serial, \A s \in Shards : OfferInv(s),
         \A w \in Cores : ClaimInv(w), [Next]_vars
  PROVE  (\A s \in Shards : OfferInv(s)') /\ (\A w \in Cores : ClaimInv(w)')
  <1>1. CASE UNCHANGED <<cvars, shardvars, pc, ls>>
    BY <1>1 DEF cvars, shardvars, OfferInv, ClaimInv, Target, Visited
  <1> QED
    BY <1>1, OfferController, OfferWorker
    DEF Next, Halted, NicReceive, vars, wlocal

(* With epochs that do not overlap, a shard reassigned cleanly is never     *)
(* forgotten: its new core owns it, is offered it, or is just taking it,    *)
(* for any number of cores, shards and epochs.                              *)
THEOREM OwnerCorrect == ~Overlap => (Spec => []OwnerFollowsAssignment)
  <1> SUFFICES ASSUME ~Overlap PROVE Spec => []OwnerFollowsAssignment
    OBVIOUS
  <1> DEFINE Inv == /\ Serial
                    /\ \A s \in Shards : OfferInv(s)
                    /\ \A w \in Cores : ClaimInv(w)
  <1>1. Init => Inv
    BY DEF Init, Serial, OfferInv, ClaimInv
  <1>2. TypeOK /\ Inv /\ [Next]_vars => Inv'
    BY SerialStep, OfferStep
  <1>3. Inv => OwnerFollowsAssignment
    <2> SUFFICES ASSUME Inv, NEW s \in Shards, hist[s] = "clean",
                        cpc \in {"idle", "signal", "notify", "tell"}
                 PROVE  \/ Assigned[s] \in {owner[s], owner_new[s]}
                        \/ \E w \in Cores : pc[w] = "claim2" /\ ls[w] = s /\ w = Assigned[s]
      BY DEF OwnerFollowsAssignment
    <2>1. Target(s) = Assigned[s]
      BY DEF Target, Assigned
    <2> QED
      BY <2>1 DEF OfferInv, ClaimInv
  <1> QED
    BY <1>1, <1>2, <1>3, TypeCorrect, PTL DEF Spec


-----------------------------------------------------------------------------
(* What the cores hold during a handover.                                   *)

(* A burst of a drain takes from the front; what was beyond the plan stays  *)
(* beyond it, also when the counter wraps.                                  *)
LEMMA DrainBurstQueue ==
  ASSUME TypeOK, NEW w \in Cores, QueueInv(w), DrainBurst(w)
  PROVE  /\ Len(rx'[w]) <= NDESC
         /\ \A k \in 1 .. Len(rx'[w]) : k > count'[w] => Steered(w, rx'[w][k])
  <1> DEFINE m == Least(BURST, Len(rx[w]))
             burst == Front(rx[w], BURST)
  <1>1. /\ rx[w] \in Seq(Packet) /\ BURST \in Nat /\ Len(rx[w]) \in Nat
        /\ count[w] \in 0 .. WORD - 1
    BY SizesAssumption, LenProperties DEF TypeOK
  <1>2. /\ rx'[w] = Rest(rx[w], BURST)
        /\ count'[w] = (count[w] - Len(burst)) % WORD
        /\ pc[w] = "drain"
    BY DEF DrainBurst, TypeOK
  <1>3. /\ Len(burst) = m /\ m \in 0 .. Len(rx[w])
        /\ Len(rx'[w]) = Len(rx[w]) - m
        /\ \A k \in 1 .. Len(rx[w]) - m : rx'[w][k] = rx[w][k + m]
    <2>1. /\ Len(Front(rx[w], BURST)) = m
          /\ Len(Rest(rx[w], BURST)) = Len(rx[w]) - m
          /\ m \in 0 .. Len(rx[w])
          /\ \A k \in 1 .. Len(rx[w]) - m : Rest(rx[w], BURST)[k] = rx[w][k + m]
      BY <1>1, BurstSplit
    <2> QED
      BY <1>2, <2>1
  <1>4. \A k \in 1 .. Len(rx[w]) : k > count[w] => Steered(w, rx[w][k])
    BY <1>2 DEF QueueInv
  <1>5. Len(rx[w]) <= NDESC /\ NDESC \in Nat
    BY SizesAssumption DEF QueueInv
  <1> HIDE DEF m, burst
  <1>6. Len(rx'[w]) <= NDESC
    BY <1>1, <1>3, <1>5
  <1>7. ASSUME NEW k \in 1 .. Len(rx[w]) - m, k > count'[w]
        PROVE  Steered(w, rx'[w][k])
    <2>1. k + m \in 1 .. Len(rx[w])
      BY <1>1, <1>3
    <2>2. k + m > count[w]
      <3>1. CASE m > count[w]
        BY <1>1, <1>3, <3>1
      <3>2. CASE ~(m > count[w])
        <4>1. count[w] - m \in 0 .. WORD - 1 /\ WORD \in Nat \ {0}
          BY <1>1, <1>3, <3>2, SizesAssumption
        <4>2. (count[w] - m) % WORD = count[w] - m
          BY <4>1, ModSmall
        <4>3. k > count[w] - m
          BY <1>2, <1>3, <1>7, <4>2
        <4> QED
          BY <1>1, <1>3, <4>3
      <3> QED
        BY <3>1, <3>2
    <2> QED
      BY <1>3, <1>4, <2>1, <2>2
  <1> QED
    BY <1>3, <1>6, <1>7

(* The core's own steps keep QueueInv. *)
LEMMA QueueWorker ==
  ASSUME NDESC <= QSIZE, TypeOK, NEW w \in Cores, QueueInv(w), Worker(w)
  PROVE  QueueInv(w)'
  <1>0. \A p : Steered(w, p)' <=> Steered(w, p)
    BY CoresKeepController DEF cvars, Steered
  <1>f. /\ DOMAIN pc = Cores /\ DOMAIN rx = Cores /\ DOMAIN busy = Cores
        /\ DOMAIN myring = Cores /\ DOMAIN myown = Cores /\ DOMAIN aborted = Cores
        /\ DOMAIN count = Cores
    BY DEF TypeOK
  <1>1. CASE RingBurst(w)
    BY <1>0, <1>1, <1>f DEF RingBurst, Goto, wlocal, hvars, QueueInv, Handing
  <1>2. CASE FinishBatch(w)
    BY <1>0, <1>2, <1>f DEF FinishBatch, Goto, wlocal, hvars, QueueInv, Handing
  <1>3. CASE DrainOver(w)
    BY <1>0, <1>3, <1>f DEF DrainOver, Goto, wlocal, pktvars, hvars, QueueInv, Handing
  <1>4. CASE ReleaseTest(w)
    <2>1. pc[w] \in Handing /\ pc'[w] \in Handing \union {"tclear"}
      BY <1>4, <1>f DEF ReleaseTest, NextShard, Goto, Handing
    <2>2. UNCHANGED <<rx, busy, myring, myown, aborted>>
      BY <1>4 DEF ReleaseTest, pktvars, hvars
    <2> QED
      BY <1>0, <2>1, <2>2 DEF QueueInv, Handing
  <1>5. CASE ReleasePause(w)
    <2>1. pc[w] \in Handing /\ pc'[w] \in Handing
      BY <1>5, <1>f DEF ReleasePause, Goto, Handing
    <2>2. UNCHANGED <<rx, busy, myring, myown, aborted>>
      BY <1>5 DEF ReleasePause, pktvars, hvars
    <2> QED
      BY <1>0, <2>1, <2>2 DEF QueueInv, Handing
  <1>6. CASE ReleaseTell(w)
    <2>1. pc[w] \in Handing /\ pc'[w] \in Handing \union {"tclear", "fault"}
      BY <1>6, <1>f DEF ReleaseTell, NextShard, Goto, Handing
    <2>2. UNCHANGED <<rx, busy, myring, myown, aborted>>
      BY <1>6 DEF ReleaseTell, pktvars, hvars
    <2> QED
      BY <1>0, <2>1, <2>2 DEF QueueInv, Handing
  <1>7. CASE ClaimTest(w)
    <2>1. pc[w] \in Handing /\ pc'[w] \in Handing \union {"top"}
      BY <1>7, <1>f DEF ClaimTest, NextShard, Goto, Handing
    <2>2. UNCHANGED <<rx, busy, myring, myown, aborted>>
      BY <1>7 DEF ClaimTest, pktvars, hvars
    <2> QED
      BY <1>0, <2>1, <2>2 DEF QueueInv, Handing
  <1>8. CASE ClaimOffer(w)
    <2>1. pc[w] \in Handing /\ pc'[w] \in Handing
      BY <1>8, <1>f DEF ClaimOffer, Goto, Handing
    <2>2. UNCHANGED <<rx, busy, myring, myown, aborted>>
      BY <1>8 DEF ClaimOffer, pktvars, hvars
    <2> QED
      BY <1>0, <2>1, <2>2 DEF QueueInv, Handing
  <1>9. CASE ClaimOwner(w)
    <2>1. pc[w] \in Handing /\ pc'[w] \in Handing \union {"top"}
      BY <1>9, <1>f DEF ClaimOwner, NextShard, Goto, Handing
    <2>2. UNCHANGED <<rx, busy, myring, myown, aborted>>
      BY <1>9 DEF ClaimOwner, pktvars, hvars
    <2> QED
      BY <1>0, <2>1, <2>2 DEF QueueInv, Handing
  <1>10. CASE SignalTest(w)
    BY <1>0, <1>10, <1>f DEF SignalTest, Goto, pktvars, hvars, QueueInv, Handing
  <1>11. CASE TransferTest(w)
    BY <1>0, <1>11, <1>f DEF TransferTest, Goto, pktvars, hvars, QueueInv, Handing
  <1>12. CASE DrainCount(w)
    <2>1. Len(rx[w]) \in Nat /\ Len(rx[w]) <= QSIZE
      BY LenProperties, SizesAssumption DEF TypeOK, QueueInv
    <2>2. Least(Len(rx[w]), QSIZE) = Len(rx[w])
      BY <2>1, SizesAssumption DEF Least
    <2>3. count'[w] = Len(rx[w]) /\ pc'[w] = "drain" /\ UNCHANGED <<rx, busy, myring, myown, aborted>>
      BY <1>12, <1>f, <2>2 DEF DrainCount, Goto, pktvars, hvars
    <2>4. \A k \in 1 .. Len(rx[w]) : ~(k > Len(rx[w]))
      BY <2>1
    <2>5. pc[w] = "count"
      BY <1>12 DEF DrainCount
    <2> QED
      BY <2>3, <2>4, <2>5 DEF QueueInv, Handing
  <1>13. CASE DrainBurst(w)
    <2>1. myown'[w] /\ pc'[w] = "drain" /\ pc[w] = "drain" /\ UNCHANGED busy
      BY <1>13, <1>f DEF DrainBurst
    <2> QED
      BY <1>0, <1>13, <2>1, DrainBurstQueue DEF QueueInv, Handing
  <1>14. CASE DrainEnd(w)
    <2>1. /\ pc[w] = "drain" /\ (count[w] = 0 \/ rx[w] = <<>>)
          /\ UNCHANGED <<rx, busy, myring, aborted>>
          /\ ~myown'[w] => ~myown[w]
          /\ pc'[w] = "tclear" \/ (pc'[w] = "trel" /\ ~myown'[w])
      BY <1>14, <1>f DEF DrainEnd, Goto, pktvars, hvars
    <2>2. \A k \in 1 .. Len(rx[w]) : Steered(w, rx[w][k])
      <3>1. CASE count[w] = 0
        <4>1. \A k \in 1 .. Len(rx[w]) : k > 0
          OBVIOUS
        <4> QED
          BY <2>1, <3>1, <4>1 DEF QueueInv
      <3>2. CASE rx[w] = <<>>
        BY <3>2, EmptySeq
      <3> QED
        BY <2>1, <3>1, <3>2
    <2> QED
      BY <1>0, <2>1, <2>2 DEF QueueInv, Handing
  <1>15. CASE TransferClear(w)
    BY <1>0, <1>15, <1>f DEF TransferClear, Goto, pktvars, hvars, QueueInv, Handing
  <1>16. CASE SignalClear(w)
    BY <1>0, <1>16, <1>f DEF SignalClear, Goto, pktvars, hvars, QueueInv, Handing
  <1>17. CASE ChangesTest(w)
    BY <1>0, <1>17, <1>f DEF ChangesTest, Goto, pktvars, hvars, QueueInv, Handing
  <1>18. CASE ChangesShard(w)
    <2>1. /\ pc[w] = "hc" /\ pc'[w] \in {"hc", "hcclear"} /\ UNCHANGED <<rx, busy, myring>>
          /\ myown'[w] => myown[w]
          /\ ~aborted'[w] /\ ~myown'[w] => ~aborted[w] /\ (~myown[w] \/ myring[w] = <<>>)
      BY <1>18, <1>f DEF ChangesShard, NextShard, Goto, pktvars
    <2> QED
      BY <1>0, <2>1 DEF QueueInv, Handing
  <1>19. CASE ChangesClear(w)
    BY <1>0, <1>19, <1>f DEF ChangesClear, Goto, pktvars, hvars, QueueInv, Handing
  <1>20. CASE RxBurst(w)
    <2>1. /\ rx'[w] = Rest(rx[w], BURST) /\ pc'[w] = "work" /\ ~myown[w]
          /\ UNCHANGED <<myring, myown, aborted>>
      BY <1>20, <1>f DEF RxBurst, Goto, hvars
    <2>2. Len(rx'[w]) <= NDESC
      <3>1. rx[w] \in Seq(Packet) /\ BURST \in Nat /\ Len(rx[w]) \in Nat /\ NDESC \in Nat
        BY SizesAssumption, LenProperties DEF TypeOK
      <3>2. /\ Len(rx'[w]) = Len(rx[w]) - Least(BURST, Len(rx[w]))
            /\ Least(BURST, Len(rx[w])) \in 0 .. Len(rx[w])
        BY <2>1, <3>1, BurstSplit
      <3>3. Len(rx[w]) <= NDESC
        BY DEF QueueInv
      <3> QED
        BY <3>1, <3>2, <3>3
    <2> QED
      BY <2>1, <2>2 DEF QueueInv, Handing
  <1>21. CASE RxNothing(w)
    BY <1>0, <1>21, <1>f DEF RxNothing, Goto, pktvars, hvars, QueueInv, Handing
  <1> QED
    BY <1>1, <1>2, <1>3, <1>4, <1>5, <1>6, <1>7, <1>8, <1>9, <1>10, <1>11,
       <1>12, <1>13, <1>14, <1>15, <1>16, <1>17, <1>18, <1>19, <1>20, <1>21 DEF Worker

(* A packet arrives behind the others, at the core it is steered to. *)
LEMMA QueueNic ==
  ASSUME TypeOK, NEW s \in Shards, NicReceive(s), NEW w \in Cores, QueueInv(w)
  PROVE  QueueInv(w)'
  <1>0. UNCHANGED <<pc, count, myown, busy, myring, aborted, reta>>
    BY DEF NicReceive, cvars, wlocal, hvars
  <1>1. CASE w # reta[s]
    <2>1. rx'[w] = rx[w]
      BY <1>1 DEF NicReceive, TypeOK
    <2> QED
      BY <1>0, <2>1 DEF QueueInv, Steered
  <1>2. CASE w = reta[s]
    <2> DEFINE p == <<s, sent[s] + 1>>
    <2>1. rx'[w] = Append(rx[w], p) /\ Len(rx[w]) < NDESC
      BY <1>2 DEF NicReceive, TypeOK
    <2>2. rx[w] \in Seq(Packet) /\ p \in Packet
      <3>1. sent[s] \in Nat /\ rx[w] \in Seq(Packet)
        BY DEF TypeOK
      <3> QED
        BY <3>1 DEF Packet
    <2>3. Steered(w, p)
      BY <1>2 DEF Steered
    <2> HIDE DEF p
    <2>4. /\ Len(rx'[w]) = Len(rx[w]) + 1 /\ Len(rx[w]) \in Nat
          /\ \A k \in 1 .. Len(rx[w]) : rx'[w][k] = rx[w][k]
          /\ rx'[w][Len(rx[w]) + 1] = p
      BY <2>1, <2>2, AppendProperties, LenProperties
    <2>5. Len(rx'[w]) <= NDESC
      BY <2>1, <2>4, SizesAssumption
    <2>6. ASSUME NEW k \in 1 .. Len(rx'[w])
          PROVE  (k \in 1 .. Len(rx[w]) /\ rx'[w][k] = rx[w][k]) \/ Steered(w, rx'[w][k])
      BY <2>3, <2>4
    <2> QED
      BY <1>0, <2>5, <2>6 DEF QueueInv, Steered
  <1> QED
    BY <1>1, <1>2


(* Queues under every step: the table is flipped only while every core      *)
(* idles, outside every drain and handover.                                 *)
LEMMA QueueStep ==
  ASSUME NDESC <= QSIZE, TypeOK, Serial, \A w \in Cores : QueueInv(w), [Next]_vars
  PROVE  \A w \in Cores : QueueInv(w)'
  <1>1. CASE UNCHANGED <<reta, pc, count, myown, rx, myring, busy, aborted>>
    BY <1>1 DEF QueueInv, Steered
  <1>2. CASE CtlReta
    <2>1. UNCHANGED <<pc, count, myown, rx, myring, busy, aborted>>
      BY <1>2 DEF CtlReta, wlocal, pktvars, hvars
    <2>2. \A w \in Cores : pc[w] \notin Handing /\ pc[w] # "drain" /\ ~myown[w]
      BY <1>2 DEF CtlReta, Serial, Idling, Handing
    <2> QED
      BY <2>1, <2>2 DEF QueueInv
  <1>3. CASE (CtlSolve \/ Controller) /\ ~CtlReta
    BY <1>1, <1>3 DEF Controller, CtlSolve, CtlMarkSkip, CtlMark, CtlPause,
       CtlNotifySkip, CtlNotify, CtlTell, CtlSignal, wlocal, pktvars, hvars
  <1>4. ASSUME NEW s \in Shards, NicReceive(s) PROVE \A w \in Cores : QueueInv(w)'
    BY <1>4, QueueNic
  <1>5. ASSUME NEW w \in Cores, Worker(w), NEW v \in Cores PROVE QueueInv(v)'
    <2>1. CASE v = w
      BY <1>5, <2>1, QueueWorker
    <2>2. CASE v # w
      <3>1. reta' = reta
        BY <1>5, CoresKeepController DEF cvars
      <3> QED
        BY <1>5, <2>2, <3>1, WorkerLocal DEF QueueInv, Steered
    <2> QED
      BY <2>1, <2>2
  <1> QED
    BY <1>1, <1>2, <1>3, <1>4, <1>5 DEF Next, Halted, vars, cvars, wlocal, pktvars, hvars

(* The packets of three queues put together. *)
LEMMA ElementsConcat3 ==
  ASSUME NEW S, NEW a \in Seq(S), NEW b \in Seq(S), NEW c \in Seq(S)
  PROVE  Elements(a \o b \o c) = Elements(a) \union Elements(b) \union Elements(c)
  <1> DEFINE ab == a \o b
  <1>1. ab \in Seq(S) /\ Elements(ab) = Elements(a) \union Elements(b)
    BY ConcatProperties, ElementsConcat
  <1> HIDE DEF ab
  <1>2. Elements(ab \o c) = Elements(ab) \union Elements(c)
    BY <1>1, ElementsConcat
  <1> QED
    BY <1>1, <1>2 DEF ab

(* What a core holds is what it has in hand, in its ring and in its queue. *)
LEMMA HeldElements ==
  ASSUME TypeOK, NEW w \in Cores
  PROVE  Elements(Held(w)) = Elements(busy[w]) \union Elements(myring[w]) \union Elements(rx[w])
  <1>1. busy[w] \in Seq(Packet) /\ myring[w] \in Seq(Packet) /\ rx[w] \in Seq(Packet)
    BY DEF TypeOK
  <1> QED
    BY <1>1, ElementsConcat3 DEF Held

(* No core's step brings it packets it does not hold already. *)
LEMMA HeldShrinks ==
  ASSUME TypeOK, NEW w \in Cores, \A v \in Cores : pc[v] # "work" => busy[v] = <<>>,
         Worker(w), NEW v \in Cores
  PROVE  Elements(Held(v)') \subseteq Elements(Held(v))
  <1>t. TypeOK'
    BY TypeWorker
  <1>h. /\ Elements(Held(v)) = Elements(busy[v]) \union Elements(myring[v]) \union Elements(rx[v])
        /\ Elements(Held(v)') = Elements(busy'[v]) \union Elements(myring'[v]) \union Elements(rx'[v])
    <2>1. Held(v)' = busy'[v] \o myring'[v] \o rx'[v]
      BY DEF Held
    <2>2. busy'[v] \in Seq(Packet) /\ myring'[v] \in Seq(Packet) /\ rx'[v] \in Seq(Packet)
      BY <1>t DEF TypeOK
    <2>3. Elements(busy'[v] \o myring'[v] \o rx'[v])
             = Elements(busy'[v]) \union Elements(myring'[v]) \union Elements(rx'[v])
      BY <2>2, ElementsConcat3
    <2> QED
      BY <2>1, <2>3, HeldElements
  <1>q. /\ busy[w] \in Seq(Packet) /\ myring[w] \in Seq(Packet) /\ rx[w] \in Seq(Packet)
        /\ BURST \in Nat /\ BURST \in Int
    BY SizesAssumption DEF TypeOK
  <1>f. DOMAIN rx = Cores /\ DOMAIN busy = Cores /\ DOMAIN myring = Cores
    BY DEF TypeOK
  <1>1. CASE v # w
    BY <1>1, <1>h, WorkerLocal
  <1>2. CASE v = w
    <2>1. CASE RingBurst(w)
      <3>1. /\ busy'[w] = Front(myring[w], BURST) /\ myring'[w] = Rest(myring[w], BURST)
            /\ rx'[w] = rx[w]
        BY <2>1, <1>f DEF RingBurst
      <3>2. Elements(Front(myring[w], BURST)) \union Elements(Rest(myring[w], BURST)) = Elements(myring[w])
        BY <1>q, ElementsSplit
      <3> QED
        BY <1>2, <1>h, <3>1, <3>2
    <2>2. CASE FinishBatch(w)
      <3>1. busy'[w] = <<>> /\ UNCHANGED <<rx, myring>>
        BY <2>2, <1>f DEF FinishBatch
      <3>2. Elements(<<>>) = {}
        BY DEF Elements
      <3> QED
        BY <1>2, <1>h, <3>1, <3>2
    <2>3. CASE DrainBurst(w)
      <3> DEFINE burst == Front(rx[w], BURST)
                 room == RING - Len(myring[w])
                 kept == Front(burst, room)
      <3>1. /\ rx'[w] = Rest(rx[w], BURST) /\ myring'[w] = myring[w] \o kept
            /\ busy'[w] = busy[w]
        BY <2>3, <1>f DEF DrainBurst
      <3>2. burst \in Seq(Packet) /\ Elements(burst) \union Elements(Rest(rx[w], BURST)) = Elements(rx[w])
        BY <1>q, ElementsSplit, BurstType
      <3>3. room \in Int
        BY <1>q, LenProperties, SizesAssumption
      <3>4. kept \in Seq(Packet) /\ Elements(kept) \subseteq Elements(burst)
        <4> HIDE DEF burst, room
        <4> QED
          BY <3>2, <3>3, FrontPrefix
      <3> HIDE DEF burst, kept
      <3>5. Elements(myring[w] \o kept) = Elements(myring[w]) \union Elements(kept)
        BY <1>q, <3>4, ElementsConcat
      <3> QED
        BY <1>2, <1>h, <3>1, <3>2, <3>4, <3>5
    <2>4. CASE RxBurst(w)
      <3>1. /\ busy'[w] = Front(rx[w], BURST) /\ rx'[w] = Rest(rx[w], BURST)
            /\ myring'[w] = myring[w]
        BY <2>4, <1>f DEF RxBurst
      <3>2. Elements(Front(rx[w], BURST)) \union Elements(Rest(rx[w], BURST)) = Elements(rx[w])
        BY <1>q, ElementsSplit
      <3> QED
        BY <1>2, <1>h, <3>1, <3>2
    <2>5. CASE UNCHANGED pktvars
      BY <1>2, <2>5 DEF pktvars, Held
    <2> QED
      BY <2>1, <2>2, <2>3, <2>4, <2>5 DEF Worker, DrainOver, ReleaseTest, ReleasePause, ReleaseTell,
         ClaimTest, ClaimOffer, ClaimOwner, SignalTest, TransferTest, DrainCount, DrainEnd,
         TransferClear, SignalClear, ChangesTest, ChangesShard, ChangesClear, RxNothing
  <1> QED
    BY <1>1, <1>2

(* A core that hands over holds packets only of shards steered to it. *)
LEMMA HandingHolds ==
  ASSUME TypeOK, NEW w \in Cores, QueueInv(w), ~aborted[w], pc[w] \in Handing,
         NEW s \in Shards, Holds(w, s)
  PROVE  w = reta[s]
  <1>1. busy[w] = <<>> /\ myring[w] = <<>> /\ \A k \in 1 .. Len(rx[w]) : Steered(w, rx[w][k])
    BY DEF QueueInv, Handing
  <1>2. Elements(<<>>) = {}
    BY DEF Elements
  <1>3. Elements(Held(w)) = Elements(rx[w])
    BY <1>1, <1>2, HeldElements
  <1>4. Elements(rx[w]) = {rx[w][k] : k \in 1 .. Len(rx[w])}
    <2>1. rx[w] \in Seq(Packet)
      BY DEF TypeOK
    <2> QED
      BY <2>1, ElementsByIndex
  <1> QED
    BY <1>1, <1>3, <1>4 DEF Holds, Steered

(* HoldInv under every step. *)
LEMMA HoldStep ==
  ASSUME ~Overlap, TypeOK, RetaAgrees, HandoverInv, [Next]_vars
  PROVE  \A w \in Cores, s \in Shards : HoldInv(w, s)'
  <1> SUFFICES ASSUME NEW v \in Cores, NEW s \in Shards PROVE HoldInv(v, s)'
    OBVIOUS
  <1>h. HoldInv(v, s) /\ MarkInv(s)
    BY DEF HandoverInv
  <1>1. CASE UNCHANGED <<hist, aborted, busy, myring, rx, reta, pause, owner>>
    BY <1>1, <1>h DEF HoldInv, Holds, Held
  <1>2. CASE CtlReta
    <2>1. /\ UNCHANGED <<hist, aborted, busy, myring, rx, pause, owner>>
          /\ cpc = "reta" /\ reta' = newA
      BY <1>2 DEF CtlReta, pktvars, hvars, shardvars
    <2>2. reta[s] = A[s]
      BY <2>1 DEF RetaAgrees
    <2>3. newA[s] # A[s] /\ hist[s] # "stale" => owner[s] = A[s] /\ pause[s] = 1
      BY <1>h, <2>1 DEF MarkInv, Visited
    <2> QED
      BY <1>h, <2>1, <2>2, <2>3 DEF HoldInv, Holds, Held
  <1>3. CASE CtlPause
    <2>1. /\ UNCHANGED <<hist, aborted, busy, myring, rx, reta, owner>>
          /\ pause'[s] \in {1, pause[s]}
      BY <1>3 DEF CtlPause, pktvars, hvars, TypeOK
    <2> QED
      BY <1>h, <2>1 DEF HoldInv, Holds, Held
  <1>4. CASE CtlMark \/ CtlMarkSkip
    <2>1. /\ UNCHANGED <<aborted, busy, myring, rx, reta, owner, pause>>
          /\ hist'[s] # "stale" => hist[s] # "stale"
      BY <1>4 DEF CtlMark, CtlMarkSkip, pktvars, hvars, shardvars, TypeOK
    <2> QED
      BY <1>h, <2>1 DEF HoldInv, Holds, Held
  <1>5. CASE CtlSolve \/ CtlNotifySkip \/ CtlNotify \/ CtlTell \/ CtlSignal
    BY <1>1, <1>5 DEF CtlSolve, CtlNotifySkip, CtlNotify, CtlTell, CtlSignal, pktvars, hvars, shardvars
  <1>6. ASSUME NEW r \in Shards, NicReceive(r) PROVE HoldInv(v, s)'
    <2>0. UNCHANGED <<hist, aborted, busy, myring, reta, pause, owner>>
      BY <1>6 DEF NicReceive, cvars, shardvars, hvars
    <2>1. CASE v # reta[r]
      <3>1. rx'[v] = rx[v]
        BY <1>6, <2>1 DEF NicReceive, TypeOK
      <3> QED
        BY <1>h, <2>0, <3>1 DEF HoldInv, Holds, Held
    <2>2. CASE v = reta[r] /\ s = r
      BY <2>0, <2>2 DEF HoldInv
    <2>3. CASE v = reta[r] /\ s # r
      <3> DEFINE p == <<r, sent[r] + 1>>
      <3>1. rx'[v] = Append(rx[v], p)
        BY <1>6, <2>3 DEF NicReceive, TypeOK
      <3>2. p \in Packet
        <4>1. sent[r] \in Nat
          BY DEF TypeOK
        <4> QED
          BY <4>1 DEF Packet
      <3>3. p[1] = r
        OBVIOUS
      <3> HIDE DEF p
      <3>4. rx[v] \in Seq(Packet) /\ busy[v] \in Seq(Packet) /\ myring[v] \in Seq(Packet)
        BY DEF TypeOK
      <3>5. Elements(rx'[v]) = Elements(rx[v]) \union {p} /\ rx'[v] \in Seq(Packet)
        BY <3>1, <3>2, <3>4, ElementsAppend, AppendProperties
      <3>6. Elements(busy[v] \o myring[v] \o rx'[v])
              = Elements(busy[v]) \union Elements(myring[v]) \union Elements(rx'[v])
        BY <3>4, <3>5, ElementsConcat3
      <3>7. Held(v)' = busy[v] \o myring[v] \o rx'[v]
        BY <2>0 DEF Held
      <3>10. Elements(Held(v)') \subseteq Elements(Held(v)) \union {p}
        BY <3>5, <3>6, <3>7, HeldElements
      <3>11. Holds(v, s)' => Holds(v, s)
        BY <2>3, <3>3, <3>10 DEF Holds
      <3> QED
        BY <1>h, <2>0, <3>11 DEF HoldInv
    <2> QED
      BY <2>1, <2>2, <2>3
  <1>7. ASSUME NEW w \in Cores, Worker(w) PROVE HoldInv(v, s)'
    <2>1. UNCHANGED <<hist, reta>>
      BY <1>7, CoresKeepController DEF cvars
    <2>2. Holds(v, s)' => Holds(v, s)
      <3>1. \A u \in Cores : pc[u] # "work" => busy[u] = <<>>
        BY DEF HandoverInv, QueueInv
      <3>2. Elements(Held(v)') \subseteq Elements(Held(v))
        BY <1>7, <3>1, HeldShrinks
      <3> QED
        BY <3>2 DEF Holds
    <2>3. aborted[v] => aborted'[v]
      BY <1>7 DEF TypeOK, hvars, Worker, RingBurst, FinishBatch, DrainOver, ReleaseTest, ReleasePause, ReleaseTell,
         ClaimTest, ClaimOffer, ClaimOwner, SignalTest, TransferTest, DrainCount, DrainBurst, DrainEnd,
         TransferClear, SignalClear, ChangesTest, ChangesShard, ChangesClear, RxBurst, RxNothing
    <2>4. CASE UNCHANGED <<owner, pause>>
      BY <1>h, <2>1, <2>2, <2>3, <2>4 DEF HoldInv
    <2>5. CASE ReleasePause(w)
      <3>1. /\ UNCHANGED owner /\ pause' = [pause EXCEPT ![ls[w]] = 0]
            /\ pc[w] \in {"relclear", "trelclear"}
        BY <2>5 DEF ReleasePause
      <3>2. CASE s # ls[w]
        <4>1. pause'[s] = pause[s]
          BY <3>1, <3>2 DEF TypeOK
        <4> QED
          BY <1>h, <2>1, <2>2, <2>3, <3>1, <4>1 DEF HoldInv
      <3>3. CASE s = ls[w]
        <4>1. pause[s] = 0 \/ owner[s] = w
          BY <3>1, <3>3 DEF HandoverInv, ClaimInv
        <4>2. SUFFICES ASSUME hist[s] # "stale", ~aborted[v], Holds(v, s), v # reta[s]
                       PROVE  FALSE
          BY <2>1, <2>2, <2>3 DEF HoldInv
        <4>3. pause[s] = 1 /\ owner[s] = v
          BY <1>h, <4>2 DEF HoldInv
        <4>4. v = w
          BY <4>1, <4>3
        <4>5. QueueInv(v) /\ pc[v] \in Handing
          BY <3>1, <4>4 DEF HandoverInv, Handing
        <4> QED
          BY <4>2, <4>5, HandingHolds
      <3> QED
        BY <3>2, <3>3
    <2>6. CASE ClaimOwner(w)
      <3>1. /\ UNCHANGED pause /\ owner' = [owner EXCEPT ![ls[w]] = w]
            /\ pc[w] = "claim2"
        BY <2>6 DEF ClaimOwner
      <3>2. pause[ls[w]] = 0
        BY <3>1 DEF HandoverInv, ClaimInv
      <3>3. pause[s] = 1 => owner'[s] = owner[s]
        BY <3>1, <3>2 DEF TypeOK
      <3> QED
        BY <1>h, <2>1, <2>2, <2>3, <3>1, <3>3 DEF HoldInv
    <2> QED
      BY <1>7, <2>4, <2>5, <2>6 DEF shardvars, Worker, RingBurst, FinishBatch, DrainOver, ReleaseTest, ReleaseTell,
         ClaimTest, ClaimOffer, SignalTest, TransferTest, DrainCount, DrainBurst, DrainEnd,
         TransferClear, SignalClear, ChangesTest, ChangesShard, ChangesClear, RxBurst, RxNothing
  <1> QED
    BY <1>1, <1>2, <1>3, <1>4, <1>5, <1>6, <1>7
    DEF Next, Controller, Halted, vars, cvars, shardvars, pktvars, hvars

(* The whole handover invariant is inductive. *)
LEMMA HandoverStep ==
  ASSUME ~Overlap, NDESC <= QSIZE, TypeOK, RetaAgrees, HandoverInv, [Next]_vars
  PROVE  HandoverInv'
  BY SerialStep, MarkStep, OfferStep, QueueStep, HoldStep DEF HandoverInv

(* HandoverInv holds initially: every core is at the top with empty queues. *)
LEMMA HandoverInit == Init => HandoverInv
  <1> SUFFICES ASSUME Init PROVE HandoverInv
    OBVIOUS
  <1>1. Serial /\ \A s \in Shards : MarkInv(s) /\ OfferInv(s)
    BY DEF Init, Serial, MarkInv, OfferInv
  <1>2. ASSUME NEW w \in Cores PROVE ClaimInv(w) /\ QueueInv(w)
    <2>1. /\ pc[w] = "top" /\ busy[w] = <<>> /\ myring[w] = <<>> /\ rx[w] = <<>>
          /\ ~myown[w]
      BY DEF Init
    <2>2. Len(<<>>) = 0 /\ 0 <= NDESC
      BY EmptySeq, SizesAssumption
    <2> QED
      BY <2>1, <2>2 DEF ClaimInv, QueueInv, Handing
  <1>3. ASSUME NEW w \in Cores, NEW s \in Shards PROVE HoldInv(w, s)
    <2>1. Elements(Held(w)) = {}
      <3>1. Elements(<<>>) = {}
        BY DEF Elements
      <3>2. busy[w] = <<>> /\ myring[w] = <<>> /\ rx[w] = <<>>
        BY DEF Init
      <3> QED
        BY <3>1, <3>2, HeldElements, TypeInit
    <2> QED
      BY <2>1 DEF HoldInv, Holds
  <1> QED
    BY <1>1, <1>2, <1>3 DEF HandoverInv

(* With epochs that do not overlap and a drain that plans for a whole rx    *)
(* queue, a shard whose pause is down has its packets on one core only, for *)
(* any number of cores, shards, epochs and packets.                         *)
THEOREM ReleasedCorrect ==
  ~Overlap /\ NDESC <= QSIZE => (Spec => []ReleasedShardHasOneCore)
  <1> SUFFICES ASSUME ~Overlap, NDESC <= QSIZE PROVE Spec => []ReleasedShardHasOneCore
    OBVIOUS
  <1>1. Init => HandoverInv
    BY HandoverInit
  <1>2. TypeOK /\ RetaAgrees /\ HandoverInv /\ [Next]_vars => HandoverInv'
    BY HandoverStep
  <1>3. HandoverInv => ReleasedShardHasOneCore
    BY DEF HandoverInv, HoldInv, ReleasedShardHasOneCore
  <1> QED
    BY <1>1, <1>2, <1>3, TypeCorrect, RetaCorrect, PTL DEF Spec

-----------------------------------------------------------------------------
(* The refinement of ShardService.                                          *)

(* Packet p may stand before packet x: they differ and, unless the core's   *)
(* drain was once cut short, those of one shard stand in order.             *)
Precedes(cut, p, x) == p # x /\ (cut \/ (p[1] = x[1] => p[2] < x[2]))

Chain(cut, q) == \A i, j \in 1 .. Len(q) : i < j => Precedes(cut, q[i], q[j])

Before(cut, q, r) == \A p \in Elements(q), x \in Elements(r) : Precedes(cut, p, x)

(* A core's packets stand in line: in hand, in the ring, in the rx queue. *)
LineUp(w) ==
    /\ Chain(aborted[w], busy[w]) /\ Chain(aborted[w], myring[w]) /\ Chain(aborted[w], rx[w])
    /\ Before(aborted[w], busy[w], myring[w]) /\ Before(aborted[w], busy[w], rx[w])
    /\ Before(aborted[w], myring[w], rx[w])

(* The packets inside the cores. *)
Inside == UNION {Elements(Held(w)) : w \in Cores}

(* No two cores hold the same packet. *)
Apart == \A v, w \in Cores : v # w => Elements(Held(v)) \intersect Elements(Held(w)) = {}

(* No packet is forgotten or invented: those inside, handled or lost are    *)
(* the ones the network sent.                                               *)
Numbered == Inside \union done \union leaked = {p \in Packet : p[2] <= sent[p[1]]}

ServiceInv == (\A w \in Cores : LineUp(w)) /\ Apart /\ Numbered

(* Being cut short only drops an obligation. *)
LEMMA PrecedesWeakens ==
  ASSUME NEW cut, NEW cutl, cut => cutl, NEW p, NEW x, Precedes(cut, p, x)
  PROVE  Precedes(cutl, p, x)
  BY DEF Precedes

(* After a cut only being different counts, which is symmetric. *)
LEMMA PrecedesCut ==
  ASSUME NEW p, NEW x, Precedes(TRUE, p, x)
  PROVE  Precedes(TRUE, x, p)
  BY DEF Precedes

(* A burst and the rest of a queue in line are in line. *)
LEMMA ChainSplit ==
  ASSUME NEW S, NEW q \in Seq(S), NEW n \in Nat, NEW cut, Chain(cut, q)
  PROVE  /\ Chain(cut, Front(q, n)) /\ Chain(cut, Rest(q, n))
         /\ Before(cut, Front(q, n), Rest(q, n))
  <1> DEFINE m == Least(n, Len(q))
             f == Front(q, n)
             r == Rest(q, n)
  <1>1. /\ f \in Seq(S) /\ r \in Seq(S) /\ Len(q) \in Nat
        /\ Len(f) = m /\ Len(r) = Len(q) - m /\ m \in 0 .. Len(q)
        /\ \A k \in 1 .. m : f[k] = q[k]
        /\ \A k \in 1 .. Len(q) - m : r[k] = q[k + m]
    <2>1. n \in Int
      OBVIOUS
    <2> QED
      BY <2>1, BurstSplit, BurstType, LenProperties
  <1>2. Elements(f) = {f[k] : k \in 1 .. Len(f)} /\ Elements(r) = {r[k] : k \in 1 .. Len(r)}
    BY <1>1, ElementsByIndex
  <1> HIDE DEF m, f, r
  <1>3. Chain(cut, f)
    <2> SUFFICES ASSUME NEW i \in 1 .. Len(f), NEW j \in 1 .. Len(f), i < j
                 PROVE  Precedes(cut, f[i], f[j])
      BY DEF Chain
    <2>1. i \in 1 .. Len(q) /\ j \in 1 .. Len(q)
      BY <1>1
    <2>2. Precedes(cut, q[i], q[j])
      BY <2>1 DEF Chain
    <2> QED
      BY <1>1, <2>2
  <1>4. Chain(cut, r)
    <2> SUFFICES ASSUME NEW i \in 1 .. Len(r), NEW j \in 1 .. Len(r), i < j
                 PROVE  Precedes(cut, r[i], r[j])
      BY DEF Chain
    <2>1. i + m \in 1 .. Len(q) /\ j + m \in 1 .. Len(q) /\ i + m < j + m
      BY <1>1
    <2>2. Precedes(cut, q[i + m], q[j + m])
      BY <2>1 DEF Chain
    <2> QED
      BY <1>1, <2>2
  <1>5. Before(cut, f, r)
    <2> SUFFICES ASSUME NEW i \in 1 .. Len(f), NEW j \in 1 .. Len(r)
                 PROVE  Precedes(cut, f[i], r[j])
      BY <1>2 DEF Before
    <2>1. i \in 1 .. Len(q) /\ j + m \in 1 .. Len(q) /\ i < j + m
      BY <1>1
    <2>2. Precedes(cut, q[i], q[j + m])
      BY <2>1 DEF Chain
    <2> QED
      BY <1>1, <2>2
  <1> QED
    BY <1>3, <1>4, <1>5 DEF f, r

(* A prefix of a queue in line is in line. *)
LEMMA ChainPrefix ==
  ASSUME NEW S, NEW q \in Seq(S), NEW n \in Int, NEW cut, Chain(cut, q)
  PROVE  Chain(cut, Front(q, n))
  BY FrontPrefix DEF Chain

(* Two queues in line, one before the other, make one in line. *)
LEMMA ChainConcat ==
  ASSUME NEW S, NEW q \in Seq(S), NEW r \in Seq(S), NEW cut,
         Chain(cut, q), Chain(cut, r), Before(cut, q, r)
  PROVE  Chain(cut, q \o r)
  <1>1. /\ Len(q \o r) = Len(q) + Len(r)
        /\ \A i \in 1 .. Len(q) + Len(r) :
              (q \o r)[i] = IF i <= Len(q) THEN q[i] ELSE r[i - Len(q)]
        /\ Len(q) \in Nat /\ Len(r) \in Nat
    BY ConcatProperties, LenProperties
  <1>2. Elements(q) = {q[k] : k \in 1 .. Len(q)} /\ Elements(r) = {r[k] : k \in 1 .. Len(r)}
    BY ElementsByIndex
  <1> SUFFICES ASSUME NEW i \in 1 .. Len(q) + Len(r), NEW j \in 1 .. Len(q) + Len(r), i < j
               PROVE  Precedes(cut, (q \o r)[i], (q \o r)[j])
    BY <1>1 DEF Chain
  <1>3. CASE j <= Len(q)
    <2>1. i \in 1 .. Len(q) /\ j \in 1 .. Len(q)
      BY <1>1, <1>3
    <2>2. Precedes(cut, q[i], q[j])
      BY <2>1 DEF Chain
    <2> QED
      BY <1>1, <2>1, <2>2
  <1>4. CASE i <= Len(q) /\ ~(j <= Len(q))
    <2>1. i \in 1 .. Len(q) /\ j - Len(q) \in 1 .. Len(r)
      BY <1>1, <1>4
    <2>2. Precedes(cut, q[i], r[j - Len(q)])
      BY <1>2, <2>1 DEF Before
    <2> QED
      BY <1>1, <1>4, <2>2
  <1>5. CASE ~(i <= Len(q)) /\ ~(j <= Len(q))
    <2>1. i - Len(q) \in 1 .. Len(r) /\ j - Len(q) \in 1 .. Len(r) /\ i - Len(q) < j - Len(q)
      BY <1>1, <1>5
    <2>2. Precedes(cut, r[i - Len(q)], r[j - Len(q)])
      BY <2>1 DEF Chain
    <2> QED
      BY <1>1, <1>5, <2>2
  <1> QED
    BY <1>1, <1>3, <1>4, <1>5

(* Nothing stands before, in or behind an empty queue. *)
LEMMA ChainEmpty ==
  ASSUME NEW cut
  PROVE  /\ Chain(cut, <<>>) /\ Elements(<<>>) = {}
         /\ \A q : Before(cut, <<>>, q) /\ Before(cut, q, <<>>)
  BY EmptySeq DEF Chain, Before, Elements

(* Chain and Before after the flag is raised. *)
LEMMA LineUpWeakens ==
  ASSUME NEW cut, NEW cutl, cut => cutl
  PROVE  /\ \A q : Chain(cut, q) => Chain(cutl, q)
         /\ \A q, r : Before(cut, q, r) => Before(cutl, q, r)
  BY PrecedesWeakens DEF Chain, Before

(* A core's steps keep its packets in line. *)
LEMMA LineUpWorker ==
  ASSUME TypeOK, NEW w \in Cores, QueueInv(w), LineUp(w), Worker(w)
  PROVE  LineUp(w)'
  <1>q. /\ busy[w] \in Seq(Packet) /\ myring[w] \in Seq(Packet) /\ rx[w] \in Seq(Packet)
        /\ BURST \in Nat /\ BURST \in Int /\ aborted[w] \in BOOLEAN
    BY SizesAssumption DEF TypeOK
  <1>f. /\ DOMAIN rx = Cores /\ DOMAIN busy = Cores /\ DOMAIN myring = Cores
        /\ DOMAIN aborted = Cores
    BY DEF TypeOK
  <1>1. CASE RingBurst(w)
    <2>1. /\ busy'[w] = Front(myring[w], BURST) /\ myring'[w] = Rest(myring[w], BURST)
          /\ rx'[w] = rx[w] /\ aborted' = aborted
      BY <1>1, <1>f DEF RingBurst, hvars
    <2>2. /\ Chain(aborted[w], Front(myring[w], BURST)) /\ Chain(aborted[w], Rest(myring[w], BURST))
          /\ Before(aborted[w], Front(myring[w], BURST), Rest(myring[w], BURST))
      BY <1>q, ChainSplit DEF LineUp
    <2>3. Elements(Front(myring[w], BURST)) \union Elements(Rest(myring[w], BURST)) = Elements(myring[w])
      BY <1>q, ElementsSplit
    <2>4. /\ Before(aborted[w], Front(myring[w], BURST), rx[w])
          /\ Before(aborted[w], Rest(myring[w], BURST), rx[w])
      BY <2>3 DEF LineUp, Before
    <2> QED
      BY <2>1, <2>2, <2>4 DEF LineUp
  <1>2. CASE FinishBatch(w)
    <2>1. busy'[w] = <<>> /\ UNCHANGED <<rx, myring, aborted>>
      BY <1>2, <1>f DEF FinishBatch, hvars
    <2> QED
      BY <2>1, ChainEmpty DEF LineUp
  <1>3. CASE DrainBurst(w)
    <2> DEFINE burst == Front(rx[w], BURST)
               room == RING - Len(myring[w])
               kept == Front(burst, room)
               rest == Rest(rx[w], BURST)
    <2>1. /\ rx'[w] = rest /\ myring'[w] = myring[w] \o kept
          /\ busy'[w] = busy[w] /\ aborted' = aborted
      BY <1>3, <1>f DEF DrainBurst
    <2>2. burst \in Seq(Packet) /\ Elements(burst) \union Elements(rest) = Elements(rx[w])
      BY <1>q, ElementsSplit, BurstType
    <2>3. /\ Chain(aborted[w], burst) /\ Chain(aborted[w], rest)
          /\ Before(aborted[w], burst, rest)
      BY <1>q, ChainSplit DEF LineUp
    <2>4. room \in Int
      BY <1>q, LenProperties, SizesAssumption
    <2> HIDE DEF burst, room, rest
    <2>5. kept \in Seq(Packet) /\ Elements(kept) \subseteq Elements(burst)
      BY <2>2, <2>4, FrontPrefix
    <2>6. Chain(aborted[w], kept)
      BY <2>2, <2>3, <2>4, ChainPrefix
    <2> HIDE DEF kept
    <2>7. Before(aborted[w], myring[w], kept) /\ Before(aborted[w], busy[w], kept)
      BY <2>2, <2>5 DEF LineUp, Before
    <2>8. Chain(aborted[w], myring[w] \o kept)
      BY <1>q, <2>5, <2>6, <2>7, ChainConcat DEF LineUp
    <2>9. Elements(myring[w] \o kept) = Elements(myring[w]) \union Elements(kept)
      BY <1>q, <2>5, ElementsConcat
    <2>10. Before(aborted[w], busy[w], myring[w] \o kept)
      BY <2>7, <2>9 DEF LineUp, Before
    <2>11. Before(aborted[w], myring[w] \o kept, rest)
      BY <2>2, <2>3, <2>5, <2>9 DEF LineUp, Before
    <2>12. Before(aborted[w], busy[w], rest)
      BY <2>2 DEF LineUp, Before
    <2> QED
      BY <2>1, <2>3, <2>8, <2>10, <2>11, <2>12 DEF LineUp
  <1>4. CASE RxBurst(w)
    <2>1. /\ busy'[w] = Front(rx[w], BURST) /\ rx'[w] = Rest(rx[w], BURST)
          /\ myring'[w] = myring[w] /\ aborted' = aborted /\ ~myown[w]
      BY <1>4, <1>f DEF RxBurst, hvars
    <2>2. /\ Chain(aborted[w], Front(rx[w], BURST)) /\ Chain(aborted[w], Rest(rx[w], BURST))
          /\ Before(aborted[w], Front(rx[w], BURST), Rest(rx[w], BURST))
      BY <1>q, ChainSplit DEF LineUp
    <2>3. Elements(Front(rx[w], BURST)) \union Elements(Rest(rx[w], BURST)) = Elements(rx[w])
      BY <1>q, ElementsSplit
    <2>4. Before(aborted[w], myring[w], Rest(rx[w], BURST))
      BY <2>3 DEF LineUp, Before
    <2>5. Before(aborted[w], Front(rx[w], BURST), myring[w])
      <3>1. CASE aborted[w]
        <4>1. aborted[w] = TRUE
          BY <1>q, <3>1
        <4>2. Before(TRUE, myring[w], rx[w])
          BY <4>1 DEF LineUp
        <4> QED
          BY <2>3, <4>1, <4>2, PrecedesCut DEF Before
      <3>2. CASE ~aborted[w]
        <4>1. myring[w] = <<>>
          BY <2>1, <3>2 DEF QueueInv
        <4> QED
          BY <4>1, ChainEmpty
      <3> QED
        BY <3>1, <3>2
    <2> QED
      BY <2>1, <2>2, <2>4, <2>5 DEF LineUp
  <1>5. CASE ChangesShard(w)
    <2>1. UNCHANGED <<busy, myring, rx>> /\ (aborted[w] => aborted'[w])
      BY <1>5, <1>f DEF ChangesShard, pktvars
    <2> QED
      BY <2>1, LineUpWeakens DEF LineUp
  <1>6. CASE UNCHANGED <<pktvars, hvars>>
    BY <1>6 DEF pktvars, hvars, LineUp
  <1> QED
    BY <1>1, <1>2, <1>3, <1>4, <1>5, <1>6 DEF Worker, DrainOver, ReleaseTest, ReleasePause, ReleaseTell,
       ClaimTest, ClaimOffer, ClaimOwner, SignalTest, TransferTest, DrainCount, DrainEnd,
       TransferClear, SignalClear, ChangesTest, ChangesClear, RxNothing

(* The new packet stands behind all others of its core. *)
LEMMA LineUpNic ==
  ASSUME TypeOK, Numbered, NEW s \in Shards, NicReceive(s), NEW w \in Cores, LineUp(w)
  PROVE  LineUp(w)'
  <1>0. UNCHANGED <<busy, myring, aborted>>
    BY DEF NicReceive, hvars
  <1>1. CASE w # reta[s]
    <2>1. rx'[w] = rx[w]
      BY <1>1 DEF NicReceive, TypeOK
    <2> QED
      BY <1>0, <2>1 DEF LineUp
  <1>2. CASE w = reta[s]
    <2> DEFINE p == <<s, sent[s] + 1>>
    <2>1. rx'[w] = Append(rx[w], p)
      BY <1>2 DEF NicReceive, TypeOK
    <2>2. /\ rx[w] \in Seq(Packet) /\ busy[w] \in Seq(Packet) /\ myring[w] \in Seq(Packet)
          /\ sent[s] \in Nat
      BY DEF TypeOK
    <2>3. p \in Packet /\ p[1] = s /\ p[2] = sent[s] + 1
      BY <2>2 DEF Packet
    <2> HIDE DEF p
    <2>4. rx'[w] = rx[w] \o <<p>> /\ <<p>> \in Seq(Packet)
      BY <2>1, <2>2, <2>3, AppendIsConcat
    <2>5. Elements(<<p>>) = {p}
      BY DEF Elements
    <2>6. ASSUME NEW x \in Elements(Held(w)) PROVE Precedes(aborted[w], x, p)
      <3>1. x \in Packet /\ x[2] <= sent[x[1]]
        BY DEF Numbered, Inside
      <3>2. x[1] \in Shards /\ x[2] \in Nat /\ sent[x[1]] \in Nat
        BY <3>1 DEF Packet, TypeOK
      <3>3. x[1] = s => x[2] < sent[s] + 1
        BY <2>2, <3>1, <3>2
      <3>4. x # p
        BY <2>2, <2>3, <3>3
      <3> QED
        BY <2>3, <3>3, <3>4 DEF Precedes
    <2>7. Elements(Held(w)) = Elements(busy[w]) \union Elements(myring[w]) \union Elements(rx[w])
      BY HeldElements
    <2>8. /\ Before(aborted[w], busy[w], <<p>>) /\ Before(aborted[w], myring[w], <<p>>)
          /\ Before(aborted[w], rx[w], <<p>>)
      BY <2>5, <2>6, <2>7 DEF Before
    <2>9. Chain(aborted[w], <<p>>)
      <3>1. Len(<<p>>) = 1
        OBVIOUS
      <3> QED
        BY <3>1 DEF Chain
    <2>10. Chain(aborted[w], rx[w] \o <<p>>)
      BY <2>2, <2>4, <2>8, <2>9, ChainConcat DEF LineUp
    <2>11. Elements(rx'[w]) = Elements(rx[w]) \union {p}
      BY <2>1, <2>2, <2>3, ElementsAppend
    <2>12. Before(aborted[w], busy[w], rx'[w]) /\ Before(aborted[w], myring[w], rx'[w])
      BY <2>5, <2>8, <2>11 DEF LineUp, Before
    <2> QED
      BY <1>0, <2>4, <2>10, <2>12 DEF LineUp
  <1> QED
    BY <1>1, <1>2

(* The packet a core's step takes away from what the cores hold: the batch  *)
(* it finishes, the part of a burst that the ring does not take.            *)
Leaving(w) ==
    IF pc[w] = "work" THEN Elements(busy[w])
    ELSE IF pc[w] = "drain" /\ count[w] > 0 /\ rx[w] # <<>>
    THEN Elements(Front(rx[w], BURST)) \ Elements(Front(Front(rx[w], BURST), RING - Len(myring[w])))
    ELSE {}

(* A core's step takes those packets away and no other. *)
LEMMA HeldStep ==
  ASSUME TypeOK, NEW w \in Cores, QueueInv(w), LineUp(w), Worker(w)
  PROVE  /\ Elements(Held(w)') = Elements(Held(w)) \ Leaving(w)
         /\ Leaving(w) \subseteq Elements(Held(w))
         /\ sent' = sent
         /\ \/ FinishBatch(w) /\ done' = done \union Leaving(w) /\ leaked' = leaked
            \/ DrainBurst(w) /\ leaked' = leaked \union Leaving(w) /\ done' = done
            \/ Leaving(w) = {} /\ UNCHANGED <<done, leaked>>
  <1>t. TypeOK'
    BY TypeWorker
  <1>q. /\ busy[w] \in Seq(Packet) /\ myring[w] \in Seq(Packet) /\ rx[w] \in Seq(Packet)
        /\ BURST \in Nat /\ BURST \in Int
    BY SizesAssumption DEF TypeOK
  <1>f. DOMAIN rx = Cores /\ DOMAIN busy = Cores /\ DOMAIN myring = Cores
    BY DEF TypeOK
  <1>h. /\ Elements(Held(w)) = Elements(busy[w]) \union Elements(myring[w]) \union Elements(rx[w])
        /\ Elements(Held(w)') = Elements(busy'[w]) \union Elements(myring'[w]) \union Elements(rx'[w])
    <2>1. Held(w)' = busy'[w] \o myring'[w] \o rx'[w]
      BY DEF Held
    <2>2. busy'[w] \in Seq(Packet) /\ myring'[w] \in Seq(Packet) /\ rx'[w] \in Seq(Packet)
      BY <1>t DEF TypeOK
    <2>3. Elements(busy'[w] \o myring'[w] \o rx'[w])
             = Elements(busy'[w]) \union Elements(myring'[w]) \union Elements(rx'[w])
      BY <2>2, ElementsConcat3
    <2> QED
      BY <2>1, <2>3, HeldElements
  <1>d. /\ Elements(busy[w]) \intersect Elements(myring[w]) = {}
        /\ Elements(busy[w]) \intersect Elements(rx[w]) = {}
        /\ Elements(myring[w]) \intersect Elements(rx[w]) = {}
    BY DEF LineUp, Before, Precedes
  <1>e. Elements(<<>>) = {}
    BY ChainEmpty
  <1>1. CASE FinishBatch(w)
    <2>1. /\ busy'[w] = <<>> /\ UNCHANGED <<rx, myring, sent, leaked>>
          /\ done' = done \union Elements(busy[w]) /\ pc[w] = "work"
      BY <1>1, <1>f DEF FinishBatch
    <2>2. Leaving(w) = Elements(busy[w])
      BY <2>1 DEF Leaving
    <2> QED
      BY <1>1, <1>d, <1>e, <1>h, <2>1, <2>2
  <1>2. CASE DrainBurst(w)
    <2> DEFINE burst == Front(rx[w], BURST)
               room == RING - Len(myring[w])
               kept == Front(burst, room)
               rest == Rest(rx[w], BURST)
    <2>1. /\ rx'[w] = rest /\ myring'[w] = myring[w] \o kept
          /\ busy'[w] = busy[w] /\ UNCHANGED <<sent, done>>
          /\ leaked' = leaked \union (Elements(burst) \ Elements(kept))
          /\ pc[w] = "drain" /\ count[w] > 0 /\ rx[w] # <<>>
      BY <1>2, <1>f DEF DrainBurst
    <2>2. burst \in Seq(Packet) /\ Elements(burst) \union Elements(rest) = Elements(rx[w])
      BY <1>q, ElementsSplit, BurstType
    <2>3. Before(aborted[w], burst, rest)
      BY <1>q, ChainSplit DEF LineUp
    <2>4. room \in Int
      BY <1>q, LenProperties, SizesAssumption
    <2>5. Leaving(w) = Elements(burst) \ Elements(kept)
      BY <2>1 DEF Leaving
    <2> HIDE DEF burst, room, rest
    <2>6. kept \in Seq(Packet) /\ Elements(kept) \subseteq Elements(burst)
      BY <2>2, <2>4, FrontPrefix
    <2> HIDE DEF kept
    <2>7. Elements(burst) \intersect Elements(rest) = {}
      BY <2>3 DEF Before, Precedes
    <2>8. Elements(myring[w] \o kept) = Elements(myring[w]) \union Elements(kept)
      BY <1>q, <2>6, ElementsConcat
    <2> QED
      BY <1>2, <1>d, <1>h, <2>1, <2>2, <2>5, <2>6, <2>7, <2>8
  <1>3. CASE RingBurst(w)
    <2>1. /\ busy'[w] = Front(myring[w], BURST) /\ myring'[w] = Rest(myring[w], BURST)
          /\ rx'[w] = rx[w] /\ UNCHANGED <<sent, done, leaked>> /\ pc[w] = "top"
      BY <1>3, <1>f DEF RingBurst
    <2>2. Elements(Front(myring[w], BURST)) \union Elements(Rest(myring[w], BURST)) = Elements(myring[w])
      BY <1>q, ElementsSplit
    <2>3. busy[w] = <<>> /\ Leaving(w) = {}
      BY <2>1 DEF QueueInv, Leaving
    <2> QED
      BY <1>e, <1>h, <2>1, <2>2, <2>3
  <1>4. CASE RxBurst(w)
    <2>1. /\ busy'[w] = Front(rx[w], BURST) /\ rx'[w] = Rest(rx[w], BURST)
          /\ myring'[w] = myring[w] /\ UNCHANGED <<sent, done, leaked>> /\ pc[w] = "rx"
      BY <1>4, <1>f DEF RxBurst
    <2>2. Elements(Front(rx[w], BURST)) \union Elements(Rest(rx[w], BURST)) = Elements(rx[w])
      BY <1>q, ElementsSplit
    <2>3. busy[w] = <<>> /\ Leaving(w) = {}
      BY <2>1 DEF QueueInv, Leaving
    <2> QED
      BY <1>e, <1>h, <2>1, <2>2, <2>3
  <1>5. CASE UNCHANGED pktvars /\ Leaving(w) = {}
    BY <1>5 DEF pktvars, Held
  <1>6. CASE DrainEnd(w)
    <2>1. Leaving(w) = {}
      BY <1>6, <1>q DEF DrainEnd, Leaving, TypeOK
    <2> QED
      BY <1>5, <1>6, <2>1 DEF DrainEnd
  <1>7. CASE \/ DrainOver(w) \/ ReleaseTest(w) \/ ReleasePause(w) \/ ReleaseTell(w) \/ ClaimTest(w)
             \/ ClaimOffer(w) \/ ClaimOwner(w) \/ SignalTest(w) \/ TransferTest(w) \/ DrainCount(w)
             \/ TransferClear(w) \/ SignalClear(w) \/ ChangesTest(w) \/ ChangesShard(w)
             \/ ChangesClear(w) \/ RxNothing(w)
    <2>1. UNCHANGED pktvars /\ pc[w] \notin {"work", "drain"}
      BY <1>7 DEF DrainOver, ReleaseTest, ReleasePause, ReleaseTell, ClaimTest, ClaimOffer, ClaimOwner,
         SignalTest, TransferTest, DrainCount, TransferClear, SignalClear, ChangesTest, ChangesShard,
         ChangesClear, RxNothing
    <2> QED
      BY <1>5, <2>1 DEF Leaving
  <1> QED
    BY <1>1, <1>2, <1>3, <1>4, <1>6, <1>7 DEF Worker

(* The other cores hold none of the packets that leave. *)
LEMMA InsideWorker ==
  ASSUME TypeOK, NEW w \in Cores, QueueInv(w), LineUp(w), Apart, Worker(w)
  PROVE  Inside' = Inside \ Leaving(w) /\ Leaving(w) \subseteq Inside
  <1>1. /\ Elements(Held(w)') = Elements(Held(w)) \ Leaving(w)
        /\ Leaving(w) \subseteq Elements(Held(w))
    BY HeldStep
  <1>2. ASSUME NEW v \in Cores, v # w
        PROVE  /\ Elements(Held(v)') = Elements(Held(v))
               /\ Elements(Held(v)) \intersect Leaving(w) = {}
    <2>1. Held(v)' = Held(v)
      BY <1>2, WorkerLocal DEF Held
    <2>2. Elements(Held(v)) \intersect Elements(Held(w)) = {}
      BY <1>2 DEF Apart
    <2> QED
      BY <1>1, <2>1, <2>2
  <1>3. \A v \in Cores : Elements(Held(v)') = Elements(Held(v)) \ Leaving(w)
    BY <1>1, <1>2
  <1>4. Inside' = UNION {Elements(Held(v)') : v \in Cores}
    BY DEF Inside, Elements
  <1> QED
    BY <1>1, <1>3, <1>4 DEF Inside

(* A packet that arrives is new. *)
LEMMA InsideNic ==
  ASSUME TypeOK, Numbered, NEW s \in Shards, NicReceive(s)
  PROVE  /\ Inside' = Inside \union {<<s, sent[s] + 1>>}
         /\ <<s, sent[s] + 1>> \notin Inside
         /\ \A v \in Cores : Elements(Held(v)') =
               IF v = reta[s] THEN Elements(Held(v)) \union {<<s, sent[s] + 1>>}
                              ELSE Elements(Held(v))
  <1> DEFINE p == <<s, sent[s] + 1>>
  <1>0. /\ UNCHANGED <<busy, myring>> /\ reta[s] \in Cores /\ sent[s] \in Nat
        /\ DOMAIN rx = Cores
    BY DEF NicReceive, TypeOK
  <1>1. p \in Packet /\ p[1] = s /\ p[2] = sent[s] + 1
    BY <1>0 DEF Packet
  <1>2. p \notin Inside
    BY <1>0, <1>1 DEF Numbered
  <1>3. rx' = [rx EXCEPT ![reta[s]] = Append(@, p)]
    BY DEF NicReceive
  <1> HIDE DEF p
  <1>4. ASSUME NEW v \in Cores
        PROVE  Elements(Held(v)') = IF v = reta[s] THEN Elements(Held(v)) \union {p}
                                                   ELSE Elements(Held(v))
    <2>1. CASE v # reta[s]
      <3>1. rx'[v] = rx[v]
        BY <1>0, <1>3, <2>1
      <3> QED
        BY <1>0, <2>1, <3>1 DEF Held
    <2>2. CASE v = reta[s]
      <3>1. /\ busy[v] \in Seq(Packet) /\ myring[v] \in Seq(Packet) /\ rx[v] \in Seq(Packet)
        BY DEF TypeOK
      <3>2. rx'[v] = Append(rx[v], p)
        BY <1>0, <1>3, <2>2
      <3>4. Elements(rx'[v]) = Elements(rx[v]) \union {p} /\ rx'[v] \in Seq(Packet)
        BY <1>1, <3>1, <3>2, ElementsAppend, AppendProperties
      <3>5. Elements(busy[v] \o myring[v] \o rx'[v])
              = Elements(busy[v]) \union Elements(myring[v]) \union Elements(rx'[v])
        BY <3>1, <3>4, ElementsConcat3
      <3>6. Held(v)' = busy[v] \o myring[v] \o rx'[v]
        BY <1>0 DEF Held
      <3> QED
        BY <2>2, <3>4, <3>5, <3>6, HeldElements
    <2> QED
      BY <2>1, <2>2
  <1>5. Inside' = UNION {Elements(Held(v)') : v \in Cores}
    BY DEF Inside, Elements
  <1>6. Inside' = Inside \union {p}
    BY <1>0, <1>4, <1>5 DEF Inside
  <1> QED
    BY <1>2, <1>4, <1>6 DEF p

(* ServiceInv is inductive. *)
LEMMA ServiceInvStep ==
  ASSUME TypeOK, \A w \in Cores : QueueInv(w), ServiceInv, [Next]_vars
  PROVE  ServiceInv'
  <1>1. CASE UNCHANGED <<pktvars, aborted>>
    BY <1>1 DEF pktvars, ServiceInv, LineUp, Apart, Numbered, Inside, Held
  <1>2. CASE CtlSolve \/ Controller
    BY <1>1, <1>2 DEF Controller, CtlSolve, CtlMarkSkip, CtlMark, CtlPause, CtlReta,
       CtlNotifySkip, CtlNotify, CtlTell, CtlSignal, hvars
  <1>3. ASSUME NEW s \in Shards, NicReceive(s) PROVE ServiceInv'
    <2>1. \A w \in Cores : LineUp(w)'
      BY <1>3, LineUpNic DEF ServiceInv
    <2> DEFINE p == <<s, sent[s] + 1>>
    <2>2. /\ Inside' = Inside \union {p} /\ p \notin Inside
          /\ \A v \in Cores : Elements(Held(v)') = IF v = reta[s] THEN Elements(Held(v)) \union {p}
                                                                  ELSE Elements(Held(v))
      BY <1>3, InsideNic DEF ServiceInv
    <2>3. Apart'
      <3> HIDE DEF p
      <3>1. \A v \in Cores : p \notin Elements(Held(v))
        BY <2>2 DEF Inside
      <3>2. \A v, w \in Cores : v # w => Elements(Held(v)') \intersect Elements(Held(w)') = {}
        BY <2>2, <3>1 DEF Apart, ServiceInv
      <3> QED
        BY <3>2 DEF Apart, Elements
    <2>4. Numbered'
      <3>1. UNCHANGED <<done, leaked>> /\ sent' = [sent EXCEPT ![s] = @ + 1]
        BY <1>3 DEF NicReceive
      <3>2. Inside \union done \union leaked = {x \in Packet : x[2] <= sent[x[1]]}
        BY DEF ServiceInv, Numbered
      <3>3. ASSUME NEW x \in Packet
            PROVE  x[2] <= sent'[x[1]] <=> x[2] <= sent[x[1]] \/ x = p
        <4>1. PICK r \in Shards, n \in Nat \ {0} : x = <<r, n>>
          BY DEF Packet
        <4>2. sent[s] \in Nat /\ sent[r] \in Nat /\ DOMAIN sent = Shards
          BY DEF TypeOK
        <4>3. sent'[r] = IF r = s THEN sent[s] + 1 ELSE sent[r]
          BY <3>1, <4>2
        <4>4. x[1] = r /\ x[2] = n
          BY <4>1
        <4>5. x = p <=> r = s /\ n = sent[s] + 1
          BY <4>1
        <4> QED
          BY <4>2, <4>3, <4>4, <4>5
      <3>4. p \in Packet
        <4>1. sent[s] \in Nat
          BY DEF TypeOK
        <4> QED
          BY <4>1 DEF Packet
      <3> HIDE DEF p
      <3> QED
        BY <2>2, <3>1, <3>2, <3>3, <3>4 DEF Numbered
    <2> QED
      BY <2>1, <2>3, <2>4 DEF ServiceInv
  <1>4. ASSUME NEW w \in Cores, Worker(w) PROVE ServiceInv'
    <2>0. QueueInv(w) /\ LineUp(w) /\ Apart /\ Numbered
      BY DEF ServiceInv
    <2>1. \A v \in Cores : LineUp(v)'
      <3> SUFFICES ASSUME NEW v \in Cores, v # w PROVE LineUp(v)'
        BY <1>4, <2>0, LineUpWorker
      <3> QED
        BY <1>4, WorkerLocal DEF LineUp, ServiceInv
    <2>2. Apart'
      <3>1. \A v \in Cores : Elements(Held(v)') \subseteq Elements(Held(v))
        <4>1. \A u \in Cores : pc[u] # "work" => busy[u] = <<>>
          BY DEF QueueInv
        <4> QED
          BY <1>4, <4>1, HeldShrinks
      <3>2. \A u, v \in Cores : u # v => Elements(Held(u)') \intersect Elements(Held(v)') = {}
        BY <2>0, <3>1 DEF Apart
      <3> QED
        BY <3>2 DEF Apart, Elements
    <2>3. Numbered'
      <3>1. Inside' = Inside \ Leaving(w) /\ Leaving(w) \subseteq Inside
        BY <1>4, <2>0, InsideWorker
      <3>2. /\ sent' = sent
            /\ \/ done' = done \union Leaving(w) /\ leaked' = leaked
               \/ leaked' = leaked \union Leaving(w) /\ done' = done
               \/ Leaving(w) = {} /\ UNCHANGED <<done, leaked>>
        BY <1>4, <2>0, HeldStep
      <3>3. Inside' \union done' \union leaked' = Inside \union done \union leaked
        BY <3>1, <3>2
      <3> QED
        BY <2>0, <3>2, <3>3 DEF Numbered
    <2> QED
      BY <2>1, <2>2, <2>3 DEF ServiceInv
  <1> QED
    BY <1>1, <1>2, <1>3, <1>4 DEF Next, Halted, vars, hvars

(* Initially nothing is inside. *)
LEMMA ServiceInvInit ==
  ASSUME Init PROVE ServiceInv /\ Inside = {}
  <1>1. TypeOK
    BY TypeInit
  <1>2. Elements(<<>>) = {}
    BY DEF Elements
  <1>3. \A w \in Cores : busy[w] = <<>> /\ myring[w] = <<>> /\ rx[w] = <<>>
    BY DEF Init
  <1>4. \A w \in Cores : Elements(Held(w)) = {}
    BY <1>1, <1>2, <1>3, HeldElements
  <1>5. Inside = {} /\ Apart
    BY <1>4 DEF Inside, Apart
  <1>6. \A w \in Cores : LineUp(w)
    BY <1>3, ChainEmpty DEF LineUp
  <1>7. Numbered
    <2>1. ASSUME NEW p \in Packet PROVE ~(p[2] <= sent[p[1]])
      <3>1. p[1] \in Shards /\ p[2] \in Nat \ {0}
        BY DEF Packet
      <3>2. sent[p[1]] = 0
        BY <3>1 DEF Init
      <3> QED
        BY <3>1, <3>2
    <2>2. done = {} /\ leaked = {}
      BY DEF Init
    <2> QED
      BY <1>5, <2>1, <2>2 DEF Numbered
  <1> QED
    BY <1>5, <1>6, <1>7 DEF ServiceInv

(* The packets of a shard among those sent are as many as were sent. *)
LEMMA SentCardinality ==
  ASSUME TypeOK, NEW s \in Shards
  PROVE  Cardinality({p \in {x \in Packet : x[2] <= sent[x[1]]} : p[1] = s}) = sent[s]
  <1> DEFINE n == sent[s]
             T == {p \in {x \in Packet : x[2] <= sent[x[1]]} : p[1] = s}
             f == [k \in 1 .. n |-> <<s, k>>]
  <1>1. n \in Nat
    BY DEF TypeOK
  <1>2. ASSUME NEW k \in 1 .. n PROVE <<s, k>> \in T
    <2>1. <<s, k>> \in Packet /\ <<s, k>>[1] = s /\ <<s, k>>[2] = k
      BY <1>1 DEF Packet
    <2> QED
      BY <1>1, <2>1
  <1>3. ASSUME NEW t \in T PROVE t[2] \in 1 .. n /\ t = <<s, t[2]>>
    BY <1>1 DEF Packet
  <1> HIDE DEF T, n
  <1>4. f \in [1 .. n -> T]
    BY <1>2
  <1>5. \A a, b \in 1 .. n : f[a] = f[b] => a = b
    OBVIOUS
  <1>6. \A t \in T : \E k \in 1 .. n : f[k] = t
    BY <1>3
  <1>7. ExistsBijection(1 .. n, T)
    BY <1>4, <1>5, <1>6 DEF ExistsBijection, Bijection, Injection, Surjection, IsInjective
  <1>8. IsFiniteSet(1 .. n) /\ Cardinality(1 .. n) = n
    BY <1>1, FS_Interval
  <1>9. Cardinality(T) = n
    BY <1>7, <1>8, FS_Bijection
  <1> QED
    BY <1>9 DEF T, n

(* The service counts as this module does. *)
LEMMA SameCardinality ==
  ASSUME NEW S PROVE Service!Cardinality(S) = Cardinality(S)
  BY DEF Service!Cardinality, Cardinality

(* An arriving packet is the next one of its shard for the service. *)
LEMMA NicRefines ==
  ASSUME TypeOK, ServiceInv, NEW s \in Shards, NicReceive(s)
  PROVE  Service!Next
  <1>1. Inside' = Inside \union {<<s, sent[s] + 1>>}
    BY InsideNic DEF ServiceInv
  <1>2. UNCHANGED <<done, leaked, pause, hist, aborted>>
    BY DEF NicReceive, cvars, shardvars, hvars
  <1>3. Moving' = Moving
    BY <1>2 DEF Moving
  <1>4. Cardinality({p \in Inside \union done \union leaked : p[1] = s}) = sent[s]
    BY SentCardinality DEF ServiceInv, Numbered
  <1>5. Service!Receive(s)
    <2> DEFINE in == UNION {Elements(Held(w)) : w \in Cores}
               n == Service!Cardinality({p \in in \union done \union leaked : p[1] = s}) + 1
    <2>1. n = sent[s] + 1
      BY <1>4, SameCardinality DEF Inside
    <2>2. in' = in \union {<<s, n>>}
      BY <1>1, <2>1 DEF Inside
    <2> QED
      BY <1>2, <1>3, <2>2 DEF Service!Receive, Service!Received
  <1> QED
    BY <1>5 DEF Service!Next

(* A finished batch holds the oldest packets of its shards, unless these    *)
(* are on the move.                                                         *)
LEMMA FinishRefines ==
  ASSUME TypeOK, ServiceInv, ReleasedShardHasOneCore, NEW w \in Cores, QueueInv(w),
         FinishBatch(w)
  PROVE  Service!Next
  <1> DEFINE batch == Elements(busy[w])
  <1>0. Worker(w) /\ LineUp(w) /\ Apart
    BY DEF Worker, ServiceInv
  <1>1. /\ Leaving(w) = batch /\ done' = done \union batch /\ leaked' = leaked
        /\ UNCHANGED <<pause, hist, aborted>>
    BY DEF FinishBatch, Leaving, cvars, shardvars, hvars
  <1>2. Inside' = Inside \ batch /\ batch \subseteq Inside
    BY <1>0, <1>1, InsideWorker
  <1>3. Moving' = Moving
    BY <1>1 DEF Moving
  <1>4. ASSUME NEW p \in batch, NEW x \in Inside \ batch, x[1] = p[1], p[1] \notin Moving
        PROVE  p[2] < x[2]
    <2>1. Elements(Held(w)) = Elements(busy[w]) \union Elements(myring[w]) \union Elements(rx[w])
      BY HeldElements
    <2>2. p \in Packet
      <3>1. busy[w] \in Seq(Packet) /\ 0 \in Int
        BY DEF TypeOK
      <3>2. batch \subseteq Packet
        BY <3>1, BurstType
      <3> QED
        BY <3>2
    <2>3. PICK v \in Cores : x \in Elements(Held(v))
      BY <1>4 DEF Inside
    <2>4. pause[p[1]] = 0 /\ hist[p[1]] # "stale" /\ ~aborted[w] /\ ~aborted[v] /\ p[1] \in Shards
      <3>1. p[1] \in Shards
        BY <2>2 DEF Packet
      <3>2. pause[p[1]] \in {0, 1}
        BY <3>1 DEF TypeOK, Bit
      <3> QED
        BY <1>4, <3>1, <3>2 DEF Moving
    <2>5. Holds(w, p[1]) /\ Holds(v, p[1])
      BY <1>4, <2>1, <2>3 DEF Holds
    <2>6. v = w
      BY <2>4, <2>5 DEF ReleasedShardHasOneCore
    <2>7. x \in Elements(myring[w]) \union Elements(rx[w])
      BY <1>4, <2>1, <2>3, <2>6
    <2>8. Precedes(aborted[w], p, x)
      BY <1>0, <2>7 DEF LineUp, Before
    <2> QED
      BY <1>4, <2>4, <2>8 DEF Precedes
  <1>5. Service!Handle(batch)
    BY <1>1, <1>2, <1>3, <1>4 DEF Service!Handle, Inside
  <1>6. batch \in SUBSET UNION {Elements(Held(v)) : v \in Cores}
    BY <1>2 DEF Inside
  <1> QED
    BY <1>5, <1>6 DEF Service!Next

(* What a drain cannot keep is lost. *)
LEMMA DrainRefines ==
  ASSUME TypeOK, ServiceInv, NEW w \in Cores, QueueInv(w), DrainBurst(w)
  PROVE  Service!Next
  <1>0. Worker(w) /\ LineUp(w) /\ Apart
    BY DEF Worker, ServiceInv
  <1>1. UNCHANGED <<pause, hist, aborted, done>> /\ leaked' = leaked \union Leaving(w)
    <2>1. UNCHANGED <<pause, hist, aborted, done>>
      BY DEF DrainBurst, cvars, shardvars
    <2>2. ~FinishBatch(w)
      BY DEF DrainBurst, FinishBatch
    <2> QED
      BY <1>0, <2>1, <2>2, HeldStep
  <1>2. Inside' = Inside \ Leaving(w) /\ Leaving(w) \subseteq Inside
    BY <1>0, InsideWorker
  <1>3. Moving' = Moving
    BY <1>1 DEF Moving
  <1>4. Service!Lose(Leaving(w))
    BY <1>1, <1>2, <1>3 DEF Service!Lose, Inside
  <1>5. Leaving(w) \in SUBSET UNION {Elements(Held(v)) : v \in Cores}
    BY <1>2 DEF Inside
  <1> QED
    BY <1>4, <1>5 DEF Service!Next

(* Every step of the cores, the controller and the NIC is a step of the     *)
(* service.                                                                 *)
LEMMA StepRefines ==
  ASSUME TypeOK, ServiceInv, ReleasedShardHasOneCore, \A w \in Cores : QueueInv(w), [Next]_vars
  PROVE  [Service!Next]_(Service!vars)
  <1>m. Moving' \subseteq Shards
    BY DEF Moving
  <1>1. CASE UNCHANGED <<busy, myring, rx, done, leaked>>
    <2>1. Inside' = Inside
      BY <1>1 DEF Inside, Held
    <2>2. Service!Move
      BY <1>1, <1>m, <2>1 DEF Service!Move, Inside
    <2> QED
      BY <2>2 DEF Service!Next
  <1>2. CASE CtlSolve \/ Controller
    BY <1>1, <1>2 DEF Controller, CtlSolve, CtlMarkSkip, CtlMark, CtlPause, CtlReta,
       CtlNotifySkip, CtlNotify, CtlTell, CtlSignal, pktvars
  <1>3. ASSUME NEW s \in Shards, NicReceive(s) PROVE Service!Next
    BY <1>3, NicRefines
  <1>4. ASSUME NEW w \in Cores, Worker(w) PROVE Service!Next
    <2>1. CASE FinishBatch(w)
      BY <2>1, FinishRefines
    <2>2. CASE DrainBurst(w)
      BY <2>2, DrainRefines
    <2>3. CASE ~FinishBatch(w) /\ ~DrainBurst(w)
      <3>1. QueueInv(w) /\ LineUp(w) /\ Apart
        BY DEF ServiceInv
      <3>2. Leaving(w) = {} /\ UNCHANGED <<done, leaked>>
        BY <1>4, <2>3, <3>1, HeldStep
      <3>3. Inside' = Inside
        BY <1>4, <3>1, <3>2, InsideWorker
      <3>4. Service!Move
        BY <1>m, <3>2, <3>3 DEF Service!Move, Inside
      <3> QED
        BY <3>4 DEF Service!Next
    <2> QED
      BY <2>1, <2>2, <2>3
  <1> QED
    BY <1>1, <1>2, <1>3, <1>4 DEF Next, Halted, vars, pktvars

(* With epochs that do not overlap and a drain that plans for a whole rx    *)
(* queue, the cores, their queues and rings implement ShardService: every   *)
(* packet is handled or lost once, and those of a shard at rest are handled *)
(* in the order the NIC received them, across any number of migrations.     *)
THEOREM ServiceRefined ==
  ~Overlap /\ NDESC <= QSIZE => (Spec => ImplementsService)
  <1> SUFFICES ASSUME ~Overlap, NDESC <= QSIZE PROVE Spec => ImplementsService
    OBVIOUS
  <1> DEFINE Inv == TypeOK /\ RetaAgrees /\ HandoverInv /\ ServiceInv
  <1>1. Init => HandoverInv /\ ServiceInv
    BY HandoverInit, ServiceInvInit
  <1>2. TypeOK /\ RetaAgrees /\ HandoverInv /\ ServiceInv /\ [Next]_vars
          => HandoverInv' /\ ServiceInv'
    BY HandoverStep, ServiceInvStep DEF HandoverInv
  <1>3. Init => Service!Init
    <2> SUFFICES ASSUME Init PROVE Service!Init
      OBVIOUS
    <2>1. Inside = {} /\ done = {} /\ leaked = {}
      BY ServiceInvInit DEF Init
    <2>2. Moving \subseteq Shards
      BY DEF Moving
    <2> QED
      BY <2>1, <2>2 DEF Service!Init, Inside
  <1>4. TypeOK /\ HandoverInv /\ ServiceInv /\ [Next]_vars => [Service!Next]_(Service!vars)
    <2>1. HandoverInv => ReleasedShardHasOneCore /\ \A w \in Cores : QueueInv(w)
      BY DEF HandoverInv, HoldInv, ReleasedShardHasOneCore
    <2> QED
      BY <2>1, StepRefines
  <1> QED
    BY <1>1, <1>2, <1>3, <1>4, TypeCorrect, RetaCorrect, PTL
    DEF Spec, ImplementsService, Service!Spec
=============================================================================
