--------------------------- MODULE FlowStateProofs ---------------------------
(***************************************************************************)
(* Theorems about FlowState for every burst, ring and counter size and any *)
(* number of packets.                                                      *)
(***************************************************************************)
EXTENDS FlowState, SequenceTheorems, FiniteSetTheorems, TLAPS

-----------------------------------------------------------------------------
(* Bursts of a queue.                                                       *)

(* What a burst takes from a queue and what it leaves. *)
LEMMA Split ==
  ASSUME NEW s \in Seq(Nat), NEW n \in Nat
  PROVE  LET m == Least(n, Len(s))
         IN  /\ m \in 0 .. Len(s) /\ m <= n /\ (m = Len(s) \/ m = n)
             /\ Front(s, n) \in Seq(Nat) /\ Rest(s, n) \in Seq(Nat)
             /\ Len(Front(s, n)) = m /\ Len(Rest(s, n)) = Len(s) - m
             /\ \A k \in 1 .. m : Front(s, n)[k] = s[k]
             /\ \A k \in 1 .. Len(s) - m : Rest(s, n)[k] = s[k + m]
  <1> DEFINE m == Least(n, Len(s))
             l == Len(s)
  <1>1. l \in Nat /\ \A i \in 1 .. l : s[i] \in Nat
    BY LenProperties, ElementOfSeq
  <1>2. m \in 0 .. l /\ m <= n /\ (m = l \/ m = n)
    BY <1>1 DEF Least
  <1>3. Front(s, n) = SubSeq(s, 1, m) /\ Rest(s, n) = SubSeq(s, m + 1, l)
    BY DEF Front, Rest
  <1> HIDE DEF m, l
  <1>4. /\ SubSeq(s, 1, m) \in Seq(Nat) /\ Len(SubSeq(s, 1, m)) = m
        /\ \A k \in 1 .. m : SubSeq(s, 1, m)[k] = s[k]
    <2>1. m \in Int /\ 1 \in Int /\ \A i \in 1 .. m : s[i] \in Nat
      BY <1>1, <1>2
    <2>2. /\ SubSeq(s, 1, m) \in Seq(Nat)
          /\ Len(SubSeq(s, 1, m)) = IF 1 <= m THEN m - 1 + 1 ELSE 0
          /\ \A i \in 1 .. m - 1 + 1 : SubSeq(s, 1, m)[i] = s[1 + i - 1]
      BY <2>1, SubSeqProperties
    <2>3. m - 1 + 1 = m /\ \A i \in 1 .. m : 1 + i - 1 = i
      BY <2>1
    <2>4. Len(SubSeq(s, 1, m)) = m
      BY <1>2, <2>2, <2>3
    <2> QED
      BY <2>2, <2>3, <2>4
  <1>5. /\ SubSeq(s, m + 1, l) \in Seq(Nat) /\ Len(SubSeq(s, m + 1, l)) = l - m
        /\ \A k \in 1 .. l - m : SubSeq(s, m + 1, l)[k] = s[k + m]
    <2>1. m + 1 \in Int /\ l \in Int /\ \A i \in m + 1 .. l : s[i] \in Nat
      BY <1>1, <1>2
    <2>2. /\ SubSeq(s, m + 1, l) \in Seq(Nat)
          /\ Len(SubSeq(s, m + 1, l)) = IF m + 1 <= l THEN l - (m + 1) + 1 ELSE 0
          /\ \A i \in 1 .. l - (m + 1) + 1 : SubSeq(s, m + 1, l)[i] = s[(m + 1) + i - 1]
      BY <2>1, SubSeqProperties
    <2>3. l - (m + 1) + 1 = l - m /\ \A i \in 1 .. l - m : (m + 1) + i - 1 = i + m
      BY <1>1, <1>2
    <2>4. Len(SubSeq(s, m + 1, l)) = l - m
      BY <1>1, <1>2, <2>2, <2>3
    <2> QED
      BY <2>2, <2>3, <2>4
  <1> QED
    BY <1>2, <1>3, <1>4, <1>5 DEF m, l

(* The packets of a queue by position. *)
LEMMA ByPosition ==
  ASSUME NEW s \in Seq(Nat)
  PROVE  Elements(s) = {s[k] : k \in 1 .. Len(s)} /\ Elements(s) \subseteq Nat
  BY LenProperties, ElementOfSeq DEF Elements

(* A burst that holds the whole queue. *)
LEMMA FrontWhole ==
  ASSUME NEW s \in Seq(Nat), NEW n \in Nat, Len(s) <= n
  PROVE  Front(s, n) = s
  <1> DEFINE m == Least(n, Len(s))
  <1>1. /\ m \in 0 .. Len(s) /\ m <= n /\ (m = Len(s) \/ m = n)
        /\ Front(s, n) \in Seq(Nat) /\ Len(Front(s, n)) = m
        /\ \A k \in 1 .. m : Front(s, n)[k] = s[k]
    BY Split
  <1>2. Len(s) \in Nat
    BY LenProperties
  <1> HIDE DEF m
  <1>3. m = Len(s)
    BY <1>1, <1>2
  <1> QED
    BY <1>1, <1>3, SeqEqual

(* Consecutive packets. *)
LEMMA Arrivals ==
  ASSUME NEW n \in Nat, NEW a \in Nat \ {0}
  PROVE  LET s == [k \in 1 .. n |-> a + k - 1]
         IN  s \in Seq(Nat) /\ Len(s) = n
  <1> DEFINE s == [k \in 1 .. n |-> a + k - 1]
  <1>1. \A k \in 1 .. n : a + k - 1 \in Nat
    OBVIOUS
  <1>2. s \in [1 .. n -> Nat]
    BY <1>1
  <1> HIDE DEF s
  <1>3. s \in Seq(Nat)
    BY <1>2, SeqDef
  <1>4. DOMAIN s = 1 .. n
    BY <1>2
  <1>5. Len(s) = n
    BY <1>3, <1>4, LenProperties
  <1> QED
    BY <1>3, <1>5 DEF s

-----------------------------------------------------------------------------
(* Type correctness.                                                        *)

Label == {"top", "run", "enqueue", "load", "install", "read", "write", "tx"}
Working == {"load", "install", "read", "write"}

(* A state of a network function. *)
NFState ==
    [cnt : [Class -> 0 .. WORD - 1],
     ring : [Class -> [0 .. ENTRIES - 1 -> Nat]]]

(* Rings, bursts and sets of packets. *)
RingType ==
    /\ next \in 1 .. MaxPkts + 1 /\ myown \in BOOLEAN
    /\ q \in Seq(Nat) /\ Len(q) <= QSIZE /\ myring \in Seq(Nat)
    /\ burst \in Seq(Nat) /\ off_pkts \in Seq(Nat)
    /\ offloaded \subseteq Nat /\ sent \subseteq Nat /\ leaked \subseteq Nat

(* Where each core is in its batch: O never classifies or enqueues. *)
PosType ==
    /\ pc \in [Cores -> Label] /\ pc["O"] \notin {"run", "enqueue"}
    /\ batch \in [Cores -> Seq(Nat)] /\ at \in [Cores -> Nat] /\ nf \in [Cores -> NF]
    /\ \A c \in Cores : pc[c] \in Working => at[c] \in 1 .. Len(batch[c])

(* The locals of simple_action. *)
LocalType ==
    state \in [Cores -> Nat] /\ tmp \in [Cores -> 0 .. WORD - 1] /\ class \in [Cores -> Class]

(* Every pointer that may be used is one of an allocated state. *)
HeapType ==
    /\ heap \in [NF -> Seq(NFState)] /\ global_state \in [NF -> Nat]
    /\ \A h \in NF : global_state[h] <= Len(heap[h])
    /\ \A c \in Cores : pc[c] \in {"read", "write"} => state[c] \in 1 .. Len(heap[nf[c]])

(* The history variables. *)
HistoryType ==
    /\ handled \in Seq(Nat \X Cores) /\ log \in [Class -> Seq(Nat)] /\ met \subseteq NF

(* Where the packets of the owner are: a burst is classified in "run", what *)
(* is left to O is enqueued after the chain, and a drain has no burst.      *)
WorkType ==
    /\ pc["W"] # "run" => burst = <<>>
    /\ pc["W"] = "top" \/ myown => off_pkts = <<>> /\ burst = <<>>
    /\ \A c \in Cores : pc[c] \in {"top", "enqueue"} => batch[c] = <<>>
    /\ Len(burst) + Len(off_pkts) + Len(batch["W"]) <= BURST
    /\ Len(batch["O"]) <= BURST

TypeInv == RingType /\ PosType /\ LocalType /\ HeapType /\ HistoryType /\ WorkType

(* The sizes are positive. *)
LEMMA Sizes ==
  /\ BURST \in Nat /\ BURST > 0 /\ QSIZE \in Nat /\ QSIZE > 0
  /\ ENTRIES \in Nat /\ ENTRIES > 0 /\ WORD \in Nat /\ WORD > 0
  /\ MaxPkts \in Nat /\ WORD % ENTRIES = 0
  BY SizeAssumption

(* A state is made with its counters at 0 and no packet in its entries. *)
LEMMA NewStateType == NewState \in NFState
  BY Sizes DEF NewState, NFState, NoPkt, Class

(* A core that starts the chain on a burst of one packet or more. *)
LEMMA PushType ==
  ASSUME TypeInv, NEW c \in Cores, NEW b \in Seq(Nat), b # <<>>, Push(c, b),
         UNCHANGED <<state, heap, global_state>>
  PROVE  /\ PosType' /\ HeapType' /\ pc'[c] = "load" /\ batch'[c] = b
         /\ \A d \in Cores \ {c} : pc'[d] = pc[d] /\ batch'[d] = batch[d]
  <1>0. /\ pc \in [Cores -> Label] /\ pc["O"] \notin {"run", "enqueue"}
        /\ batch \in [Cores -> Seq(Nat)] /\ at \in [Cores -> Nat] /\ nf \in [Cores -> NF]
        /\ \A d \in Cores : pc[d] \in Working => at[d] \in 1 .. Len(batch[d])
    BY DEF TypeInv, PosType
  <1>1. /\ batch' = [batch EXCEPT ![c] = b] /\ at' = [at EXCEPT ![c] = 1]
        /\ nf' = [nf EXCEPT ![c] = 1] /\ pc' = [pc EXCEPT ![c] = "load"]
    BY DEF Push
  <1>2. 1 \in 1 .. Len(b)
    BY EmptySeq
  <1>3. pc' \in [Cores -> Label] /\ pc'["O"] \notin {"run", "enqueue"}
    BY <1>0, <1>1 DEF Label, Cores
  <1>4. batch' \in [Cores -> Seq(Nat)] /\ at' \in [Cores -> Nat] /\ nf' \in [Cores -> NF]
    BY <1>0, <1>1 DEF NF
  <1>5. /\ pc'[c] = "load" /\ batch'[c] = b /\ at'[c] = 1
        /\ \A d \in Cores \ {c} : /\ pc'[d] = pc[d] /\ batch'[d] = batch[d]
                                  /\ at'[d] = at[d] /\ nf'[d] = nf[d]
    BY <1>0, <1>1
  <1>6. PosType'
    BY <1>0, <1>2, <1>3, <1>4, <1>5 DEF PosType
  <1>7. HeapType'
    BY <1>5 DEF TypeInv, HeapType
  <1> QED
    BY <1>5, <1>6, <1>7

(* Steps that leave the functions' states and the cores' places alone. *)
LEMMA InputType ==
  ASSUME TypeInv, UNCHANGED <<localvars, nfvars, batch, at, nf>>,
         NEW l \in {"top", "run", "enqueue"}, pc' = [pc EXCEPT !["W"] = l]
  PROVE  /\ PosType' /\ LocalType' /\ HeapType' /\ HistoryType'
         /\ pc'["W"] = l /\ pc'["O"] = pc["O"]
  <1>1. pc \in [Cores -> Label]
    BY DEF TypeInv, PosType
  <1>2. pc' \in [Cores -> Label] /\ pc'["W"] = l /\ pc'["O"] = pc["O"]
    BY <1>1 DEF Label, Cores
  <1>3. \A c \in Cores : pc'[c] = pc[c] \/ pc'[c] = l
    BY <1>2 DEF Cores
  <1>4. PosType'
    BY <1>2, <1>3 DEF TypeInv, PosType, Working
  <1>5. LocalType' /\ HeapType' /\ HistoryType'
    BY <1>3 DEF TypeInv, LocalType, HeapType, HistoryType, localvars, nfvars
  <1> QED
    BY <1>2, <1>4, <1>5

(* The packets of q and of the NIC return to the owner. *)
LEMMA TypeTransfer ==
  ASSUME TypeInv, NEW n \in 0 .. BURST, Transfer(n) PROVE TypeInv'
  <1>0. n \in Nat /\ next \in Nat \ {0}
    BY Sizes DEF TypeInv, RingType
  <1>1. /\ [k \in 1 .. n |-> next + k - 1] \in Seq(Nat) /\ q \in Seq(Nat) /\ <<>> \in Seq(Nat)
        /\ Len(<<>>) = 0
    BY <1>0, Arrivals, EmptySeq DEF TypeInv, RingType
  <1>2. myring' \in Seq(Nat) /\ q' = <<>>
    BY <1>1, ConcatProperties DEF Transfer
  <1>3. next' \in 1 .. MaxPkts + 1
    BY <1>0, Sizes DEF Transfer
  <1>4. RingType'
    BY <1>1, <1>2, <1>3, Sizes DEF Transfer, TypeInv, RingType, outvars
  <1>5. PosType' /\ LocalType' /\ HeapType' /\ HistoryType'
    BY DEF Transfer, TypeInv, PosType, LocalType, HeapType, HistoryType, posvars, localvars, nfvars
  <1>6. WorkType'
    BY DEF Transfer, TypeInv, WorkType, posvars
  <1> QED
    BY <1>4, <1>5, <1>6 DEF TypeInv

(* The NIC gives the owner a burst. *)
LEMMA TypeReceive ==
  ASSUME TypeInv, NEW n \in 1 .. BURST, Receive(n) PROVE TypeInv'
  <1>0. n \in Nat /\ n <= BURST /\ next \in Nat \ {0}
    BY Sizes DEF TypeInv, RingType
  <1>1. burst' \in Seq(Nat) /\ Len(burst') = n
    BY <1>0, Arrivals DEF Receive
  <1>2. next' \in 1 .. MaxPkts + 1
    BY <1>0, Sizes DEF Receive
  <1>3. RingType'
    BY <1>1, <1>2 DEF Receive, TypeInv, RingType, ringvars, outvars
  <1>4. /\ PosType' /\ LocalType' /\ HeapType' /\ HistoryType'
        /\ pc'["W"] = "run" /\ pc'["O"] = pc["O"]
    BY InputType DEF Receive, posvars
  <1>5. off_pkts = <<>> /\ batch["W"] = <<>> /\ Len(<<>>) = 0
    BY EmptySeq DEF Receive, TypeInv, WorkType, Cores
  <1>6. ~myown' /\ off_pkts' = off_pkts /\ batch' = batch
    BY DEF Receive, ringvars, posvars
  <1>7. WorkType'
    BY <1>0, <1>1, <1>4, <1>5, <1>6 DEF TypeInv, WorkType, Cores
  <1> QED
    BY <1>3, <1>4, <1>7 DEF TypeInv

(* A packet of the burst is classified. *)
LEMMA TypeRun ==
  ASSUME TypeInv, Run PROVE TypeInv'
  <1>0. /\ burst \in Seq(Nat) /\ off_pkts \in Seq(Nat) /\ burst # <<>>
        /\ batch \in [Cores -> Seq(Nat)] /\ batch["W"] \in Seq(Nat) /\ pc["W"] = "run"
    BY DEF Run, TypeInv, RingType, PosType, Cores
  <1>1. /\ burst' = Tail(burst) /\ Head(burst) \in Nat /\ Tail(burst) \in Seq(Nat)
        /\ Len(Tail(burst)) = Len(burst) - 1 /\ Len(burst) \in Nat
    BY <1>0, HeadTailProperties, LenProperties DEF Run
  <1>2. \/ /\ off_pkts' = Append(off_pkts, Head(burst)) /\ batch' = batch
           /\ offloaded' = offloaded \union {Head(burst)}
        \/ /\ batch' = [batch EXCEPT !["W"] = Append(batch["W"], Head(burst))]
           /\ off_pkts' = off_pkts /\ offloaded' = offloaded
    BY DEF Run
  <1>3. /\ Append(off_pkts, Head(burst)) \in Seq(Nat)
        /\ Len(Append(off_pkts, Head(burst))) = Len(off_pkts) + 1
        /\ Append(batch["W"], Head(burst)) \in Seq(Nat)
        /\ Len(Append(batch["W"], Head(burst))) = Len(batch["W"]) + 1
        /\ Len(off_pkts) \in Nat /\ Len(batch["W"]) \in Nat
    BY <1>0, <1>1, AppendProperties, LenProperties
  <1>4. RingType'
    BY <1>1, <1>2, <1>3 DEF Run, TypeInv, RingType, ringvars, outvars
  <1>5. /\ batch' \in [Cores -> Seq(Nat)] /\ batch'["O"] = batch["O"]
        /\ \/ Len(off_pkts') = Len(off_pkts) + 1 /\ Len(batch'["W"]) = Len(batch["W"])
           \/ Len(off_pkts') = Len(off_pkts) /\ Len(batch'["W"]) = Len(batch["W"]) + 1
    <2>1. CASE off_pkts' = Append(off_pkts, Head(burst)) /\ batch' = batch
      BY <1>0, <1>3, <2>1
    <2>2. CASE /\ batch' = [batch EXCEPT !["W"] = Append(batch["W"], Head(burst))]
               /\ off_pkts' = off_pkts
      <3>1. /\ batch'["W"] = Append(batch["W"], Head(burst)) /\ batch'["O"] = batch["O"]
            /\ batch' \in [Cores -> Seq(Nat)]
        BY <1>0, <1>3, <2>2 DEF Cores
      <3> QED
        BY <1>3, <2>2, <3>1
    <2> QED
      BY <1>2, <2>1, <2>2
  <1>6. UNCHANGED <<pc, at, nf, myown, localvars, nfvars>>
    BY DEF Run, ringvars
  <1>7. PosType'
    BY <1>0, <1>5, <1>6 DEF TypeInv, PosType, Working, Cores
  <1>8. LocalType' /\ HeapType' /\ HistoryType'
    BY <1>6 DEF TypeInv, LocalType, HeapType, HistoryType, localvars, nfvars
  <1>9. WorkType'
    <2>1. Len(burst') + Len(off_pkts') + Len(batch'["W"]) <= BURST
      <3>1. Len(burst) + Len(off_pkts) + Len(batch["W"]) <= BURST
        BY DEF TypeInv, WorkType
      <3> DEFINE x == Len(burst)
                 y == Len(off_pkts)
                 z == Len(batch["W"])
      <3>2. /\ x \in Nat /\ y \in Nat /\ z \in Nat /\ x + y + z <= BURST /\ BURST \in Nat
            /\ Len(burst') = x - 1
            /\ \/ Len(off_pkts') = y + 1 /\ Len(batch'["W"]) = z
               \/ Len(off_pkts') = y /\ Len(batch'["W"]) = z + 1
        BY <1>1, <1>3, <1>5, <3>1, Sizes
      <3> HIDE DEF x, y, z
      <3>3. (x - 1) + (y + 1) + z <= BURST /\ (x - 1) + y + (z + 1) <= BURST
        BY <3>2
      <3> QED
        BY <3>2, <3>3
    <2>2. ~myown
      BY <1>0 DEF TypeInv, WorkType
    <2> QED
      BY <1>0, <1>5, <1>6, <2>1, <2>2 DEF TypeInv, WorkType, Cores
  <1> QED
    BY <1>4, <1>7, <1>8, <1>9 DEF TypeInv

(* Packets are left to O, as far as q has room. *)
LEMMA TypeEnqueue ==
  ASSUME TypeInv, Enqueue PROVE TypeInv'
  <1> DEFINE n == QSIZE - Len(q)
  <1>0. q \in Seq(Nat) /\ Len(q) \in Nat /\ Len(q) <= QSIZE /\ off_pkts \in Seq(Nat)
    BY LenProperties DEF TypeInv, RingType
  <1>1. n \in Nat
    BY <1>0, Sizes
  <1>2. q' = q \o Front(off_pkts, n) /\ leaked' = leaked \union Elements(Rest(off_pkts, n))
        /\ off_pkts' = <<>>
    BY DEF Enqueue
  <1> HIDE DEF n
  <1>3. /\ Front(off_pkts, n) \in Seq(Nat) /\ Rest(off_pkts, n) \in Seq(Nat)
        /\ Len(Front(off_pkts, n)) \in Nat /\ Len(Front(off_pkts, n)) <= n
    BY <1>0, <1>1, Split, LenProperties
  <1>4. q' \in Seq(Nat) /\ Len(q') = Len(q) + Len(Front(off_pkts, n))
    BY <1>0, <1>2, <1>3, ConcatProperties
  <1>5. Len(q') <= QSIZE
    BY <1>0, <1>3, <1>4, Sizes DEF n
  <1>6. leaked' \subseteq Nat
    BY <1>2, <1>3, ByPosition DEF TypeInv, RingType
  <1>7. RingType'
    BY <1>2, <1>4, <1>5, <1>6, EmptySeq DEF Enqueue, TypeInv, RingType
  <1>8. /\ PosType' /\ LocalType' /\ HeapType' /\ HistoryType'
        /\ pc'["W"] = "top" /\ pc'["O"] = pc["O"]
    BY InputType DEF Enqueue, posvars
  <1>9. WorkType'
    <2>1. batch["W"] = <<>> /\ burst = <<>> /\ Len(<<>>) = 0
      BY EmptySeq DEF Enqueue, TypeInv, WorkType, Cores
    <2>2. batch' = batch /\ burst' = burst
      BY DEF Enqueue, posvars
    <2> QED
      BY <1>2, <1>8, <2>1, <2>2, Sizes DEF TypeInv, WorkType, Cores
  <1> QED
    BY <1>7, <1>8, <1>9 DEF TypeInv

(* Batches start: from the ring, from a burst and from q. *)
LEMMA TypeStarts ==
  ASSUME TypeInv, DrainBatch \/ DrainEnd \/ RunEnd \/ DequeueBurst PROVE TypeInv'
  <1>0. /\ q \in Seq(Nat) /\ myring \in Seq(Nat) /\ BURST \in Nat /\ BURST > 0
        /\ batch \in [Cores -> Seq(Nat)] /\ batch["W"] \in Seq(Nat) /\ batch["O"] \in Seq(Nat)
        /\ "W" \in Cores /\ "O" \in Cores /\ Cores \ {"W"} = {"O"} /\ Cores \ {"O"} = {"W"}
    BY Sizes DEF TypeInv, RingType, PosType, Cores
  <1>1. ASSUME NEW s \in Seq(Nat), s # <<>>
        PROVE  /\ Front(s, BURST) \in Seq(Nat) /\ Front(s, BURST) # <<>>
               /\ Len(Front(s, BURST)) <= BURST /\ Rest(s, BURST) \in Seq(Nat)
               /\ Len(Rest(s, BURST)) <= Len(s)
    <2>1. Len(s) \in Nat \ {0} /\ Len(<<>>) = 0
      BY <1>1, EmptySeq
    <2> DEFINE m == Least(BURST, Len(s))
    <2>2. /\ m \in 0 .. Len(s) /\ m <= BURST /\ (m = Len(s) \/ m = BURST)
          /\ Front(s, BURST) \in Seq(Nat) /\ Rest(s, BURST) \in Seq(Nat)
          /\ Len(Front(s, BURST)) = m /\ Len(Rest(s, BURST)) = Len(s) - m
      BY <1>0, Split
    <2> HIDE DEF m
    <2> QED
      BY <1>0, <2>1, <2>2
  <1>2. CASE DrainBatch
    <2>1. /\ myring # <<>> /\ Push("W", Front(myring, BURST)) /\ myring' = Rest(myring, BURST)
          /\ UNCHANGED <<inputvars, q, myown, localvars, nfvars, outvars>> /\ myown
      BY <1>2 DEF DrainBatch
    <2>2. RingType'
      BY <1>0, <1>1, <2>1 DEF TypeInv, RingType, inputvars, outvars
    <2>3. /\ PosType' /\ HeapType' /\ pc'["W"] = "load" /\ batch'["W"] = Front(myring, BURST)
          /\ pc'["O"] = pc["O"] /\ batch'["O"] = batch["O"]
      BY <1>0, <1>1, <2>1, PushType DEF localvars, nfvars
    <2>4. LocalType' /\ HistoryType'
      BY <2>1 DEF TypeInv, LocalType, HistoryType, localvars, nfvars
    <2>5. WorkType'
      <3>1. burst = <<>> /\ off_pkts = <<>> /\ Len(<<>>) = 0
        BY <2>1, EmptySeq DEF TypeInv, WorkType
      <3>2. burst' = burst /\ off_pkts' = off_pkts
        BY <2>1 DEF inputvars
      <3>3. Len(batch'["W"]) <= BURST /\ Len(batch'["W"]) \in Nat
        BY <1>0, <1>1, <2>1, <2>3, LenProperties
      <3> QED
        BY <1>0, <2>3, <3>1, <3>2, <3>3 DEF TypeInv, WorkType, Cores
    <2> QED
      BY <2>2, <2>3, <2>4, <2>5 DEF TypeInv
  <1>3. CASE DrainEnd
    <2>1. RingType'
      BY <1>3 DEF DrainEnd, TypeInv, RingType, inputvars, outvars
    <2>2. PosType' /\ LocalType' /\ HeapType' /\ HistoryType'
      BY <1>3 DEF DrainEnd, TypeInv, PosType, LocalType, HeapType, HistoryType, posvars,
                  localvars, nfvars
    <2>3. WorkType'
      BY <1>3 DEF DrainEnd, TypeInv, WorkType, inputvars, posvars
    <2> QED
      BY <2>1, <2>2, <2>3 DEF TypeInv
  <1>4. CASE RunEnd
    <2>1. /\ pc["W"] = "run" /\ burst = <<>>
          /\ UNCHANGED <<inputvars, ringvars, localvars, nfvars, outvars>>
      BY <1>4 DEF RunEnd
    <2>2. RingType' /\ LocalType' /\ HistoryType'
      BY <2>1 DEF TypeInv, RingType, LocalType, HistoryType, inputvars, ringvars, localvars, nfvars,
                  outvars
    <2>3. CASE batch["W"] = <<>>
      <3>1. pc' = [pc EXCEPT !["W"] = "enqueue"] /\ UNCHANGED posvars
        BY <1>4, <2>3 DEF RunEnd
      <3>2. PosType' /\ HeapType' /\ pc'["W"] = "enqueue" /\ pc'["O"] = pc["O"]
        BY <2>1, <3>1, InputType DEF posvars
      <3>3. WorkType'
        BY <2>1, <2>3, <3>1, <3>2 DEF TypeInv, WorkType, Cores, inputvars, ringvars, posvars
      <3> QED
        BY <2>2, <3>2, <3>3 DEF TypeInv
    <2>4. CASE batch["W"] # <<>>
      <3>1. Push("W", batch["W"])
        BY <1>4, <2>4 DEF RunEnd
      <3>2. /\ PosType' /\ HeapType' /\ pc'["W"] = "load" /\ batch'["W"] = batch["W"]
            /\ pc'["O"] = pc["O"] /\ batch'["O"] = batch["O"]
        BY <1>0, <2>1, <2>4, <3>1, PushType DEF localvars, nfvars
      <3>3. WorkType'
        BY <2>1, <3>2 DEF TypeInv, WorkType, Cores, inputvars, ringvars
      <3> QED
        BY <2>2, <3>2, <3>3 DEF TypeInv
    <2> QED
      BY <2>3, <2>4
  <1>5. CASE DequeueBurst
    <2>1. /\ q # <<>> /\ Push("O", Front(q, BURST)) /\ q' = Rest(q, BURST)
          /\ UNCHANGED <<inputvars, myring, myown, localvars, nfvars, outvars>>
      BY <1>5 DEF DequeueBurst
    <2>2. RingType'
      <3>1. Len(q') <= Len(q) /\ q' \in Seq(Nat) /\ Len(q) <= QSIZE
        BY <1>0, <1>1, <2>1 DEF TypeInv, RingType
      <3>2. Len(q') <= QSIZE
        BY <1>0, <3>1, LenProperties, Sizes
      <3> QED
        BY <2>1, <3>1, <3>2 DEF TypeInv, RingType, inputvars, outvars
    <2>3. /\ PosType' /\ HeapType' /\ pc'["O"] = "load" /\ batch'["O"] = Front(q, BURST)
          /\ pc'["W"] = pc["W"] /\ batch'["W"] = batch["W"]
      BY <1>0, <1>1, <2>1, PushType DEF localvars, nfvars
    <2>4. LocalType' /\ HistoryType'
      BY <2>1 DEF TypeInv, LocalType, HistoryType, localvars, nfvars
    <2>5. WorkType'
      BY <1>0, <1>1, <2>1, <2>3 DEF TypeInv, WorkType, Cores, inputvars
    <2> QED
      BY <2>2, <2>3, <2>4, <2>5 DEF TypeInv
  <1> QED
    BY <1>2, <1>3, <1>4, <1>5

(* A step of core c within the chain leaves the packets where they are. *)
LEMMA ChainRings ==
  ASSUME TypeInv, NEW c \in Cores, Load(c) \/ Install(c) \/ Read(c) \/ NaptUpdate(c) \/ IdsUpdate(c)
  PROVE  /\ RingType' /\ batch' = batch /\ UNCHANGED <<inputvars, ringvars, outvars>>
         /\ pc[c] \in Working /\ \A d \in Cores \ {c} : pc'[d] = pc[d] /\ at'[d] = at[d] /\ nf'[d] = nf[d]
                                                  /\ state'[d] = state[d]
  <1>1. /\ batch' = batch /\ UNCHANGED <<inputvars, ringvars, outvars>> /\ pc[c] \in Working
    BY DEF Load, Install, Read, NaptUpdate, IdsUpdate, Advance, Working, posvars
  <1>2. RingType'
    BY <1>1 DEF TypeInv, RingType, inputvars, ringvars, outvars
  <1>3. DOMAIN pc = Cores /\ DOMAIN at = Cores /\ DOMAIN nf = Cores /\ DOMAIN state = Cores
    BY DEF TypeInv, PosType, LocalType
  <1>4. \A d \in Cores \ {c} : pc'[d] = pc[d] /\ at'[d] = at[d] /\ nf'[d] = nf[d] /\ state'[d] = state[d]
    BY <1>3 DEF Load, Install, Read, NaptUpdate, IdsUpdate, Advance, posvars
  <1> QED
    BY <1>1, <1>2, <1>4

(* ... and its label moves within the chain, to "tx" at its end. *)
LEMMA ChainWork ==
  ASSUME TypeInv, NEW c \in Cores, pc[c] \in Working,
         UNCHANGED <<inputvars, ringvars, batch>>, pc'[c] \in Working \union {"tx"},
         \A d \in Cores \ {c} : pc'[d] = pc[d]
  PROVE  WorkType'
  <1>1. UNCHANGED <<burst, off_pkts, myown, batch>>
    BY DEF inputvars, ringvars
  <1>2. pc'["W"] = pc["W"] \/ (pc["W"] \in Working /\ pc'["W"] \in Working \union {"tx"})
    <2>1. CASE c = "W"
      BY <2>1
    <2>2. CASE c = "O"
      <3>1. "W" \in Cores \ {c}
        BY <2>2 DEF Cores
      <3> QED
        BY <3>1
    <2> QED
      BY <2>1, <2>2 DEF Cores
  <1>3. pc'["O"] = pc["O"] \/ (pc["O"] \in Working /\ pc'["O"] \in Working \union {"tx"})
    <2>1. CASE c = "O"
      BY <2>1
    <2>2. CASE c = "W"
      <3>1. "O" \in Cores \ {c}
        BY <2>2 DEF Cores
      <3> QED
        BY <3>1
    <2> QED
      BY <2>1, <2>2 DEF Cores
  <1> QED
    BY <1>1, <1>2, <1>3 DEF TypeInv, WorkType, Working, Cores

(* A state that is found has been allocated. *)
LEMMA TypeLoad ==
  ASSUME TypeInv, NEW c \in Cores, Load(c) PROVE TypeInv'
  <1>0. /\ pc \in [Cores -> Label] /\ nf \in [Cores -> NF] /\ nf[c] \in NF /\ pc[c] = "load"
        /\ state \in [Cores -> Nat] /\ global_state[nf[c]] \in Nat
        /\ heap[nf[c]] \in Seq(NFState) /\ global_state[nf[c]] <= Len(heap[nf[c]])
    BY DEF Load, TypeInv, PosType, LocalType, HeapType
  <1>1. /\ state' = [state EXCEPT ![c] = global_state[nf[c]]]
        /\ pc' = [pc EXCEPT ![c] = IF global_state[nf[c]] = 0 THEN "install" ELSE "read"]
        /\ UNCHANGED <<posvars, tmp, class, global_state, heap, handled, log>>
        /\ met' \subseteq met \union NF
    BY DEF Load
  <1>2. /\ RingType' /\ batch' = batch /\ UNCHANGED <<inputvars, ringvars, outvars>>
        /\ pc[c] \in Working /\ \A d \in Cores \ {c} : pc'[d] = pc[d] /\ state'[d] = state[d]
    BY ChainRings
  <1>3. /\ pc'[c] = IF global_state[nf[c]] = 0 THEN "install" ELSE "read"
        /\ state'[c] = global_state[nf[c]]
    BY <1>0, <1>1
  <1>4. PosType'
    <2>1. pc' \in [Cores -> Label]
      BY <1>0, <1>1 DEF Label
    <2>2. pc'["O"] \notin {"run", "enqueue"}
      BY <1>2, <1>3 DEF TypeInv, PosType, Cores
    <2> QED
      BY <1>1, <1>2, <1>3, <2>1, <2>2 DEF TypeInv, PosType, posvars
  <1>5. LocalType'
    BY <1>0, <1>1 DEF TypeInv, LocalType
  <1>6. HistoryType'
    BY <1>1 DEF TypeInv, HistoryType
  <1>7. HeapType'
    <2>1. pc'[c] = "read" => state'[c] \in 1 .. Len(heap[nf[c]])
      <3>1. Len(heap[nf[c]]) \in Nat
        BY <1>0, LenProperties
      <3> QED
        BY <1>0, <1>3, <3>1
    <2> QED
      BY <1>1, <1>2, <1>3, <2>1 DEF TypeInv, HeapType, posvars
  <1>8. WorkType'
    BY <1>2, <1>3, ChainWork DEF Working
  <1> QED
    BY <1>2, <1>4, <1>5, <1>6, <1>7, <1>8 DEF TypeInv

(* A new state is the last one allocated. *)
LEMMA TypeInstall ==
  ASSUME TypeInv, NEW c \in Cores, Install(c) PROVE TypeInv'
  <1> DEFINE h == nf[c]
             l == Len(heap[h]) + 1
  <1>0. /\ pc \in [Cores -> Label] /\ h \in NF /\ pc[c] = "install"
        /\ state \in [Cores -> Nat] /\ global_state \in [NF -> Nat]
        /\ heap \in [NF -> Seq(NFState)] /\ heap[h] \in Seq(NFState) /\ Len(heap[h]) \in Nat
    <2>1. /\ pc \in [Cores -> Label] /\ h \in NF /\ pc[c] = "install"
          /\ state \in [Cores -> Nat] /\ global_state \in [NF -> Nat]
          /\ heap \in [NF -> Seq(NFState)] /\ heap[h] \in Seq(NFState)
      BY DEF Install, TypeInv, PosType, LocalType, HeapType
    <2> QED
      BY <2>1, LenProperties
  <1>1. /\ heap' = [heap EXCEPT ![h] = Append(heap[h], NewState)]
        /\ state' = [state EXCEPT ![c] = Len(heap'[h])]
        /\ global_state' = [global_state EXCEPT ![h] = Len(heap'[h])]
        /\ pc' = [pc EXCEPT ![c] = "read"]
        /\ UNCHANGED <<posvars, tmp, class, handled, log, met>>
    BY DEF Install
  <1>2. /\ RingType' /\ batch' = batch /\ UNCHANGED <<inputvars, ringvars, outvars>>
        /\ pc[c] \in Working /\ \A d \in Cores \ {c} : pc'[d] = pc[d] /\ state'[d] = state[d]
    BY ChainRings
  <1>3. Append(heap[h], NewState) \in Seq(NFState) /\ Len(Append(heap[h], NewState)) = l
    BY <1>0, NewStateType, AppendProperties
  <1> HIDE DEF h
  <1>4. /\ heap' \in [NF -> Seq(NFState)] /\ Len(heap'[h]) = l /\ l \in Nat
        /\ \A g \in NF \ {h} : heap'[g] = heap[g]
    BY <1>0, <1>1, <1>3
  <1>5. /\ state' \in [Cores -> Nat] /\ global_state' \in [NF -> Nat]
        /\ state'[c] = l /\ global_state'[h] = l
        /\ \A g \in NF \ {h} : global_state'[g] = global_state[g]
    BY <1>0, <1>1, <1>4
  <1>6. pc' \in [Cores -> Label] /\ pc'[c] = "read"
    BY <1>0, <1>1 DEF Label
  <1>7. PosType'
    <2>1. pc'["O"] \notin {"run", "enqueue"}
      BY <1>2, <1>6 DEF TypeInv, PosType, Cores
    <2> QED
      BY <1>1, <1>2, <1>6, <2>1 DEF TypeInv, PosType, posvars
  <1>8. LocalType' /\ HistoryType'
    BY <1>1, <1>5 DEF TypeInv, LocalType, HistoryType
  <1>9. HeapType'
    <2>1. ASSUME NEW g \in NF PROVE global_state'[g] <= Len(heap'[g])
      <3>1. CASE g = h
        <4> HIDE DEF l
        <4> QED
          BY <1>4, <1>5, <3>1
      <3>2. CASE g # h
        BY <1>4, <1>5, <3>2 DEF TypeInv, HeapType
      <3> QED
        BY <3>1, <3>2
    <2>2. ASSUME NEW d \in Cores, pc'[d] \in {"read", "write"}
          PROVE  state'[d] \in 1 .. Len(heap'[nf[d]])
      <3>1. CASE d = c
        BY <1>0, <1>4, <1>5, <3>1 DEF h
      <3>2. CASE d # c
        <4>1. state'[d] = state[d] /\ state[d] \in 1 .. Len(heap[nf[d]]) /\ nf[d] \in NF
          BY <1>2, <2>2, <3>2 DEF TypeInv, HeapType, PosType
        <4>2. CASE nf[d] = h
          <5>1. Len(heap'[nf[d]]) = Len(heap[nf[d]]) + 1 /\ Len(heap[nf[d]]) \in Nat
            BY <1>0, <1>4, <4>2
          <5> QED
            BY <4>1, <5>1
        <4>3. CASE nf[d] # h
          BY <1>4, <4>1, <4>3
        <4> QED
          BY <4>2, <4>3
      <3> QED
        BY <3>1, <3>2
    <2> QED
      BY <1>1, <1>4, <1>5, <2>1, <2>2 DEF HeapType, posvars
  <1>10. WorkType'
    BY <1>2, <1>6, ChainWork DEF Working
  <1> QED
    BY <1>2, <1>7, <1>8, <1>9, <1>10 DEF TypeInv

(* What a core reads is a counter. *)
LEMMA TypeRead ==
  ASSUME TypeInv, NEW c \in Cores, Read(c) PROVE TypeInv'
  <1>0. /\ pc \in [Cores -> Label] /\ nf[c] \in NF /\ pc[c] = "read"
        /\ tmp \in [Cores -> 0 .. WORD - 1] /\ class \in [Cores -> Class]
        /\ heap[nf[c]] \in Seq(NFState) /\ state[c] \in 1 .. Len(heap[nf[c]])
    BY DEF Read, TypeInv, PosType, LocalType, HeapType
  <1>1. PICK k \in Class :
            /\ class' = [class EXCEPT ![c] = k]
            /\ tmp' = [tmp EXCEPT ![c] = heap[nf[c]][state[c]].cnt[k]]
    BY DEF Read, Class
  <1>2. /\ RingType' /\ batch' = batch /\ UNCHANGED <<inputvars, ringvars, outvars>>
        /\ pc[c] \in Working /\ \A d \in Cores \ {c} : pc'[d] = pc[d]
    BY ChainRings
  <1>3. pc' = [pc EXCEPT ![c] = "write"] /\ UNCHANGED <<posvars, state, nfvars>>
    BY DEF Read
  <1>4. heap[nf[c]][state[c]].cnt[k] \in 0 .. WORD - 1
    <2>1. heap[nf[c]][state[c]] \in NFState
      BY <1>0, ElementOfSeq
    <2> QED
      BY <2>1 DEF NFState
  <1>5. LocalType'
    BY <1>0, <1>1, <1>3, <1>4 DEF TypeInv, LocalType
  <1>6. pc' \in [Cores -> Label] /\ pc'[c] = "write"
    BY <1>0, <1>3 DEF Label
  <1>7. PosType'
    <2>1. pc'["O"] \notin {"run", "enqueue"}
      BY <1>2, <1>6 DEF TypeInv, PosType, Cores
    <2> QED
      BY <1>2, <1>3, <1>6, <2>1 DEF TypeInv, PosType, posvars
  <1>8. HeapType' /\ HistoryType'
    BY <1>0, <1>2, <1>3 DEF TypeInv, HeapType, HistoryType, nfvars, posvars
  <1>9. WorkType'
    BY <1>2, <1>6, ChainWork DEF Working
  <1> QED
    BY <1>2, <1>5, <1>7, <1>8, <1>9 DEF TypeInv

(* A write to one state leaves the others, and their number, as they are. *)
LEMMA HeapWrite ==
  ASSUME NEW hp \in [NF -> Seq(NFState)], NEW h \in NF, NEW i \in 1 .. Len(hp[h]), NEW s \in NFState,
         NEW new, new = [hp EXCEPT ![h] = [hp[h] EXCEPT ![i] = s]]
  PROVE  /\ new \in [NF -> Seq(NFState)] /\ \A g \in NF : Len(new[g]) = Len(hp[g])
         /\ \A g \in NF \ {h} : new[g] = hp[g]
         /\ new[h][i] = s /\ \A j \in (1 .. Len(hp[h])) \ {i} : new[h][j] = hp[h][j]
  <1>1. hp[h] \in Seq(NFState)
    OBVIOUS
  <1> DEFINE t == [hp[h] EXCEPT ![i] = s]
  <1>2. /\ t \in Seq(NFState) /\ Len(t) = Len(hp[h])
        /\ \A j \in 1 .. Len(hp[h]) : t[j] = IF j = i THEN s ELSE hp[h][j]
    BY <1>1, ExceptSeq
  <1>3. new = [hp EXCEPT ![h] = t]
    OBVIOUS
  <1> HIDE DEF t
  <1>4. new[h] = t /\ (\A g \in NF \ {h} : new[g] = hp[g]) /\ new \in [NF -> Seq(NFState)]
    BY <1>2, <1>3
  <1>5. \A g \in NF : Len(new[g]) = Len(hp[g])
    BY <1>2, <1>4
  <1> QED
    BY <1>2, <1>4, <1>5

(* What the update of a function writes: the state s in place of the one    *)
(* core c holds.                                                            *)
NaptState(c) ==
    [cnt |-> [heap[1][state[c]].cnt EXCEPT !["found"] = (tmp[c] + 1) % WORD],
     ring |-> heap[1][state[c]].ring]
IdsState(c) ==
    LET s == heap[2][state[c]]
    IN  [cnt |-> [s.cnt EXCEPT ![class[c]] = (tmp[c] + 1) % WORD],
         ring |-> [s.ring EXCEPT ![class[c]] = [@ EXCEPT ![Slot(tmp[c])] = Pkt(c)]]]

(* A write to a counter of a state. *)
LEMMA CountWrite ==
  ASSUME NEW s \in NFState, NEW k, NEW v
  PROVE  [s EXCEPT !.cnt[k] = v] = [cnt |-> [s.cnt EXCEPT ![k] = v], ring |-> s.ring]
  <1>1. s = [cnt |-> s.cnt, ring |-> s.ring]
    BY DEF NFState
  <1> QED
    BY <1>1

(* DyNAPT's update as a write of one state. *)
LEMMA NaptWrite ==
  ASSUME TypeInv, NEW c \in Cores, NaptUpdate(c)
  PROVE  /\ NaptState(c) \in NFState /\ state[c] \in 1 .. Len(heap[1])
         /\ heap' = [heap EXCEPT ![1] = [heap[1] EXCEPT ![state[c]] = NaptState(c)]]
  <1>1. /\ pc[c] = "write" /\ nf[c] = 1 /\ heap \in [NF -> Seq(NFState)] /\ 1 \in NF
        /\ heap[1] \in Seq(NFState) /\ state[c] \in 1 .. Len(heap[1])
        /\ tmp[c] \in 0 .. WORD - 1
    BY DEF NaptUpdate, TypeInv, LocalType, HeapType, NF
  <1>2. heap[1][state[c]] \in NFState
    BY <1>1, ElementOfSeq
  <1>3. (tmp[c] + 1) % WORD \in 0 .. WORD - 1
    BY <1>1, Sizes
  <1>4. NaptState(c) \in NFState
    BY <1>2, <1>3 DEF NaptState, NFState
  <1>5. heap' = [heap EXCEPT ![1][state[c]].cnt["found"] = (tmp[c] + 1) % WORD]
    BY DEF NaptUpdate
  <1>6. NaptState(c) = [heap[1][state[c]] EXCEPT !.cnt["found"] = (tmp[c] + 1) % WORD]
    <2> DEFINE s == heap[1][state[c]]
               v == (tmp[c] + 1) % WORD
    <2>1. s \in NFState /\ NaptState(c) = [cnt |-> [s.cnt EXCEPT !["found"] = v], ring |-> s.ring]
      BY <1>2 DEF NaptState
    <2> HIDE DEF s, v
    <2>2. NaptState(c) = [s EXCEPT !.cnt["found"] = v]
      BY <2>1, CountWrite
    <2> QED
      BY <2>2 DEF s, v
  <1> QED
    BY <1>1, <1>4, <1>5, <1>6

(* DyIDS's update as a write of one state. *)
LEMMA IdsWrite ==
  ASSUME TypeInv, NEW c \in Cores, IdsUpdate(c)
  PROVE  /\ IdsState(c) \in NFState /\ state[c] \in 1 .. Len(heap[2]) /\ Pkt(c) \in Nat
         /\ heap' = [heap EXCEPT ![2] = [heap[2] EXCEPT ![state[c]] = IdsState(c)]]
  <1>1. /\ pc[c] = "write" /\ nf[c] = 2 /\ heap \in [NF -> Seq(NFState)] /\ 2 \in NF
        /\ heap[2] \in Seq(NFState) /\ state[c] \in 1 .. Len(heap[2])
        /\ tmp[c] \in 0 .. WORD - 1 /\ class[c] \in Class
        /\ batch[c] \in Seq(Nat) /\ at[c] \in 1 .. Len(batch[c])
    BY DEF IdsUpdate, TypeInv, LocalType, HeapType, PosType, NF, Working
  <1>2. heap[2][state[c]] \in NFState
    BY <1>1, ElementOfSeq
  <1>3. (tmp[c] + 1) % WORD \in 0 .. WORD - 1 /\ Slot(tmp[c]) \in 0 .. ENTRIES - 1
    <2> DEFINE t == tmp[c]
    <2>1. t \in Nat
      BY <1>1, Sizes
    <2> HIDE DEF t
    <2>2. (t + 1) % WORD \in 0 .. WORD - 1 /\ t % ENTRIES \in 0 .. ENTRIES - 1
      BY <2>1, Sizes
    <2> QED
      BY <2>2 DEF t, Slot
  <1>4. Pkt(c) \in Nat
    BY <1>1, ElementOfSeq DEF Pkt
  <1>5. IdsState(c) \in NFState
    BY <1>1, <1>2, <1>3, <1>4 DEF IdsState, NFState
  <1>6. heap' = [heap EXCEPT ![2][state[c]] =
          [cnt |-> [@.cnt EXCEPT ![class[c]] = (tmp[c] + 1) % WORD],
           ring |-> [@.ring EXCEPT ![class[c]][Slot(tmp[c])] = Pkt(c)]]]
    BY DEF IdsUpdate
  <1>7. heap' = [heap EXCEPT ![2] = [heap[2] EXCEPT ![state[c]] = IdsState(c)]]
    BY <1>6 DEF IdsState
  <1> QED
    BY <1>1, <1>4, <1>5, <1>7

(* After an update the core goes on to a packet it has, or to "tx". *)
LEMMA AdvanceType ==
  ASSUME TypeInv, NEW c \in Cores, pc[c] = "write", Advance(c)
  PROVE  /\ PosType' /\ LocalType' /\ pc'[c] \in {"load", "tx"}
  <1>0. /\ pc \in [Cores -> Label] /\ pc["O"] \notin {"run", "enqueue"}
        /\ batch \in [Cores -> Seq(Nat)] /\ at \in [Cores -> Nat] /\ nf \in [Cores -> NF]
        /\ \A d \in Cores : pc[d] \in Working => at[d] \in 1 .. Len(batch[d])
        /\ at[c] \in 1 .. Len(batch[c]) /\ Len(batch[c]) \in Nat /\ nf[c] \in NF
    <2>1. /\ pc \in [Cores -> Label] /\ pc["O"] \notin {"run", "enqueue"}
          /\ batch \in [Cores -> Seq(Nat)] /\ at \in [Cores -> Nat] /\ nf \in [Cores -> NF]
          /\ \A d \in Cores : pc[d] \in Working => at[d] \in 1 .. Len(batch[d])
      BY DEF TypeInv, PosType
    <2>2. batch[c] \in Seq(Nat) /\ at[c] \in 1 .. Len(batch[c]) /\ nf[c] \in NF
      BY <2>1 DEF Working
    <2> QED
      BY <2>1, <2>2, LenProperties
  <1> DEFINE more == at[c] < Len(batch[c])
             a == IF more THEN at[c] + 1 ELSE 1
             f == IF more \/ nf[c] = 2 THEN nf[c] ELSE nf[c] + 1
             p == IF more \/ nf[c] = 1 THEN "load" ELSE "tx"
  <1>1. /\ at' = [at EXCEPT ![c] = a] /\ nf' = [nf EXCEPT ![c] = f] /\ pc' = [pc EXCEPT ![c] = p]
        /\ state' = [state EXCEPT ![c] = 0] /\ tmp' = [tmp EXCEPT ![c] = 0]
        /\ class' = [class EXCEPT ![c] = "found"] /\ batch' = batch
    BY DEF Advance
  <1>2. a \in 1 .. Len(batch[c]) /\ f \in NF /\ p \in {"load", "tx"}
    BY <1>0 DEF NF
  <1> HIDE DEF a, f, p
  <1>3. at' \in [Cores -> Nat] /\ nf' \in [Cores -> NF]
    BY <1>0, <1>1, <1>2
  <1>4. pc' \in [Cores -> Label] /\ pc'[c] = p /\ at'[c] = a
        /\ \A d \in Cores \ {c} : pc'[d] = pc[d] /\ at'[d] = at[d]
    BY <1>0, <1>1, <1>2 DEF Label
  <1>5. pc'["O"] \notin {"run", "enqueue"}
    BY <1>0, <1>2, <1>4 DEF Cores
  <1>6. PosType'
    BY <1>0, <1>1, <1>2, <1>3, <1>4, <1>5 DEF PosType
  <1>7. LocalType'
    BY <1>1, Sizes DEF TypeInv, LocalType, Class
  <1> QED
    BY <1>2, <1>4, <1>6, <1>7

(* The functions' updates keep every state's type and its place. *)
LEMMA TypeUpdates ==
  ASSUME TypeInv, NEW c \in Cores, NaptUpdate(c) \/ IdsUpdate(c)
  PROVE  TypeInv'
  <1>0. /\ RingType' /\ batch' = batch /\ UNCHANGED <<inputvars, ringvars, outvars>>
        /\ pc[c] \in Working
        /\ \A d \in Cores \ {c} : pc'[d] = pc[d] /\ nf'[d] = nf[d] /\ state'[d] = state[d]
    BY ChainRings
  <1>1. pc[c] = "write" /\ Advance(c) /\ UNCHANGED <<global_state, met>>
    BY DEF NaptUpdate, IdsUpdate
  <1>2. PosType' /\ LocalType' /\ pc'[c] \in {"load", "tx"}
    BY <1>1, AdvanceType
  <1>3. heap' \in [NF -> Seq(NFState)] /\ \A g \in NF : Len(heap'[g]) = Len(heap[g])
    <2>0. heap \in [NF -> Seq(NFState)] /\ 1 \in NF /\ 2 \in NF
      BY DEF TypeInv, HeapType, NF
    <2>1. CASE NaptUpdate(c)
      <3>1. /\ NaptState(c) \in NFState /\ state[c] \in 1 .. Len(heap[1])
            /\ heap' = [heap EXCEPT ![1] = [heap[1] EXCEPT ![state[c]] = NaptState(c)]]
        BY <2>1, NaptWrite
      <3> QED
        BY <2>0, <3>1, HeapWrite
    <2>2. CASE IdsUpdate(c)
      <3>1. /\ IdsState(c) \in NFState /\ state[c] \in 1 .. Len(heap[2])
            /\ heap' = [heap EXCEPT ![2] = [heap[2] EXCEPT ![state[c]] = IdsState(c)]]
        BY <2>2, IdsWrite
      <3> QED
        BY <2>0, <3>1, HeapWrite
    <2> QED
      BY <2>1, <2>2
  <1>4. HeapType'
    <2>1. \A d \in Cores : pc'[d] \in {"read", "write"} => state'[d] \in 1 .. Len(heap'[nf'[d]])
      BY <1>0, <1>2, <1>3 DEF TypeInv, HeapType, PosType
    <2> QED
      BY <1>1, <1>3, <2>1 DEF TypeInv, HeapType
  <1>5. HistoryType'
    <2>0. batch[c] \in Seq(Nat) /\ at[c] \in 1 .. Len(batch[c]) /\ class[c] \in Class
      BY <1>1 DEF TypeInv, PosType, LocalType, Working
    <2>1. Pkt(c) \in Nat
      BY <2>0, ElementOfSeq DEF Pkt
    <2>2. CASE NaptUpdate(c)
      <3>1. handled \in Seq(Nat \X Cores) /\ <<Pkt(c), c>> \in Nat \X Cores
        BY <2>1 DEF TypeInv, HistoryType
      <3>2. handled' \in Seq(Nat \X Cores) /\ log' = log
        BY <2>2, <3>1, AppendProperties DEF NaptUpdate
      <3> QED
        BY <1>1, <3>2 DEF TypeInv, HistoryType
    <2>3. CASE IdsUpdate(c)
      <3>1. log \in [Class -> Seq(Nat)] /\ log[class[c]] \in Seq(Nat)
        BY <2>0 DEF TypeInv, HistoryType
      <3>2. Append(log[class[c]], Pkt(c)) \in Seq(Nat)
        BY <2>1, <3>1, AppendProperties
      <3>3. log' \in [Class -> Seq(Nat)] /\ handled' = handled
        BY <2>3, <3>1, <3>2 DEF IdsUpdate
      <3> QED
        BY <1>1, <3>3 DEF TypeInv, HistoryType
    <2> QED
      BY <2>2, <2>3
  <1>6. WorkType'
    BY <1>0, <1>2, ChainWork DEF Working
  <1> QED
    BY <1>0, <1>2, <1>4, <1>5, <1>6 DEF TypeInv

(* A batch is given to the NIC. *)
LEMMA TypeTransmit ==
  ASSUME TypeInv, NEW c \in Cores, Transmit(c)
  PROVE  TypeInv'
  <1>0. /\ pc \in [Cores -> Label] /\ pc["O"] \notin {"run", "enqueue"} /\ pc[c] = "tx"
        /\ batch \in [Cores -> Seq(Nat)] /\ batch[c] \in Seq(Nat)
        /\ at \in [Cores -> Nat] /\ nf \in [Cores -> NF] /\ <<>> \in Seq(Nat) /\ Len(<<>>) = 0
    BY EmptySeq DEF TypeInv, PosType, Transmit
  <1> DEFINE p == IF c = "W" /\ ~myown THEN "enqueue" ELSE "top"
  <1>1. /\ pc' = [pc EXCEPT ![c] = p] /\ batch' = [batch EXCEPT ![c] = <<>>]
        /\ at' = [at EXCEPT ![c] = 1] /\ nf' = [nf EXCEPT ![c] = 1]
        /\ sent' = sent \union Elements(Front(batch[c], BURST))
        /\ UNCHANGED <<inputvars, ringvars, localvars, nfvars, leaked>>
    BY DEF Transmit, Send
  <1>2. /\ p \in {"enqueue", "top"} /\ (p = "enqueue" => c = "W" /\ ~myown)
        /\ (c = "W" /\ p = "top" => myown)
    OBVIOUS
  <1> HIDE DEF p
  <1>3. /\ pc' \in [Cores -> Label] /\ batch' \in [Cores -> Seq(Nat)] /\ at' \in [Cores -> Nat]
        /\ nf' \in [Cores -> NF]
    BY <1>0, <1>1, <1>2 DEF Label, NF
  <1>4. /\ pc'[c] = p /\ batch'[c] = <<>>
        /\ \A d \in Cores \ {c} : pc'[d] = pc[d] /\ batch'[d] = batch[d] /\ at'[d] = at[d]
                                  /\ nf'[d] = nf[d]
    BY <1>0, <1>1
  <1>5. pc'["O"] \notin {"run", "enqueue"}
    BY <1>0, <1>2, <1>4 DEF Cores
  <1>6. PosType'
    BY <1>0, <1>2, <1>3, <1>4, <1>5 DEF TypeInv, PosType, Working
  <1>7. HeapType'
    <2>1. UNCHANGED <<heap, global_state, state>>
      BY <1>1 DEF nfvars, localvars
    <2> QED
      BY <1>2, <1>4, <2>1 DEF TypeInv, HeapType
  <1>8. LocalType' /\ HistoryType'
    BY <1>1 DEF TypeInv, LocalType, HistoryType, localvars, nfvars
  <1>9. RingType'
    <2>1. Front(batch[c], BURST) \in Seq(Nat)
      BY <1>0, Sizes, Split
    <2>2. sent' \subseteq Nat
      BY <1>1, <2>1, ByPosition DEF TypeInv, RingType
    <2> QED
      BY <1>1, <2>2 DEF TypeInv, RingType, inputvars, ringvars
  <1>10. WorkType'
    <2>0. UNCHANGED <<burst, off_pkts, myown>>
      BY <1>1 DEF inputvars, ringvars
    <2>1. CASE c = "W"
      <3>1. /\ pc'["W"] = p /\ batch'["W"] = <<>> /\ pc'["O"] = pc["O"] /\ batch'["O"] = batch["O"]
            /\ batch["W"] \in Seq(Nat) /\ pc["W"] = "tx"
        BY <1>0, <1>4, <2>1 DEF Cores
      <3>2. burst = <<>> /\ Len(off_pkts) + Len(batch["W"]) <= BURST
        <4>1. burst = <<>> /\ Len(burst) + Len(off_pkts) + Len(batch["W"]) <= BURST
          BY <3>1 DEF TypeInv, WorkType
        <4>2. Len(off_pkts) \in Nat /\ Len(batch["W"]) \in Nat
          BY <3>1, LenProperties DEF TypeInv, RingType
        <4> QED
          BY <1>0, <4>1, <4>2, Sizes
      <3>3. Len(burst) + Len(off_pkts) + Len(batch'["W"]) <= BURST
        <4>1. Len(off_pkts) \in Nat /\ Len(batch["W"]) \in Nat
          BY <3>1, LenProperties DEF TypeInv, RingType
        <4> QED
          BY <1>0, <3>1, <3>2, <4>1, Sizes
      <3>4. p = "top" => off_pkts = <<>>
        BY <1>2, <2>1 DEF TypeInv, WorkType
      <3> QED
        BY <1>2, <2>0, <3>1, <3>2, <3>3, <3>4 DEF TypeInv, WorkType, Cores
    <2>2. CASE c = "O"
      <3>1. /\ pc'["O"] = "top" /\ batch'["O"] = <<>> /\ pc'["W"] = pc["W"] /\ batch'["W"] = batch["W"]
        BY <1>2, <1>4, <2>2 DEF Cores
      <3> QED
        BY <1>0, <2>0, <3>1, Sizes DEF TypeInv, WorkType, Cores
    <2> QED
      BY <2>1, <2>2 DEF Cores
  <1> QED
    BY <1>6, <1>7, <1>8, <1>9, <1>10 DEF TypeInv

(* Every step keeps the types. *)
LEMMA TypeStep ==
  ASSUME TypeInv, [Next]_vars
  PROVE  TypeInv'
  <1>1. CASE Input
    BY <1>1, TypeReceive, TypeTransfer DEF Input
  <1>2. CASE DrainBatch \/ DrainEnd \/ RunEnd \/ DequeueBurst
    BY <1>2, TypeStarts
  <1>3. CASE Run
    BY <1>3, TypeRun
  <1>4. CASE Enqueue
    BY <1>4, TypeEnqueue
  <1>5. ASSUME NEW c \in Cores, Chain(c) PROVE TypeInv'
    BY <1>5, TypeLoad, TypeInstall, TypeRead, TypeUpdates, TypeTransmit DEF Chain
  <1>6. CASE UNCHANGED vars
    <2>1. UNCHANGED <<inputvars, ringvars, pc, posvars, localvars, nfvars, outvars>>
      BY <1>6 DEF vars
    <2>2. RingType' /\ PosType' /\ LocalType' /\ HeapType' /\ HistoryType' /\ WorkType'
      BY <2>1 DEF TypeInv, RingType, PosType, LocalType, HeapType, HistoryType, WorkType, inputvars,
                  ringvars, posvars, localvars, nfvars, outvars
    <2> QED
      BY <2>2 DEF TypeInv
  <1> QED
    BY <1>1, <1>2, <1>3, <1>4, <1>5, <1>6 DEF Next, Owner, Offloader, Cores

(* The types hold at first. *)
LEMMA TypeStart == Init => TypeInv
  <1> SUFFICES ASSUME Init PROVE TypeInv
    OBVIOUS
  <1>0. /\ <<>> \in Seq(Nat) /\ Len(<<>>) = 0 /\ <<>> \in Seq(Nat \X Cores) /\ <<>> \in Seq(NFState)
    BY EmptySeq
  <1>1. RingType
    <2>1. 1 \in 1 .. MaxPkts + 1 /\ 0 <= QSIZE
      BY Sizes
    <2> QED
      BY <1>0, <2>1 DEF Init, RingType
  <1>2. PosType
    BY <1>0 DEF Init, PosType, Cores, NF, Label, Working
  <1>3. LocalType
    BY Sizes DEF Init, LocalType, Class
  <1>4. HeapType
    BY <1>0 DEF Init, HeapType
  <1>5. HistoryType
    BY <1>0 DEF Init, HistoryType
  <1>6. WorkType
    BY <1>0, Sizes DEF Init, WorkType, Cores
  <1> QED
    BY <1>1, <1>2, <1>3, <1>4, <1>5, <1>6 DEF TypeInv

(* The type invariant is an invariant. *)
LEMMA TypeInvariant == Spec => []TypeInv
  <1>1. Init => TypeInv
    BY TypeStart
  <1>2. TypeInv /\ [Next]_vars => TypeInv'
    BY TypeStep
  <1> QED
    BY <1>1, <1>2, PTL DEF Spec

(* Every variable has its type, and in particular no core follows a pointer *)
(* to a state that was not allocated (DyNAPT and DyIDS simple_action),      *)
(* whatever the two cores do in whatever order.                             *)
THEOREM TypeCorrect == Spec => []TypeOK
  <1>1. TypeInv => TypeOK
    <2> SUFFICES ASSUME TypeInv PROVE TypeOK
      OBVIOUS
    <2>1. /\ q \in Seq(Nat) /\ burst \in Seq(Nat) /\ off_pkts \in Seq(Nat) /\ batch["W"] \in Seq(Nat)
          /\ batch \in [Cores -> Seq(Nat)] /\ heap \in [NF -> Seq(NFState)]
      BY DEF TypeInv, RingType, PosType, HeapType, Cores
    <2>2. Len(burst) <= BURST
      <3>1. /\ Len(burst) \in Nat /\ Len(off_pkts) \in Nat /\ Len(batch["W"]) \in Nat
            /\ Len(burst) + Len(off_pkts) + Len(batch["W"]) <= BURST
        BY <2>1, LenProperties DEF TypeInv, WorkType
      <3> DEFINE x == Len(burst)
                 y == Len(off_pkts)
                 z == Len(batch["W"])
      <3>2. x \in Nat /\ y \in Nat /\ z \in Nat /\ x + y + z <= BURST /\ BURST \in Nat
        BY <3>1, Sizes
      <3> HIDE DEF x, y, z
      <3>3. x <= BURST
        BY <3>2
      <3> QED
        BY <3>3 DEF x
    <2>3. \A c \in Cores : DOMAIN batch[c] = 1 .. Len(batch[c])
      BY <2>1, LenProperties
    <2>4. \A h \in NF : DOMAIN heap[h] = 1 .. Len(heap[h]) /\ Len(heap[h]) \in Nat
      BY <2>1, LenProperties
    <2>5. \A h \in NF : global_state[h] \in 0 .. Len(heap[h])
      BY <2>4 DEF TypeInv, HeapType
    <2>6. \A h \in NF : \A i \in DOMAIN heap[h] : heap[h][i].cnt \in [Class -> 0 .. WORD - 1]
      <3>1. \A h \in NF : \A i \in 1 .. Len(heap[h]) : heap[h][i] \in NFState
        BY <2>1, ElementOfSeq
      <3> QED
        BY <2>4, <3>1 DEF NFState
    <2>7. \A c \in Cores : /\ pc[c] \in Working => at[c] \in DOMAIN batch[c]
                           /\ pc[c] \in {"read", "write"} => state[c] \in DOMAIN heap[nf[c]]
      BY <2>3, <2>4 DEF TypeInv, PosType, HeapType
    <2>8. nf \in [Cores -> NF] /\ tmp \in [Cores -> 0 .. WORD - 1] /\ pc \in [Cores -> Label]
          /\ next \in 1 .. MaxPkts + 1 /\ myown \in BOOLEAN /\ Len(q) <= QSIZE
      BY DEF TypeInv, RingType, PosType, LocalType
    <2> QED
      BY <2>2, <2>5, <2>6, <2>7, <2>8 DEF TypeOK, Label, Working
  <1> QED
    BY <1>1, TypeInvariant, PTL

-----------------------------------------------------------------------------
(* One state per flow.                                                      *)

(* Core c has found no state in function h and is about to install one. *)
Busy(c, h) == pc[c] = "install" /\ nf[c] = h

(* Cores that are in a function at once have met in it. *)
MeetInv ==
    \A h \in NF : \A c, d \in Cores : c # d /\ InNF(c, h) /\ InNF(d, h) => h \in met

(* A state is installed as soon as there is one; a core that is about to    *)
(* install one looked before the other had.                                 *)
GrowInv ==
    \A h \in NF :
        /\ global_state[h] = 0 <=> Len(heap[h]) = 0
        /\ Len(heap[h]) <= 2
        /\ \A c \in Cores : Busy(c, h) => Len(heap[h]) <= 1
        /\ \A c, d \in Cores : c # d /\ Busy(c, h) /\ Busy(d, h) => Len(heap[h]) = 0
        /\ h \notin met => /\ Len(heap[h]) <= 1
                           /\ \A c \in Cores : Busy(c, h) => Len(heap[h]) = 0

(* The steps that bring no core into a function and make no state: all but  *)
(* Load and Install.                                                        *)
Quiet ==
    \/ Input \/ DrainBatch \/ DrainEnd \/ RunEnd \/ DequeueBurst \/ Run \/ Enqueue
    \/ \E c \in Cores : Read(c) \/ NaptUpdate(c) \/ IdsUpdate(c) \/ Transmit(c)
    \/ UNCHANGED vars

(* What those steps leave alone. *)
Kept ==
    /\ met' = met /\ global_state' = global_state
    /\ \A h \in NF : Len(heap'[h]) = Len(heap[h])
Away ==
    \A d \in Cores, h \in NF : /\ InNF(d, h)' => InNF(d, h)
                               /\ Busy(d, h)' => Busy(d, h)

(* They do. *)
LEMMA QuietStep ==
  ASSUME TypeInv, Quiet
  PROVE  Kept /\ Away
  <1>0. /\ pc \in [Cores -> Label] /\ nf \in [Cores -> NF]
    BY DEF TypeInv, PosType
  <1> USE DEF Kept, Away
  <1>1. ASSUME NEW c \in Cores, pc'[c] \notin {"install", "read", "write"},
               \A d \in Cores \ {c} : pc'[d] = pc[d] /\ nf'[d] = nf[d]
        PROVE  Away
    BY <1>1 DEF InNF, Busy
  <1>2. CASE Input
    <2>1. /\ UNCHANGED <<met, global_state, heap, nf>>
          /\ pc' = pc \/ pc' = [pc EXCEPT !["W"] = "run"]
      BY <1>2 DEF Input, Receive, Transfer, nfvars, posvars
    <2>2. CASE pc' = pc
      BY <2>1, <2>2 DEF InNF, Busy
    <2>3. CASE pc' = [pc EXCEPT !["W"] = "run"]
      <3>1. "W" \in Cores /\ pc'["W"] = "run" /\ \A d \in Cores \ {"W"} : pc'[d] = pc[d]
        BY <1>0, <2>3 DEF Cores
      <3> QED
        BY <1>1, <2>1, <3>1
    <2> QED
      BY <2>1, <2>2, <2>3
  <1>3. CASE Run \/ DrainEnd
    <2>1. UNCHANGED <<met, global_state, heap, nf, pc>>
      BY <1>3 DEF Run, DrainEnd, nfvars, posvars
    <2> QED
      BY <2>1 DEF InNF, Busy
  <1>4. CASE DrainBatch \/ RunEnd \/ Enqueue
    <2>1. UNCHANGED <<met, global_state, heap>>
      BY <1>4 DEF DrainBatch, RunEnd, Enqueue, nfvars
    <2>2. /\ "W" \in Cores /\ pc'["W"] \in {"load", "enqueue", "top"}
          /\ \A d \in Cores \ {"W"} : pc'[d] = pc[d] /\ nf'[d] = nf[d]
      BY <1>0, <1>4 DEF DrainBatch, RunEnd, Enqueue, Push, posvars, Cores
    <2> QED
      BY <1>1, <2>1, <2>2
  <1>5. CASE DequeueBurst
    <2>1. UNCHANGED <<met, global_state, heap>>
      BY <1>5 DEF DequeueBurst, nfvars
    <2>2. /\ "O" \in Cores /\ pc'["O"] = "load"
          /\ \A d \in Cores \ {"O"} : pc'[d] = pc[d] /\ nf'[d] = nf[d]
      BY <1>0, <1>5 DEF DequeueBurst, Push, Cores
    <2> QED
      BY <1>1, <2>1, <2>2
  <1>6. ASSUME NEW c \in Cores, Read(c) PROVE Kept /\ Away
    <2>1. UNCHANGED <<met, global_state, heap, nf>> /\ pc[c] = "read" /\ pc' = [pc EXCEPT ![c] = "write"]
      BY <1>6 DEF Read, nfvars, posvars
    <2> QED
      BY <1>0, <2>1 DEF InNF, Busy
  <1>7. ASSUME NEW c \in Cores, NaptUpdate(c) \/ IdsUpdate(c) PROVE Kept /\ Away
    <2>0. heap \in [NF -> Seq(NFState)] /\ 1 \in NF /\ 2 \in NF
      BY DEF TypeInv, HeapType, NF
    <2>1. \A g \in NF : Len(heap'[g]) = Len(heap[g])
      <3>1. CASE NaptUpdate(c)
        <4>1. /\ NaptState(c) \in NFState /\ state[c] \in 1 .. Len(heap[1])
              /\ heap' = [heap EXCEPT ![1] = [heap[1] EXCEPT ![state[c]] = NaptState(c)]]
          BY <3>1, NaptWrite
        <4> QED
          BY <2>0, <4>1, HeapWrite
      <3>2. CASE IdsUpdate(c)
        <4>1. /\ IdsState(c) \in NFState /\ state[c] \in 1 .. Len(heap[2])
              /\ heap' = [heap EXCEPT ![2] = [heap[2] EXCEPT ![state[c]] = IdsState(c)]]
          BY <3>2, IdsWrite
        <4> QED
          BY <2>0, <4>1, HeapWrite
      <3> QED
        BY <1>7, <3>1, <3>2
    <2>2. pc[c] = "write" /\ Advance(c) /\ UNCHANGED <<met, global_state>>
      BY <1>7 DEF NaptUpdate, IdsUpdate
    <2>3. pc'[c] \in {"load", "tx"}
      BY <2>2, AdvanceType
    <2>4. \A d \in Cores \ {c} : pc'[d] = pc[d] /\ nf'[d] = nf[d]
      BY <1>7, ChainRings
    <2> QED
      BY <1>1, <2>1, <2>2, <2>3, <2>4
  <1>8. ASSUME NEW c \in Cores, Transmit(c) PROVE Kept /\ Away
    <2>1. UNCHANGED <<met, global_state, heap>>
      BY <1>8 DEF Transmit, nfvars
    <2>2. pc'[c] \in {"enqueue", "top"} /\ \A d \in Cores \ {c} : pc'[d] = pc[d] /\ nf'[d] = nf[d]
      BY <1>0, <1>8 DEF Transmit
    <2> QED
      BY <1>1, <2>1, <2>2
  <1>9. CASE UNCHANGED vars
    <2>1. UNCHANGED <<met, global_state, heap, nf, pc>>
      BY <1>9 DEF vars, nfvars, posvars
    <2> QED
      BY <2>1 DEF InNF, Busy
  <1> QED
    BY <1>2, <1>3, <1>4, <1>5, <1>6, <1>7, <1>8, <1>9 DEF Quiet

(* Every step is one of those, a Load or an Install. *)
LEMMA StepKinds ==
  ASSUME [Next]_vars PROVE Quiet \/ \E c \in Cores : Load(c) \/ Install(c)
  BY DEF Next, Owner, Offloader, Chain, Cores, Quiet

(* A core that looks for the state notes whom it meets, and sees every      *)
(* state there is.                                                          *)
LEMMA GrowLoad ==
  ASSUME TypeInv, MeetInv, GrowInv, NEW c \in Cores, Load(c)
  PROVE  MeetInv' /\ GrowInv'
  <1>0. /\ pc \in [Cores -> Label] /\ nf \in [Cores -> NF] /\ nf[c] \in NF /\ pc[c] = "load"
        /\ heap \in [NF -> Seq(NFState)] /\ met \subseteq NF
    BY DEF Load, TypeInv, PosType, HeapType, HistoryType
  <1>1. /\ pc' = [pc EXCEPT ![c] = IF global_state[nf[c]] = 0 THEN "install" ELSE "read"]
        /\ met' = met \union {h \in NF : nf[c] = h /\ \E d \in Cores \ {c} : InNF(d, h)}
        /\ UNCHANGED <<global_state, heap, nf>>
    BY DEF Load, posvars
  <1>2. /\ pc'[c] = IF global_state[nf[c]] = 0 THEN "install" ELSE "read"
        /\ \A d \in Cores \ {c} : pc'[d] = pc[d]
    BY <1>0, <1>1
  <1>3. \A d \in Cores \ {c}, h \in NF : (InNF(d, h)' <=> InNF(d, h)) /\ (Busy(d, h)' <=> Busy(d, h))
    BY <1>1, <1>2 DEF InNF, Busy
  <1>4. \A h \in NF : InNF(c, h)' => h = nf[c]
    BY <1>1 DEF InNF
  <1>5. \A h \in NF : Busy(c, h)' => h = nf[c] /\ global_state[h] = 0
    BY <1>1, <1>2 DEF Busy
  <1>6. MeetInv'
    <2> SUFFICES ASSUME NEW h \in NF, NEW a \in Cores, NEW b \in Cores, a # b,
                        InNF(a, h)', InNF(b, h)'
                 PROVE  h \in met'
      BY DEF MeetInv
    <2>1. CASE a # c /\ b # c
      BY <1>1, <1>3, <2>1 DEF MeetInv
    <2>2. CASE a = c
      BY <1>1, <1>3, <1>4, <2>2
    <2>3. CASE b = c
      BY <1>1, <1>3, <1>4, <2>3
    <2> QED
      BY <2>1, <2>2, <2>3
  <1>7. GrowInv'
    <2> SUFFICES ASSUME NEW h \in NF
                 PROVE  /\ global_state'[h] = 0 <=> Len(heap'[h]) = 0
                        /\ Len(heap'[h]) <= 2
                        /\ \A a \in Cores : Busy(a, h)' => Len(heap'[h]) <= 1
                        /\ \A a, b \in Cores : a # b /\ Busy(a, h)' /\ Busy(b, h)' => Len(heap'[h]) = 0
                        /\ h \notin met' => /\ Len(heap'[h]) <= 1
                                            /\ \A a \in Cores : Busy(a, h)' => Len(heap'[h]) = 0
      BY DEF GrowInv
    <2> DEFINE l == Len(heap[h])
    <2>1. /\ l \in Nat /\ (global_state[h] = 0 <=> l = 0) /\ l <= 2
          /\ \A a \in Cores : Busy(a, h) => l <= 1
          /\ \A a, b \in Cores : a # b /\ Busy(a, h) /\ Busy(b, h) => l = 0
          /\ h \notin met => l <= 1 /\ \A a \in Cores : Busy(a, h) => l = 0
      BY <1>0, LenProperties DEF GrowInv
    <2>2. heap'[h] = heap[h] /\ global_state'[h] = global_state[h] /\ (h \notin met' => h \notin met)
      BY <1>1
    <2>3. \A a \in Cores : Busy(a, h)' => l = 0 \/ Busy(a, h)
      BY <1>3, <1>5, <2>1
    <2> HIDE DEF l
    <2>4. \A a \in Cores : Busy(a, h)' => l <= 1
      BY <2>1, <2>3
    <2>5. \A a, b \in Cores : a # b /\ Busy(a, h)' /\ Busy(b, h)' => l = 0
      BY <2>1, <2>3
    <2> QED
      BY <2>1, <2>2, <2>3, <2>4, <2>5 DEF l
  <1> QED
    BY <1>6, <1>7

(* The state a core installs is the first, or the second when the other     *)
(* core had looked before the first was installed.                          *)
LEMMA GrowInstall ==
  ASSUME TypeInv, MeetInv, GrowInv, NEW c \in Cores, Install(c)
  PROVE  MeetInv' /\ GrowInv'
  <1> DEFINE f == nf[c]
  <1>0. /\ pc \in [Cores -> Label] /\ nf \in [Cores -> NF] /\ f \in NF /\ pc[c] = "install"
        /\ heap \in [NF -> Seq(NFState)] /\ heap[f] \in Seq(NFState) /\ global_state \in [NF -> Nat]
    BY DEF Install, TypeInv, PosType, HeapType
  <1>1. /\ pc' = [pc EXCEPT ![c] = "read"] /\ UNCHANGED <<met, nf>>
        /\ heap' = [heap EXCEPT ![f] = Append(heap[f], NewState)]
        /\ global_state' = [global_state EXCEPT ![f] = Len(heap'[f])]
    BY DEF Install, posvars
  <1> HIDE DEF f
  <1>2. pc'[c] = "read" /\ \A d \in Cores \ {c} : pc'[d] = pc[d]
    BY <1>0, <1>1
  <1>3. \A d \in Cores, h \in NF : InNF(d, h)' => InNF(d, h)
    BY <1>0, <1>1, <1>2 DEF InNF
  <1>4. \A d \in Cores, h \in NF : Busy(d, h)' => d # c /\ Busy(d, h)
    BY <1>0, <1>1, <1>2 DEF Busy
  <1>5. Busy(c, f)
    BY <1>0 DEF Busy, f
  <1>6. MeetInv'
    BY <1>1, <1>3 DEF MeetInv
  <1>7. GrowInv'
    <2> SUFFICES ASSUME NEW h \in NF
                 PROVE  /\ global_state'[h] = 0 <=> Len(heap'[h]) = 0
                        /\ Len(heap'[h]) <= 2
                        /\ \A a \in Cores : Busy(a, h)' => Len(heap'[h]) <= 1
                        /\ \A a, b \in Cores : a # b /\ Busy(a, h)' /\ Busy(b, h)' => Len(heap'[h]) = 0
                        /\ h \notin met' => /\ Len(heap'[h]) <= 1
                                            /\ \A a \in Cores : Busy(a, h)' => Len(heap'[h]) = 0
      BY DEF GrowInv
    <2> DEFINE l == Len(heap[h])
    <2>1. /\ l \in Nat /\ (global_state[h] = 0 <=> l = 0) /\ l <= 2
          /\ \A a \in Cores : Busy(a, h) => l <= 1
          /\ \A a, b \in Cores : a # b /\ Busy(a, h) /\ Busy(b, h) => l = 0
          /\ h \notin met => l <= 1 /\ \A a \in Cores : Busy(a, h) => l = 0
      BY <1>0, LenProperties DEF GrowInv
    <2>2. CASE h # f
      <3>1. heap'[h] = heap[h] /\ global_state'[h] = global_state[h]
        BY <1>0, <1>1, <2>2
      <3> QED
        BY <1>1, <1>4, <2>1, <3>1
    <2>3. CASE h = f
      <3>1. heap'[h] = Append(heap[h], NewState) /\ global_state'[h] = Len(heap'[h])
        BY <1>0, <1>1, <2>3
      <3>2. Len(heap'[h]) = l + 1
        BY <1>0, <2>3, <3>1, NewStateType, AppendProperties
      <3>3. l <= 1 /\ (h \notin met => l = 0)
        BY <1>5, <2>1, <2>3
      <3>4. \A a \in Cores : Busy(a, h)' => l = 0 /\ h \in met
        <4> SUFFICES ASSUME NEW a \in Cores, Busy(a, h)' PROVE l = 0 /\ h \in met
          OBVIOUS
        <4>1. a # c /\ Busy(a, h) /\ Busy(c, h)
          BY <1>4, <1>5, <2>3
        <4>2. InNF(a, h) /\ InNF(c, h)
          BY <4>1 DEF InNF, Busy
        <4> QED
          BY <2>1, <4>1, <4>2 DEF MeetInv
      <3>5. \A a, b \in Cores : Busy(a, h)' /\ Busy(b, h)' => a = b
        BY <1>4, <1>5 DEF Cores
      <3> HIDE DEF l
      <3>6. global_state'[h] = l + 1 /\ l + 1 # 0 /\ l + 1 <= 2 /\ (l = 0 => l + 1 <= 1)
        BY <2>1, <3>1, <3>2, <3>3
      <3> QED
        BY <1>1, <3>2, <3>3, <3>4, <3>5, <3>6
    <2> QED
      BY <2>2, <2>3
  <1> QED
    BY <1>6, <1>7

(* Every step keeps both. *)
LEMMA GrowStep ==
  ASSUME TypeInv, MeetInv, GrowInv, [Next]_vars
  PROVE  MeetInv' /\ GrowInv'
  <1>1. ASSUME NEW c \in Cores, Load(c) \/ Install(c) PROVE MeetInv' /\ GrowInv'
    BY <1>1, GrowLoad, GrowInstall
  <1>2. CASE Quiet
    <2>1. Kept /\ Away
      BY <1>2, QuietStep
    <2>2. MeetInv'
      BY <2>1 DEF MeetInv, Kept, Away
    <2>3. GrowInv'
      BY <2>1 DEF GrowInv, Kept, Away
    <2> QED
      BY <2>2, <2>3
  <1> QED
    BY <1>1, <1>2, StepKinds

(* At first there are no states and no core is in a function. *)
LEMMA GrowStart == Init => MeetInv /\ GrowInv
  <1> SUFFICES ASSUME Init PROVE MeetInv /\ GrowInv
    OBVIOUS
  <1>1. \A c \in Cores : pc[c] = "top"
    BY DEF Init
  <1>2. \A h \in NF : global_state[h] = 0 /\ Len(heap[h]) = 0
    BY DEF Init
  <1> QED
    BY <1>1, <1>2 DEF MeetInv, GrowInv, InNF, Busy

(* The invariant of the states allocated. *)
LEMMA GrowInvariant == Spec => [](TypeInv /\ MeetInv /\ GrowInv)
  <1>1. Init => MeetInv /\ GrowInv
    BY GrowStart
  <1>2. TypeInv /\ MeetInv /\ GrowInv /\ [Next]_vars => (MeetInv /\ GrowInv)'
    BY GrowStep
  <1> QED
    BY <1>1, <1>2, TypeInvariant, PTL DEF Spec

(* A function makes no more than one state of the flow for each core, and a *)
(* second one only where the two cores were in it at once: what simple_action *)
(* does without a lock goes wrong in no other way.                          *)
THEOREM OneStateCorrect == Spec => []OneStatePerFlow
  <1>1. GrowInv => OneStatePerFlow
    <2>1. Cardinality(Cores) = 2
      <3>1. Cardinality({"W"}) = 1 /\ IsFiniteSet({"W"})
        BY FS_Singleton
      <3>2. Cardinality({"W"} \union {"O"}) = 2
        BY <3>1, FS_AddElement
      <3> QED
        BY <3>2 DEF Cores
    <2> QED
      BY <2>1 DEF GrowInv, OneStatePerFlow
  <1> QED
    BY <1>1, GrowInvariant, PTL

-----------------------------------------------------------------------------
(* Remainders, for a modulus that is not a number.                          *)

(* The remainder is the one r below n that a multiple of n is off by. *)
LEMMA ModUnique ==
  ASSUME NEW n \in Nat \ {0}, NEW k \in Nat, NEW r \in 0 .. n - 1
  PROVE  (k * n + r) % n = r
  OBVIOUS

(* Every number is a multiple of n and its remainder. *)
LEMMA ModSplit ==
  ASSUME NEW x \in Nat, NEW n \in Nat \ {0}
  PROVE  \E k \in Nat : x = k * n + (x % n) /\ x % n \in 0 .. n - 1
  <1> DEFINE k == x \div n
             r == x % n
  <1>1. k \in Nat /\ r \in 0 .. n - 1 /\ x = n * k + r
    OBVIOUS
  <1> HIDE DEF k, r
  <1>2. x = k * n + r
    BY <1>1
  <1>3. \E m \in Nat : x = m * n + r /\ r \in 0 .. n - 1
    BY <1>1, <1>2
  <1> QED
    BY <1>3 DEF r

(* A counter that wraps counts modulo its range. *)
LEMMA ModNext ==
  ASSUME NEW x \in Nat, NEW n \in Nat \ {0}
  PROVE  ((x % n) + 1) % n = (x + 1) % n
  <1> DEFINE r == x % n
  <1>1. PICK k \in Nat : x = k * n + r /\ r \in 0 .. n - 1
    BY ModSplit
  <1> HIDE DEF r
  <1>2. CASE r + 1 < n
    <2>1. r + 1 \in 0 .. n - 1
      BY <1>1, <1>2
    <2>2. (k * n + (r + 1)) % n = r + 1 /\ (0 * n + (r + 1)) % n = r + 1
      BY <2>1, ModUnique
    <2>3. x + 1 = k * n + (r + 1) /\ r + 1 = 0 * n + (r + 1)
      BY <1>1, <2>1
    <2> QED
      BY <2>2, <2>3 DEF r
  <1>3. CASE ~(r + 1 < n)
    <2>1. r + 1 = n /\ 0 \in 0 .. n - 1 /\ k + 1 \in Nat
      BY <1>1, <1>3
    <2>2. ((k + 1) * n + 0) % n = 0 /\ (1 * n + 0) % n = 0
      BY <2>1, ModUnique
    <2>3. x + 1 = (k + 1) * n + 0 /\ r + 1 = 1 * n + 0
      BY <1>1, <2>1
    <2> QED
      BY <2>2, <2>3 DEF r
  <1> QED
    BY <1>2, <1>3

(* Entries go on in their order when a counter whose range is a multiple of *)
(* their number wraps.                                                      *)
LEMMA ModDivisor ==
  ASSUME NEW x \in Nat, NEW w \in Nat \ {0}, NEW n \in Nat \ {0}, w % n = 0
  PROVE  (x % w) % n = x % n
  <1> DEFINE r == x % w
             u == r % n
  <1>1. PICK k \in Nat : x = k * w + r /\ r \in 0 .. w - 1
    BY ModSplit
  <1>2. PICK m \in Nat : w = m * n + (w % n)
    BY ModSplit
  <1>3. r \in Nat
    BY <1>1
  <1> HIDE DEF r
  <1>4. PICK j \in Nat : r = j * n + u /\ u \in 0 .. n - 1
    BY <1>3, ModSplit
  <1> HIDE DEF u
  <1>5. w = m * n
    BY <1>2
  <1>6. x = (k * m + j) * n + u /\ k * m + j \in Nat
    <2>1. k * (m * n) = (k * m) * n /\ (k * m + j) * n = (k * m) * n + j * n /\ k * m \in Nat
      OBVIOUS
    <2>2. x = k * (m * n) + (j * n + u)
      BY <1>1, <1>4, <1>5
    <2>3. (k * m) * n \in Nat /\ j * n \in Nat /\ u \in Nat
      BY <1>4, <2>1
    <2> QED
      BY <2>1, <2>2, <2>3
  <1>7. x % n = u
    BY <1>4, <1>6, ModUnique
  <1> QED
    BY <1>7 DEF r, u

(* Two numbers less than n apart have different remainders. *)
LEMMA ModDiffers ==
  ASSUME NEW x \in Nat, NEW y \in Nat, NEW n \in Nat \ {0}, x < y, y < x + n
  PROVE  x % n # y % n
  <1> SUFFICES ASSUME x % n = y % n PROVE FALSE
    OBVIOUS
  <1> DEFINE r == x % n
  <1>1. PICK k \in Nat : x = k * n + r /\ r \in 0 .. n - 1
    BY ModSplit
  <1>2. PICK l \in Nat : y = l * n + r
    BY ModSplit
  <1> HIDE DEF r
  <1>3. y - x = (l - k) * n
    BY <1>1, <1>2
  <1>4. (l - k) * n > 0 /\ (l - k) * n < n /\ l - k \in Int
    BY <1>3
  <1>5. l - k <= 0 \/ l - k >= 1
    BY <1>4
  <1> DEFINE d == l - k
  <1>6. d \in Int /\ d * n > 0 /\ d * n < n /\ (d <= 0 \/ d >= 1)
    BY <1>4, <1>5
  <1> HIDE DEF d
  <1>7. CASE d <= 0
    BY <1>6, <1>7
  <1>8. CASE d >= 1
    <2>1. d * n >= n
      BY <1>6, <1>8
    <2>2. d * n \in Int
      BY <1>6
    <2> QED
      BY <1>6, <2>1, <2>2
  <1> QED
    BY <1>6, <1>7, <1>8

-----------------------------------------------------------------------------
(* What the states remember.                                                *)

(* Core c is about to write what it computed from a counter of function h. *)
Writing(c, h) == pc[c] = "write" /\ nf[c] = h

(* Unless the cores met in DyNAPT, its one state counts the packets, and a  *)
(* core about to write the count holds the count there is.                  *)
NaptInv ==
    1 \notin met =>
        /\ global_state[1] = 0 => handled = <<>>
        /\ global_state[1] # 0 => heap[1][1].cnt["found"] = Len(handled) % WORD
        /\ \A c \in Cores : Writing(c, 1) => tmp[c] = Len(handled) % WORD

(* The last entries of l are in the ring r. *)
Remembered(r, l) ==
    \A i \in 1 .. Len(l) : i > Len(l) - ENTRIES => r[(i - 1) % ENTRIES] = l[i]

(* Unless the cores met in DyIDS, its one state counts the packets of each  *)
(* class and remembers the last of them.                                    *)
IdsInv ==
    2 \notin met =>
        /\ global_state[2] = 0 => \A k \in Class : log[k] = <<>>
        /\ global_state[2] # 0 =>
              \A k \in Class : /\ heap[2][1].cnt[k] = Len(log[k]) % WORD
                               /\ Remembered(heap[2][1].ring[k], log[k])
        /\ \A c \in Cores : Writing(c, 2) => tmp[c] = Len(log[class[c]]) % WORD

(* A step that leaves DyNAPT's state and the cores writing it alone. *)
LEMMA NaptFrame ==
  ASSUME NaptInv, 1 \in met => 1 \in met', global_state'[1] = global_state[1],
         heap'[1] = heap[1], handled' = handled,
         \A c \in Cores : Writing(c, 1)' => Writing(c, 1) /\ tmp'[c] = tmp[c]
  PROVE  NaptInv'
  BY DEF NaptInv

(* A step that leaves DyIDS's state and the cores writing it alone. *)
LEMMA IdsFrame ==
  ASSUME IdsInv, 2 \in met => 2 \in met', global_state'[2] = global_state[2],
         heap'[2] = heap[2], log' = log,
         \A c \in Cores : Writing(c, 2)' => Writing(c, 2) /\ tmp'[c] = tmp[c] /\ class'[c] = class[c]
  PROVE  IdsInv'
  BY DEF IdsInv

(* A core with a state in hand, where the cores did not meet: the state is  *)
(* the only one, and the installed one.                                     *)
LEMMA OnlyState ==
  ASSUME TypeInv, GrowInv, NEW c \in Cores, pc[c] \in {"read", "write"}, nf[c] \notin met
  PROVE  state[c] = 1 /\ Len(heap[nf[c]]) = 1 /\ global_state[nf[c]] = 1
  <1> DEFINE h == nf[c]
             l == Len(heap[h])
  <1>1. h \in NF /\ heap[h] \in Seq(NFState) /\ state[c] \in 1 .. l
        /\ global_state[h] \in Nat /\ global_state[h] <= l
    BY DEF TypeInv, PosType, HeapType
  <1>2. l \in Nat
    BY <1>1, LenProperties
  <1>3. l <= 1 /\ (global_state[h] = 0 <=> l = 0)
    BY <1>1 DEF GrowInv
  <1> HIDE DEF l
  <1>4. l = 1 /\ state[c] = 1 /\ global_state[h] = 1
    BY <1>1, <1>2, <1>3
  <1> QED
    BY <1>4 DEF l

(* Steps outside the functions leave the states alone. *)
LEMMA ExactPlain ==
  ASSUME TypeInv, NaptInv, IdsInv,
         \/ Input \/ DrainBatch \/ DrainEnd \/ RunEnd \/ DequeueBurst \/ Run \/ Enqueue
         \/ \E c \in Cores : Transmit(c)
         \/ UNCHANGED vars
  PROVE  NaptInv' /\ IdsInv'
  <1>0. pc \in [Cores -> Label] /\ nf \in [Cores -> NF]
    BY DEF TypeInv, PosType
  <1>1. UNCHANGED <<localvars, nfvars>>
    BY DEF Input, Receive, Transfer, DrainBatch, DrainEnd, RunEnd, DequeueBurst, Run, Enqueue,
           Transmit, vars
  <1>2. \A d \in Cores : pc'[d] = "write" => pc[d] = "write" /\ nf'[d] = nf[d]
    <2>1. CASE Input
      BY <1>0, <2>1 DEF Input, Receive, Transfer, posvars
    <2>2. CASE DrainEnd \/ Run \/ Enqueue
      BY <1>0, <2>2 DEF DrainEnd, Run, Enqueue, posvars
    <2>3. CASE DrainBatch \/ RunEnd \/ DequeueBurst
      BY <1>0, <2>3 DEF DrainBatch, RunEnd, DequeueBurst, Push, posvars
    <2>4. ASSUME NEW c \in Cores, Transmit(c)
          PROVE  \A d \in Cores : pc'[d] = "write" => pc[d] = "write" /\ nf'[d] = nf[d]
      BY <1>0, <2>4 DEF Transmit
    <2>5. CASE UNCHANGED vars
      BY <2>5 DEF vars, posvars
    <2> QED
      BY <2>1, <2>2, <2>3, <2>4, <2>5
  <1>3. UNCHANGED <<met, global_state, heap, handled, log, tmp, class>>
    BY <1>1 DEF localvars, nfvars
  <1>4. \A d \in Cores : Writing(d, 1)' => Writing(d, 1) /\ tmp'[d] = tmp[d]
    BY <1>2, <1>3 DEF Writing
  <1>5. \A d \in Cores : Writing(d, 2)' => Writing(d, 2) /\ tmp'[d] = tmp[d] /\ class'[d] = class[d]
    BY <1>2, <1>3 DEF Writing
  <1> QED
    BY <1>3, <1>4, <1>5, NaptFrame, IdsFrame

(* Looking for a state changes none. *)
LEMMA ExactLoad ==
  ASSUME TypeInv, NaptInv, IdsInv, NEW c \in Cores, Load(c)
  PROVE  NaptInv' /\ IdsInv'
  <1>0. pc \in [Cores -> Label]
    BY DEF TypeInv, PosType
  <1>1. met \subseteq met' /\ UNCHANGED <<global_state, heap, handled, log, tmp, class, nf>>
    BY DEF Load, posvars
  <1>2. \A d \in Cores : pc'[d] = "write" => pc[d] = "write"
    BY <1>0 DEF Load
  <1>3. \A d \in Cores : Writing(d, 1)' => Writing(d, 1) /\ tmp'[d] = tmp[d]
    BY <1>1, <1>2 DEF Writing
  <1>4. \A d \in Cores : Writing(d, 2)' => Writing(d, 2) /\ tmp'[d] = tmp[d] /\ class'[d] = class[d]
    BY <1>1, <1>2 DEF Writing
  <1> QED
    BY <1>1, <1>3, <1>4, NaptFrame, IdsFrame

(* A new state counts 0 packets, as many as were handled. *)
LEMMA ExactInstall ==
  ASSUME TypeInv, MeetInv, GrowInv, NaptInv, IdsInv, NEW c \in Cores, Install(c)
  PROVE  NaptInv' /\ IdsInv'
  <1> DEFINE h == nf[c]
  <1>0. /\ pc \in [Cores -> Label] /\ h \in NF /\ pc[c] = "install" /\ 1 \in NF /\ 2 \in NF
        /\ heap \in [NF -> Seq(NFState)] /\ heap[h] \in Seq(NFState) /\ global_state \in [NF -> Nat]
    BY DEF Install, TypeInv, PosType, HeapType, NF
  <1>1. /\ heap' = [heap EXCEPT ![h] = Append(heap[h], NewState)]
        /\ global_state' = [global_state EXCEPT ![h] = Len(heap'[h])]
        /\ pc' = [pc EXCEPT ![c] = "read"]
        /\ UNCHANGED <<nf, tmp, class, handled, log, met>>
    BY DEF Install, posvars
  <1>2. pc'[c] = "read" /\ \A d \in Cores \ {c} : pc'[d] = pc[d]
    BY <1>0, <1>1
  <1>3. \A d \in Cores : Writing(d, 1)' => d # c /\ Writing(d, 1) /\ tmp'[d] = tmp[d]
    BY <1>1, <1>2 DEF Writing
  <1>4. \A d \in Cores : Writing(d, 2)' => d # c /\ Writing(d, 2) /\ tmp'[d] = tmp[d] /\ class'[d] = class[d]
    BY <1>1, <1>2 DEF Writing
  <1>5. InNF(c, h) /\ Busy(c, h)
    BY <1>0 DEF InNF, Busy
  <1> HIDE DEF h
  <1>6. \A g \in NF \ {h} : heap'[g] = heap[g] /\ global_state'[g] = global_state[g]
    BY <1>0, <1>1
  <1>7. h \notin met => /\ global_state[h] = 0 /\ global_state'[h] = 1 /\ heap'[h][1] = NewState
                        /\ \A d \in Cores : ~(pc'[d] = "write" /\ nf'[d] = h)
    <2> SUFFICES ASSUME h \notin met
                 PROVE  /\ global_state[h] = 0 /\ global_state'[h] = 1 /\ heap'[h][1] = NewState
                        /\ \A d \in Cores : ~(pc'[d] = "write" /\ nf'[d] = h)
      OBVIOUS
    <2>1. global_state[h] = 0 /\ Len(heap[h]) = 0
      BY <1>0, <1>5 DEF GrowInv
    <2>2. heap'[h] = Append(heap[h], NewState) /\ global_state'[h] = Len(heap'[h])
      BY <1>0, <1>1
    <2>3. Len(heap'[h]) = 1 /\ heap'[h][1] = NewState
      BY <1>0, <2>1, <2>2, NewStateType, AppendProperties
    <2>4. \A d \in Cores : ~(pc'[d] = "write" /\ nf'[d] = h)
      <3> SUFFICES ASSUME NEW d \in Cores, pc'[d] = "write", nf'[d] = h PROVE FALSE
        OBVIOUS
      <3>1. d # c /\ InNF(d, h)
        BY <1>1, <1>2 DEF InNF
      <3> QED
        BY <1>0, <1>5, <3>1 DEF MeetInv
    <2> QED
      BY <2>1, <2>2, <2>3, <2>4
  <1>8. 0 % WORD = 0
    BY Sizes
  <1>9. NaptInv'
    <2>1. CASE h # 1
      BY <1>0, <1>1, <1>3, <1>6, <2>1, NaptFrame
    <2>2. CASE h = 1
      <3> SUFFICES ASSUME 1 \notin met
                   PROVE  /\ global_state'[1] = 0 => handled' = <<>>
                          /\ heap'[1][1].cnt["found"] = Len(handled') % WORD
                          /\ \A d \in Cores : ~Writing(d, 1)'
        BY <1>1 DEF NaptInv
      <3>1. handled = <<>>
        BY <1>7, <2>2 DEF NaptInv
      <3>2. NewState.cnt["found"] = 0 /\ Len(<<>>) = 0
        BY EmptySeq DEF NewState, Class
      <3> QED
        BY <1>1, <1>7, <1>8, <2>2, <3>1, <3>2 DEF Writing
    <2> QED
      BY <2>1, <2>2
  <1>10. IdsInv'
    <2>1. CASE h # 2
      BY <1>0, <1>1, <1>4, <1>6, <2>1, IdsFrame
    <2>2. CASE h = 2
      <3> SUFFICES ASSUME 2 \notin met
                   PROVE  /\ global_state'[2] = 0 => \A k \in Class : log'[k] = <<>>
                          /\ \A k \in Class : /\ heap'[2][1].cnt[k] = Len(log'[k]) % WORD
                                              /\ Remembered(heap'[2][1].ring[k], log'[k])
                          /\ \A d \in Cores : ~Writing(d, 2)'
        BY <1>1 DEF IdsInv
      <3>1. \A k \in Class : log[k] = <<>>
        BY <1>7, <2>2 DEF IdsInv
      <3>2. (\A k \in Class : NewState.cnt[k] = 0) /\ Len(<<>>) = 0
        BY EmptySeq DEF NewState, Class
      <3>3. \A k \in Class : Remembered(heap'[2][1].ring[k], <<>>)
        BY <3>2 DEF Remembered
      <3> QED
        BY <1>1, <1>7, <1>8, <2>2, <3>1, <3>2, <3>3 DEF Writing
    <2> QED
      BY <2>1, <2>2
  <1> QED
    BY <1>9, <1>10

(* What a core reads is the count there is. *)
LEMMA ExactRead ==
  ASSUME TypeInv, GrowInv, NaptInv, IdsInv, NEW c \in Cores, Read(c)
  PROVE  NaptInv' /\ IdsInv'
  <1>0. /\ pc \in [Cores -> Label] /\ nf[c] \in NF /\ pc[c] = "read"
        /\ tmp \in [Cores -> 0 .. WORD - 1] /\ class \in [Cores -> Class]
    BY DEF Read, TypeInv, PosType, LocalType
  <1>1. PICK k \in Class :
            /\ nf[c] = 1 => k = "found"
            /\ class' = [class EXCEPT ![c] = k]
            /\ tmp' = [tmp EXCEPT ![c] = heap[nf[c]][state[c]].cnt[k]]
    <2>1. CASE nf[c] = 1
      BY <2>1 DEF Read, Class
    <2>2. CASE nf[c] = 2
      <3>1. \E k \in Class : /\ class' = [class EXCEPT ![c] = k]
                             /\ tmp' = [tmp EXCEPT ![c] = heap[nf[c]][state[c]].cnt[k]]
        BY <2>2 DEF Read
      <3>2. nf[c] # 1
        BY <2>2
      <3> QED
        BY <3>1, <3>2
    <2> QED
      BY <1>0, <2>1, <2>2 DEF NF
  <1>2. pc' = [pc EXCEPT ![c] = "write"] /\ UNCHANGED <<nf, met, global_state, heap, handled, log>>
    BY DEF Read, posvars, nfvars
  <1>3. /\ \A d \in Cores \ {c} : pc'[d] = pc[d] /\ tmp'[d] = tmp[d] /\ class'[d] = class[d]
        /\ tmp'[c] = heap[nf[c]][state[c]].cnt[k] /\ class'[c] = k
    BY <1>0, <1>1, <1>2
  <1>4. nf[c] \notin met => state[c] = 1 /\ global_state[nf[c]] = 1
    BY <1>0, OnlyState
  <1>5. \A d \in Cores, h \in NF : Writing(d, h)' => IF d = c THEN h = nf[c] ELSE Writing(d, h)
    BY <1>2, <1>3 DEF Writing
  <1>6. NaptInv'
    <2> SUFFICES ASSUME 1 \notin met, NEW d \in Cores, Writing(d, 1)' PROVE tmp'[d] = Len(handled) % WORD
      BY <1>2 DEF NaptInv
    <2>1. CASE d = c
      <3>1. nf[c] = 1
        BY <1>5, <2>1 DEF NF
      <3> QED
        BY <1>1, <1>3, <1>4, <2>1, <3>1 DEF NaptInv
    <2>2. CASE d # c
      BY <1>3, <1>5, <2>2 DEF NaptInv, NF
    <2> QED
      BY <2>1, <2>2
  <1>7. IdsInv'
    <2> SUFFICES ASSUME 2 \notin met, NEW d \in Cores, Writing(d, 2)'
                 PROVE  tmp'[d] = Len(log[class'[d]]) % WORD
      BY <1>2 DEF IdsInv
    <2>1. CASE d = c
      <3>1. nf[c] = 2
        BY <1>5, <2>1 DEF NF
      <3> QED
        BY <1>1, <1>3, <1>4, <2>1, <3>1 DEF IdsInv
    <2>2. CASE d # c
      BY <1>3, <1>5, <2>2 DEF IdsInv, NF
    <2> QED
      BY <2>1, <2>2
  <1> QED
    BY <1>6, <1>7

(* No other core writes to a function in which the cores did not meet. *)
LEMMA WritesAlone ==
  ASSUME TypeInv, MeetInv, NEW c \in Cores, pc[c] = "write", nf[c] \notin met, NEW d \in Cores, d # c
  PROVE  ~Writing(d, nf[c])
  BY DEF MeetInv, InNF, Writing, TypeInv, PosType

(* DyNAPT counts the packet. *)
LEMMA ExactNapt ==
  ASSUME TypeInv, MeetInv, GrowInv, NaptInv, IdsInv, NEW c \in Cores, NaptUpdate(c)
  PROVE  NaptInv' /\ IdsInv'
  <1>0. /\ pc[c] = "write" /\ nf[c] = 1 /\ UNCHANGED <<global_state, log, met>>
        /\ handled' = Append(handled, <<Pkt(c), c>>) /\ Advance(c)
    BY DEF NaptUpdate
  <1>1. pc'[c] \in {"load", "tx"} /\ \A d \in Cores \ {c} : pc'[d] = pc[d] /\ nf'[d] = nf[d]
    BY <1>0, AdvanceType, ChainRings
  <1>2. \A d \in Cores \ {c} : tmp'[d] = tmp[d] /\ class'[d] = class[d]
    BY <1>0 DEF Advance, TypeInv, LocalType
  <1>3. /\ heap \in [NF -> Seq(NFState)] /\ 1 \in NF /\ 2 \in NF
        /\ NaptState(c) \in NFState /\ state[c] \in 1 .. Len(heap[1])
        /\ heap' = [heap EXCEPT ![1] = [heap[1] EXCEPT ![state[c]] = NaptState(c)]]
    BY NaptWrite DEF TypeInv, HeapType, NF
  <1>4. heap'[2] = heap[2] /\ heap'[1][state[c]] = NaptState(c)
    BY <1>3, HeapWrite
  <1>5. \A d \in Cores, h \in NF : Writing(d, h)' => d # c /\ Writing(d, h)
    BY <1>1 DEF Writing
  <1>6. IdsInv'
    BY <1>0, <1>2, <1>3, <1>4, <1>5, IdsFrame
  <1>7. NaptInv'
    <2> SUFFICES ASSUME 1 \notin met
                 PROVE  /\ global_state'[1] # 0
                        /\ heap'[1][1].cnt["found"] = Len(handled') % WORD
                        /\ \A d \in Cores : ~Writing(d, 1)'
      BY <1>0 DEF NaptInv
    <2>1. state[c] = 1 /\ global_state[1] = 1
      BY <1>0, OnlyState
    <2>2. \A d \in Cores : ~Writing(d, 1)'
      BY <1>0, <1>3, <1>5, WritesAlone
    <2>3. tmp[c] = Len(handled) % WORD
      BY <1>0 DEF NaptInv, Writing
    <2>4. /\ handled \in Seq(Nat \X Cores) /\ batch[c] \in Seq(Nat) /\ at[c] \in 1 .. Len(batch[c])
      BY <1>0 DEF TypeInv, HistoryType, PosType, Working
    <2>5. <<Pkt(c), c>> \in Nat \X Cores
      BY <2>4, ElementOfSeq DEF Pkt
    <2>6. Len(handled') = Len(handled) + 1 /\ Len(handled) \in Nat
      BY <1>0, <2>4, <2>5, AppendProperties, LenProperties
    <2>7. ((Len(handled) % WORD) + 1) % WORD = (Len(handled) + 1) % WORD
      <3>1. WORD \in Nat \ {0}
        BY Sizes
      <3> QED
        BY <2>6, <3>1, ModNext
    <2>8. NaptState(c).cnt["found"] = (tmp[c] + 1) % WORD
      <3>1. heap[1][state[c]] \in NFState
        BY <1>3, ElementOfSeq
      <3>2. heap[1][state[c]].cnt \in [Class -> 0 .. WORD - 1]
        BY <3>1 DEF NFState
      <3> QED
        BY <3>2 DEF NaptState, Class
    <2> QED
      BY <1>0, <1>4, <2>1, <2>2, <2>3, <2>6, <2>7, <2>8
  <1> QED
    BY <1>6, <1>7

(* The entry of the next packet is that of none of the last ENTRIES - 1. *)
LEMMA RememberNext ==
  ASSUME NEW r \in [0 .. ENTRIES - 1 -> Nat], NEW l \in Seq(Nat), NEW p \in Nat, Remembered(r, l)
  PROVE  Remembered([r EXCEPT ![Len(l) % ENTRIES] = p], Append(l, p))
  <1> DEFINE n == Len(l)
             m == Append(l, p)
             t == [r EXCEPT ![n % ENTRIES] = p]
  <1>1. /\ n \in Nat /\ Len(m) = n + 1 /\ m[n + 1] = p
        /\ \A i \in 1 .. n : m[i] = l[i]
    BY AppendProperties, LenProperties
  <1>2. n % ENTRIES \in 0 .. ENTRIES - 1
    BY <1>1, Sizes
  <1> SUFFICES Remembered(t, m)
    OBVIOUS
  <1> HIDE DEF n, m, t
  <1>3. SUFFICES ASSUME NEW i \in 1 .. Len(m), i > Len(m) - ENTRIES
                 PROVE  t[(i - 1) % ENTRIES] = m[i]
    BY DEF Remembered
  <1>4. CASE i = n + 1
    <2>1. i - 1 = n
      BY <1>1, <1>4
    <2> QED
      BY <1>1, <1>2, <1>4, <2>1 DEF t
  <1>5. CASE i # n + 1
    <2>1. i \in 1 .. n /\ i - 1 \in Nat /\ i - 1 < n /\ n < (i - 1) + ENTRIES /\ i > n - ENTRIES
      BY <1>1, <1>3, <1>5, Sizes
    <2>2. (i - 1) % ENTRIES # n % ENTRIES
      <3>1. ENTRIES \in Nat \ {0}
        BY Sizes
      <3> QED
        BY <1>1, <2>1, <3>1, ModDiffers
    <2>3. r[(i - 1) % ENTRIES] = l[i]
      BY <2>1 DEF Remembered, n
    <2>4. t[(i - 1) % ENTRIES] = r[(i - 1) % ENTRIES]
      <3>1. (i - 1) % ENTRIES \in 0 .. ENTRIES - 1
        BY <2>1, Sizes
      <3> QED
        BY <2>2, <3>1 DEF t
    <2> QED
      BY <1>1, <2>1, <2>3, <2>4
  <1> QED
    BY <1>4, <1>5

(* DyIDS counts the packet in its class and remembers it. *)
LEMMA ExactIds ==
  ASSUME TypeInv, MeetInv, GrowInv, NaptInv, IdsInv, NEW c \in Cores, IdsUpdate(c)
  PROVE  NaptInv' /\ IdsInv'
  <1>0. /\ pc[c] = "write" /\ nf[c] = 2 /\ UNCHANGED <<global_state, handled, met>>
        /\ log' = [log EXCEPT ![class[c]] = Append(log[class[c]], Pkt(c))] /\ Advance(c)
    BY DEF IdsUpdate
  <1>1. pc'[c] \in {"load", "tx"} /\ \A d \in Cores \ {c} : pc'[d] = pc[d] /\ nf'[d] = nf[d]
    BY <1>0, AdvanceType, ChainRings
  <1>2. \A d \in Cores \ {c} : tmp'[d] = tmp[d] /\ class'[d] = class[d]
    BY <1>0 DEF Advance, TypeInv, LocalType
  <1>3. /\ heap \in [NF -> Seq(NFState)] /\ 1 \in NF /\ 2 \in NF
        /\ IdsState(c) \in NFState /\ state[c] \in 1 .. Len(heap[2]) /\ Pkt(c) \in Nat
        /\ heap' = [heap EXCEPT ![2] = [heap[2] EXCEPT ![state[c]] = IdsState(c)]]
    BY IdsWrite DEF TypeInv, HeapType, NF
  <1>4. heap'[1] = heap[1] /\ heap'[2][state[c]] = IdsState(c)
    BY <1>3, HeapWrite
  <1>5. \A d \in Cores, h \in NF : Writing(d, h)' => d # c /\ Writing(d, h)
    BY <1>1 DEF Writing
  <1>6. NaptInv'
    BY <1>0, <1>2, <1>3, <1>4, <1>5, NaptFrame
  <1>7. IdsInv'
    <2> SUFFICES ASSUME 2 \notin met
                 PROVE  /\ global_state'[2] # 0
                        /\ \A k \in Class : /\ heap'[2][1].cnt[k] = Len(log'[k]) % WORD
                                            /\ Remembered(heap'[2][1].ring[k], log'[k])
                        /\ \A d \in Cores : ~Writing(d, 2)'
      BY <1>0 DEF IdsInv
    <2>1. state[c] = 1 /\ global_state[2] = 1
      BY <1>0, OnlyState
    <2>2. \A d \in Cores : ~Writing(d, 2)'
      BY <1>0, <1>3, <1>5, WritesAlone
    <2> DEFINE f == class[c]
               s == heap[2][1]
               n == Len(log[f])
    <2>3. tmp[c] = n % WORD
      BY <1>0 DEF IdsInv, Writing
    <2>4. /\ f \in Class /\ log \in [Class -> Seq(Nat)] /\ log[f] \in Seq(Nat)
      BY DEF TypeInv, HistoryType, LocalType
    <2>5. n \in Nat /\ WORD \in Nat \ {0} /\ ENTRIES \in Nat \ {0}
      BY <2>4, Sizes, LenProperties
    <2>6. s \in NFState
      BY <1>3, <2>1, ElementOfSeq
    <2>7. s.cnt \in [Class -> 0 .. WORD - 1] /\ s.ring \in [Class -> [0 .. ENTRIES - 1 -> Nat]]
      BY <2>6 DEF NFState
    <2>8. IdsState(c) = [cnt |-> [s.cnt EXCEPT ![f] = (tmp[c] + 1) % WORD],
                         ring |-> [s.ring EXCEPT ![f] = [s.ring[f] EXCEPT ![Slot(tmp[c])] = Pkt(c)]]]
      BY <2>1 DEF IdsState
    <2>9. \A k \in Class : s.cnt[k] = Len(log[k]) % WORD /\ Remembered(s.ring[k], log[k])
      BY <2>1 DEF IdsInv
    <2>10. Slot(tmp[c]) = n % ENTRIES /\ (tmp[c] + 1) % WORD = (n + 1) % WORD
      <3>1. (n % WORD) % ENTRIES = n % ENTRIES
        BY <2>5, Sizes, ModDivisor
      <3>2. ((n % WORD) + 1) % WORD = (n + 1) % WORD
        BY <2>5, ModNext
      <3> QED
        BY <2>3, <3>1, <3>2 DEF Slot
    <2>11. heap'[2][1] = IdsState(c)
      BY <1>4, <2>1
    <2> HIDE DEF s, n, f
    <2>12. ASSUME NEW k \in Class
           PROVE  /\ heap'[2][1].cnt[k] = Len(log'[k]) % WORD
                  /\ Remembered(heap'[2][1].ring[k], log'[k])
      <3>1. CASE k = f
        <4>1. log'[k] = Append(log[f], Pkt(c))
          BY <1>0, <2>4, <3>1 DEF f
        <4>2. Len(log'[k]) = n + 1
          BY <1>3, <2>4, <4>1, AppendProperties DEF n
        <4>3. heap'[2][1].cnt[k] = (n + 1) % WORD
          BY <2>4, <2>7, <2>8, <2>10, <2>11, <3>1
        <4>4. heap'[2][1].ring[k] = [s.ring[f] EXCEPT ![n % ENTRIES] = Pkt(c)]
          <5>1. heap'[2][1].ring = [s.ring EXCEPT ![f] = [s.ring[f] EXCEPT ![Slot(tmp[c])] = Pkt(c)]]
            BY <2>8, <2>11
          <5> DEFINE t == [s.ring[f] EXCEPT ![Slot(tmp[c])] = Pkt(c)]
          <5>2. heap'[2][1].ring = [s.ring EXCEPT ![f] = t] /\ f \in DOMAIN s.ring
            BY <2>4, <2>7, <5>1
          <5> HIDE DEF t
          <5>3. heap'[2][1].ring[k] = t
            BY <3>1, <5>2
          <5> QED
            BY <2>10, <5>3 DEF t
        <4>5. Remembered([s.ring[f] EXCEPT ![n % ENTRIES] = Pkt(c)], Append(log[f], Pkt(c)))
          <5>1. s.ring[f] \in [0 .. ENTRIES - 1 -> Nat] /\ Remembered(s.ring[f], log[f])
            BY <2>4, <2>7, <2>9
          <5> QED
            BY <1>3, <2>4, <5>1, RememberNext DEF n
        <4> QED
          BY <4>1, <4>2, <4>3, <4>4, <4>5
      <3>2. CASE k # f
        <4>1. log'[k] = log[k]
          BY <1>0, <2>4, <3>2 DEF f
        <4>2. heap'[2][1].cnt[k] = s.cnt[k] /\ heap'[2][1].ring[k] = s.ring[k]
          BY <2>7, <2>8, <2>11, <3>2
        <4> QED
          BY <2>9, <4>1, <4>2
      <3> QED
        BY <3>1, <3>2
    <2> QED
      BY <1>0, <2>1, <2>2, <2>12
  <1> QED
    BY <1>6, <1>7

(* Every step keeps what the states remember exact. *)
LEMMA ExactStep ==
  ASSUME TypeInv, MeetInv, GrowInv, NaptInv, IdsInv, [Next]_vars
  PROVE  NaptInv' /\ IdsInv'
  <1>1. ASSUME NEW c \in Cores, Load(c) \/ Install(c) PROVE NaptInv' /\ IdsInv'
    BY <1>1, ExactLoad, ExactInstall
  <1>2. ASSUME NEW c \in Cores, Read(c) \/ NaptUpdate(c) \/ IdsUpdate(c) PROVE NaptInv' /\ IdsInv'
    BY <1>2, ExactRead, ExactNapt, ExactIds
  <1>3. CASE \/ Input \/ DrainBatch \/ DrainEnd \/ RunEnd \/ DequeueBurst \/ Run \/ Enqueue
             \/ \E c \in Cores : Transmit(c)
             \/ UNCHANGED vars
    BY <1>3, ExactPlain
  <1> QED
    BY <1>1, <1>2, <1>3, StepKinds DEF Quiet

(* Nothing is handled, and nothing counted, at first. *)
LEMMA ExactStart == Init => NaptInv /\ IdsInv
  BY DEF Init, NaptInv, IdsInv, Writing, NF

(* The state of a function in which the two cores did not meet is exact:    *)
(* DyNAPT counts the packets modulo 2^32, and DyIDS has the last packets of *)
(* each class in the entries that its counter names, also after it wraps -  *)
(* because DYIDS_ENTRIES divides 2^32.                                      *)
THEOREM StateExactCorrect == Spec => []StateExact
  <1>1. Init => NaptInv /\ IdsInv
    BY ExactStart
  <1>2. TypeInv /\ MeetInv /\ GrowInv /\ NaptInv /\ IdsInv /\ [Next]_vars => (NaptInv /\ IdsInv)'
    BY ExactStep
  <1>3. TypeInv /\ GrowInv /\ NaptInv /\ IdsInv => StateExact
    <2> SUFFICES ASSUME TypeInv, GrowInv, NaptInv, IdsInv PROVE StateExact
      OBVIOUS
    <2>1. \A h \in NF : h \notin met /\ global_state[h] # 0 => global_state[h] = 1
      <3> SUFFICES ASSUME NEW h \in NF, h \notin met, global_state[h] # 0 PROVE global_state[h] = 1
        OBVIOUS
      <3>1. heap[h] \in Seq(NFState) /\ global_state[h] \in Nat /\ global_state[h] <= Len(heap[h])
        BY DEF TypeInv, HeapType
      <3>2. Len(heap[h]) \in Nat /\ Len(heap[h]) <= 1
        BY <3>1, LenProperties DEF GrowInv
      <3> QED
        BY <3>1, <3>2
    <2>2. \A k \in Class : DOMAIN log[k] = 1 .. Len(log[k])
      <3>1. \A k \in Class : log[k] \in Seq(Nat)
        BY DEF TypeInv, HistoryType
      <3> QED
        BY <3>1, LenProperties
    <2>3. 1 \in NF /\ 2 \in NF
      BY DEF NF
    <2>4. 1 \notin met => IF global_state[1] = 0 THEN handled = <<>>
                          ELSE heap[1][global_state[1]].cnt["found"] = Len(handled) % WORD
      BY <2>1, <2>3 DEF NaptInv
    <2>5. 2 \notin met /\ global_state[2] # 0 =>
              \A k \in Class : Remembered(heap[2][global_state[2]].ring[k], log[k])
      BY <2>1, <2>3 DEF IdsInv
    <2> QED
      BY <2>2, <2>4, <2>5 DEF StateExact, Remembered
  <1> QED
    BY <1>1, <1>2, <1>3, GrowInvariant, PTL DEF Spec

-----------------------------------------------------------------------------
(* The order of packets.                                                    *)

(* A queue in the order of arrival; one in which a packet may come after a  *)
(* later one only if it is one of F; sets one of which arrived before.      *)
Asc(s) == \A i, j \in 1 .. Len(s) : i < j => s[i] < s[j]
Tidy(s, F) == \A i, j \in 1 .. Len(s) : i < j /\ s[i] > s[j] => s[j] \in F
Below(S, T) == \A x \in S, y \in T : x < y

(* The packets of a queue, of none, and of one more. *)
LEMMA AppendOrder ==
  ASSUME NEW s \in Seq(Nat), NEW e \in Nat, NEW F
  PROVE  /\ Elements(Append(s, e)) = Elements(s) \union {e}
         /\ Asc(s) /\ Below(Elements(s), {e}) => Asc(Append(s, e))
         /\ Tidy(s, F) /\ Below(Elements(s), {e}) => Tidy(Append(s, e), F)
  <1> DEFINE t == Append(s, e)
             l == Len(s)
  <1>1. /\ t \in Seq(Nat) /\ l \in Nat /\ Len(t) = l + 1 /\ t[l + 1] = e
        /\ \A i \in 1 .. l : t[i] = s[i]
    BY AppendProperties, LenProperties
  <1>2. Elements(s) = {s[k] : k \in 1 .. l} /\ Elements(t) = {t[k] : k \in 1 .. l + 1}
    BY <1>1, ByPosition
  <1> HIDE DEF t, l
  <1>3. Elements(t) = Elements(s) \union {e}
    <2>1. \A k \in 1 .. l + 1 : k \in 1 .. l \/ k = l + 1
      BY <1>1
    <2>2. \A k \in 1 .. l : k \in 1 .. l + 1
      BY <1>1
    <2>3. l + 1 \in 1 .. l + 1
      BY <1>1
    <2> QED
      BY <1>1, <1>2, <2>1, <2>2, <2>3
  <1>4. ASSUME Below(Elements(s), {e}), NEW i \in 1 .. l + 1, NEW j \in 1 .. l + 1, i < j
        PROVE  i \in 1 .. l /\ (j \in 1 .. l \/ t[i] < t[j])
    <2>1. i \in 1 .. l /\ (j \in 1 .. l \/ j = l + 1)
      BY <1>1, <1>4
    <2> QED
      BY <1>1, <1>2, <1>4, <2>1 DEF Below
  <1>5. Asc(s) /\ Below(Elements(s), {e}) => Asc(t)
    BY <1>1, <1>4 DEF Asc, l
  <1>6. Tidy(s, F) /\ Below(Elements(s), {e}) => Tidy(t, F)
    <2> SUFFICES ASSUME Tidy(s, F), Below(Elements(s), {e}), NEW i \in 1 .. l + 1, NEW j \in 1 .. l + 1,
                        i < j, t[i] > t[j]
                 PROVE  t[j] \in F
      BY <1>1 DEF Tidy
    <2>1. t[i] \in Nat /\ t[j] \in Nat
      BY <1>1, ElementOfSeq
    <2>2. i \in 1 .. l /\ j \in 1 .. l
      BY <1>4, <2>1
    <2> QED
      BY <1>1, <2>2 DEF Tidy, l
  <1> QED
    BY <1>3, <1>5, <1>6 DEF t

(* The first packet of a queue, and the others. *)
LEMMA TailOrder ==
  ASSUME NEW s \in Seq(Nat), s # <<>>
  PROVE  /\ Elements(s) = {Head(s)} \union Elements(Tail(s))
         /\ Asc(s) => Asc(Tail(s)) /\ Below({Head(s)}, Elements(Tail(s)))
  <1> DEFINE t == Tail(s)
             l == Len(t)
  <1>1. /\ t \in Seq(Nat) /\ l \in Nat /\ Len(s) = l + 1 /\ Head(s) = s[1]
        /\ \A i \in 1 .. l : t[i] = s[i + 1]
    BY HeadTailProperties, LenProperties, EmptySeq
  <1>2. Elements(s) = {s[k] : k \in 1 .. l + 1} /\ Elements(t) = {t[k] : k \in 1 .. l}
    BY <1>1, ByPosition
  <1> HIDE DEF t, l
  <1>3. \A k \in 1 .. l : k + 1 \in 1 .. l + 1 /\ k + 1 > 1
    BY <1>1
  <1>4. \A k \in 1 .. l + 1 : k = 1 \/ (k - 1 \in 1 .. l /\ (k - 1) + 1 = k)
    BY <1>1
  <1>5. 1 \in 1 .. l + 1
    BY <1>1
  <1>6. Elements(s) = {s[1]} \union Elements(t)
    <2>1. Elements(t) \subseteq Elements(s)
      BY <1>1, <1>2, <1>3
    <2>2. s[1] \in Elements(s)
      BY <1>2, <1>5
    <2>3. ASSUME NEW x \in Elements(s) PROVE x = s[1] \/ x \in Elements(t)
      <3>1. PICK k \in 1 .. l + 1 : x = s[k]
        BY <1>2
      <3>2. CASE k # 1
        <4>1. k - 1 \in 1 .. l /\ t[k - 1] = s[k]
          BY <1>1, <1>4, <3>2
        <4> QED
          BY <1>2, <3>1, <4>1
      <3> QED
        BY <3>1, <3>2
    <2> QED
      BY <2>1, <2>2, <2>3
  <1>7. ASSUME Asc(s) PROVE Asc(t) /\ Below({s[1]}, Elements(t))
    <2>1. \A i, j \in 1 .. l + 1 : i < j => s[i] < s[j]
      BY <1>1, <1>7 DEF Asc
    <2>2. \A i, j \in 1 .. l : i < j => i + 1 < j + 1
      OBVIOUS
    <2> QED
      BY <1>1, <1>2, <1>3, <1>5, <2>1, <2>2 DEF Asc, Below, l
  <1> QED
    BY <1>1, <1>6, <1>7 DEF t

(* The packets of a burst of a queue, and the packets it leaves. *)
LEMMA SplitOrder ==
  ASSUME NEW s \in Seq(Nat), NEW n \in Nat, NEW F
  PROVE  LET f == Front(s, n)
             r == Rest(s, n)
         IN  /\ Elements(s) = Elements(f) \union Elements(r)
             /\ Asc(s) => Asc(f) /\ Asc(r) /\ Below(Elements(f), Elements(r))
             /\ Tidy(s, F) => /\ Tidy(f, F) /\ Tidy(r, F)
                              /\ \A x \in Elements(f), y \in Elements(r) : x > y => y \in F
  <1> DEFINE f == Front(s, n)
             r == Rest(s, n)
             m == Least(n, Len(s))
             l == Len(s)
  <1>1. /\ m \in 0 .. l /\ f \in Seq(Nat) /\ r \in Seq(Nat) /\ Len(f) = m /\ Len(r) = l - m
        /\ \A k \in 1 .. m : f[k] = s[k]
        /\ \A k \in 1 .. l - m : r[k] = s[k + m]
    BY Split
  <1>2. l \in Nat
    BY LenProperties
  <1>3. /\ Elements(s) = {s[k] : k \in 1 .. l} /\ Elements(f) = {f[k] : k \in 1 .. m}
        /\ Elements(r) = {r[k] : k \in 1 .. l - m}
    BY <1>1, ByPosition
  <1> HIDE DEF f, r, m, l
  <1>4. \A k \in 1 .. m : k \in 1 .. l
    BY <1>1, <1>2
  <1>5. \A k \in 1 .. l - m : k + m \in 1 .. l /\ \A i \in 1 .. m : i < k + m
    BY <1>1, <1>2
  <1>6. \A k \in 1 .. l : k \in 1 .. m \/ (k - m \in 1 .. l - m /\ (k - m) + m = k)
    BY <1>1, <1>2
  <1>7. \A i, j \in 1 .. l - m : i < j => i + m < j + m
    BY <1>1, <1>2
  <1>8. Elements(s) = Elements(f) \union Elements(r)
    <2>1. Elements(f) \subseteq Elements(s)
      BY <1>1, <1>3, <1>4
    <2>2. Elements(r) \subseteq Elements(s)
      BY <1>1, <1>3, <1>5
    <2>3. \A x \in Elements(s) : x \in Elements(f) \/ x \in Elements(r)
      BY <1>1, <1>3, <1>6
    <2> QED
      BY <2>1, <2>2, <2>3
  <1>9. ASSUME Asc(s) PROVE Asc(f) /\ Asc(r) /\ Below(Elements(f), Elements(r))
    <2>1. \A i, j \in 1 .. l : i < j => s[i] < s[j]
      BY <1>9 DEF Asc, l
    <2>2. Asc(f)
      BY <1>1, <1>4, <2>1 DEF Asc
    <2>3. Asc(r)
      BY <1>1, <1>5, <1>7, <2>1 DEF Asc
    <2>4. Below(Elements(f), Elements(r))
      <3> SUFFICES ASSUME NEW x \in Elements(f), NEW y \in Elements(r) PROVE x < y
        BY DEF Below
      <3>1. PICK i \in 1 .. m : x = f[i]
        BY <1>3
      <3>2. PICK k \in 1 .. l - m : y = r[k]
        BY <1>3
      <3>3. x = s[i] /\ y = s[k + m] /\ i \in 1 .. l /\ k + m \in 1 .. l /\ i < k + m
        BY <1>1, <1>4, <1>5, <3>1, <3>2
      <3> QED
        BY <2>1, <3>3
    <2> QED
      BY <2>2, <2>3, <2>4
  <1>10. ASSUME Tidy(s, F)
         PROVE  /\ Tidy(f, F) /\ Tidy(r, F)
                /\ \A x \in Elements(f), y \in Elements(r) : x > y => y \in F
    <2>1. \A i, j \in 1 .. l : i < j /\ s[i] > s[j] => s[j] \in F
      BY <1>10 DEF Tidy, l
    <2>2. Tidy(f, F)
      BY <1>1, <1>4, <2>1 DEF Tidy
    <2>3. Tidy(r, F)
      BY <1>1, <1>5, <1>7, <2>1 DEF Tidy
    <2>4. ASSUME NEW x \in Elements(f), NEW y \in Elements(r), x > y PROVE y \in F
      <3>1. PICK i \in 1 .. m : x = f[i]
        BY <1>3
      <3>2. PICK k \in 1 .. l - m : y = r[k]
        BY <1>3
      <3>3. x = s[i] /\ y = s[k + m] /\ i \in 1 .. l /\ k + m \in 1 .. l /\ i < k + m
        BY <1>1, <1>4, <1>5, <3>1, <3>2
      <3> QED
        BY <2>1, <2>4, <3>3
    <2> QED
      BY <2>2, <2>3, <2>4
  <1> QED
    BY <1>8, <1>9, <1>10 DEF f, r

(* One queue after another. *)
LEMMA ConcatOrder ==
  ASSUME NEW s \in Seq(Nat), NEW t \in Seq(Nat), NEW F
  PROVE  /\ Elements(s \o t) = Elements(s) \union Elements(t)
         /\ Asc(s) /\ Asc(t) /\ Below(Elements(s), Elements(t)) => Asc(s \o t)
         /\ Asc(s) /\ Elements(t) \subseteq F => Tidy(s \o t, F)
  <1> DEFINE u == s \o t
             l == Len(s)
             m == Len(t)
  <1>1. /\ u \in Seq(Nat) /\ Len(u) = l + m
        /\ \A i \in 1 .. l + m : u[i] = IF i <= l THEN s[i] ELSE t[i - l]
    BY ConcatProperties
  <1>2. l \in Nat /\ m \in Nat /\ \A i \in 1 .. l : s[i] \in Nat
    BY LenProperties, ElementOfSeq
  <1>3. /\ Elements(s) = {s[k] : k \in 1 .. l} /\ Elements(t) = {t[k] : k \in 1 .. m}
        /\ Elements(u) = {u[k] : k \in 1 .. l + m}
    BY <1>1, ByPosition
  <1> HIDE DEF u, l, m
  <1>4. \A k \in 1 .. l : k \in 1 .. l + m /\ u[k] = s[k]
    BY <1>1, <1>2
  <1>5. \A k \in 1 .. m : k + l \in 1 .. l + m /\ u[k + l] = t[k]
    <2> SUFFICES ASSUME NEW k \in 1 .. m PROVE k + l \in 1 .. l + m /\ u[k + l] = t[k]
      OBVIOUS
    <2>1. k + l \in 1 .. l + m /\ ~(k + l <= l) /\ (k + l) - l = k
      BY <1>2
    <2> QED
      BY <1>1, <2>1
  <1>6. \A k \in 1 .. l + m : \/ k \in 1 .. l /\ u[k] = s[k]
                              \/ k > l /\ k - l \in 1 .. m /\ u[k] = t[k - l]
    BY <1>1, <1>2
  <1>7. Elements(u) = Elements(s) \union Elements(t)
    <2>1. Elements(s) \subseteq Elements(u)
      BY <1>3, <1>4
    <2>2. Elements(t) \subseteq Elements(u)
      BY <1>3, <1>5
    <2>3. \A x \in Elements(u) : x \in Elements(s) \/ x \in Elements(t)
      BY <1>3, <1>6
    <2> QED
      BY <2>1, <2>2, <2>3
  <1>8. ASSUME NEW i \in 1 .. l + m, NEW j \in 1 .. l + m, i < j
        PROVE  \/ i \in 1 .. l /\ j \in 1 .. l /\ u[i] = s[i] /\ u[j] = s[j]
               \/ u[i] \in Elements(s) /\ u[j] \in Elements(t)
               \/ /\ i - l \in 1 .. m /\ j - l \in 1 .. m /\ i - l < j - l /\ u[j] \in Elements(t)
                  /\ u[i] = t[i - l] /\ u[j] = t[j - l]
    <2>1. CASE j \in 1 .. l
      <3>1. i \in 1 .. l
        BY <1>2, <1>8, <2>1
      <3> QED
        BY <1>4, <2>1, <3>1
    <2>2. CASE j > l
      <3>1. j - l \in 1 .. m /\ u[j] = t[j - l]
        BY <1>2, <1>6, <2>2
      <3>2. u[j] \in Elements(t)
        BY <1>3, <3>1
      <3>3. CASE i \in 1 .. l
        BY <1>3, <1>4, <3>2, <3>3
      <3>4. CASE i > l
        <4>1. i - l \in 1 .. m /\ u[i] = t[i - l] /\ i - l < j - l
          BY <1>2, <1>6, <1>8, <3>4
        <4> QED
          BY <3>1, <3>2, <4>1
      <3> QED
        BY <1>6, <3>3, <3>4
    <2> QED
      BY <1>6, <2>1, <2>2
  <1>9. ASSUME Asc(s), Asc(t), Below(Elements(s), Elements(t)) PROVE Asc(u)
    <2>1. \A i, j \in 1 .. l : i < j => s[i] < s[j]
      BY <1>9 DEF Asc, l
    <2>2. \A i, j \in 1 .. m : i < j => t[i] < t[j]
      BY <1>9 DEF Asc, m
    <2> SUFFICES ASSUME NEW i \in 1 .. l + m, NEW j \in 1 .. l + m, i < j PROVE u[i] < u[j]
      BY <1>1 DEF Asc
    <2> QED
      BY <1>8, <1>9, <2>1, <2>2 DEF Below
  <1>10. ASSUME Asc(s), Elements(t) \subseteq F PROVE Tidy(u, F)
    <2>1. \A i, j \in 1 .. l : i < j => s[i] < s[j]
      BY <1>10 DEF Asc, l
    <2> SUFFICES ASSUME NEW i \in 1 .. l + m, NEW j \in 1 .. l + m, i < j, u[i] > u[j] PROVE u[j] \in F
      BY <1>1 DEF Tidy
    <2>2. CASE i \in 1 .. l /\ j \in 1 .. l /\ u[i] = s[i] /\ u[j] = s[j]
      BY <1>2, <2>1, <2>2
    <2>3. CASE u[j] \in Elements(t)
      BY <1>10, <2>3
    <2> QED
      BY <1>8, <2>2, <2>3
  <1> QED
    BY <1>7, <1>9, <1>10 DEF u

(* Packets arrive in their order, after all others. *)
LEMMA ArrivalOrder ==
  ASSUME NEW n \in Nat, NEW a \in Nat \ {0}
  PROVE  LET s == [k \in 1 .. n |-> a + k - 1]
         IN  s \in Seq(Nat) /\ Elements(s) = a .. a + n - 1 /\ Asc(s)
  <1> DEFINE s == [k \in 1 .. n |-> a + k - 1]
  <1>1. s \in Seq(Nat) /\ Len(s) = n
    BY Arrivals
  <1>2. \A k \in 1 .. n : s[k] = a + k - 1
    OBVIOUS
  <1>3. Elements(s) = {s[k] : k \in 1 .. n}
    BY <1>1, ByPosition
  <1> HIDE DEF s
  <1>4. \A k \in 1 .. n : a + k - 1 \in a .. a + n - 1
    OBVIOUS
  <1>5. \A x \in a .. a + n - 1 : x - a + 1 \in 1 .. n /\ a + (x - a + 1) - 1 = x
    OBVIOUS
  <1>6. Elements(s) = a .. a + n - 1
    <2>1. Elements(s) \subseteq a .. a + n - 1
      BY <1>2, <1>3, <1>4
    <2>2. \A x \in a .. a + n - 1 : x \in Elements(s)
      BY <1>2, <1>3, <1>5
    <2> QED
      BY <2>1, <2>2
  <1>7. Asc(s)
    <2> SUFFICES ASSUME NEW i \in 1 .. n, NEW j \in 1 .. n, i < j PROVE s[i] < s[j]
      BY <1>1 DEF Asc
    <2> QED
      BY <1>2
  <1> QED
    BY <1>1, <1>6, <1>7 DEF s

(* A queue that is empty. *)
LEMMA EmptyOrder ==
  ASSUME NEW F
  PROVE  <<>> \in Seq(Nat) /\ Elements(<<>>) = {} /\ Asc(<<>>) /\ Tidy(<<>>, F)
  <1>1. <<>> \in Seq(Nat) /\ Len(<<>>) = 0
    BY EmptySeq
  <1>2. Elements(<<>>) = {}
    <2>1. Elements(<<>>) = {<<>>[k] : k \in 1 .. 0}
      BY <1>1, ByPosition
    <2> QED
      BY <2>1
  <1> QED
    BY <1>1, <1>2 DEF Asc, Tidy

(* How the packets of q (Q), myring (R), burst (B), off_pkts (P) and the    *)
(* batches of W and O (V) lie to each other, F being those offloaded and n  *)
(* the next to arrive: what O has or will get was offloaded, and arrived    *)
(* before everything that W has.                                            *)
Cross(Q, R, B, P, W, V, F, n) ==
    /\ \A x \in W, y \in R : x > y => y \in F
    /\ Q \union P \union V \subseteq F
    /\ Below(W \union P, B) /\ Below(V, Q)
    /\ Below(V \union Q, W \union R \union B \union P)
    /\ Below(Q \union R \union B \union P \union W \union V, {n})

(* Each queue by itself: only W's may hold packets out of order. *)
AscInv ==
    /\ Asc(q) /\ Asc(off_pkts) /\ Asc(burst) /\ Asc(batch["O"])
    /\ Tidy(batch["W"], offloaded) /\ Tidy(myring, offloaded)

(* All of them together. *)
CrossInv ==
    Cross(Elements(q), Elements(myring), Elements(burst), Elements(off_pkts),
          Elements(batch["W"]), Elements(batch["O"]), offloaded, next)

(* While W drains its ring there is nothing for O to take. *)
SidesInv ==
    /\ ~myown => myring = <<>>
    /\ myown => q = <<>>
    /\ \A c \in Cores : pc[c] \in {"top", "run", "enqueue"} => at[c] = 1 /\ nf[c] = 1

OrderInv == AscInv /\ CrossInv /\ SidesInv

(* The sequences the order is about. *)
LEMMA QueueTypes ==
  ASSUME TypeInv
  PROVE  /\ q \in Seq(Nat) /\ myring \in Seq(Nat) /\ burst \in Seq(Nat) /\ off_pkts \in Seq(Nat)
         /\ batch \in [Cores -> Seq(Nat)] /\ batch["W"] \in Seq(Nat) /\ batch["O"] \in Seq(Nat)
         /\ Elements(q) \subseteq Nat /\ Elements(myring) \subseteq Nat /\ Elements(burst) \subseteq Nat
         /\ Elements(off_pkts) \subseteq Nat /\ Elements(batch["W"]) \subseteq Nat
         /\ Elements(batch["O"]) \subseteq Nat /\ next \in Nat \ {0} /\ BURST \in Nat
         /\ "W" \in Cores /\ "O" \in Cores
  <1>1. /\ q \in Seq(Nat) /\ myring \in Seq(Nat) /\ burst \in Seq(Nat) /\ off_pkts \in Seq(Nat)
        /\ batch \in [Cores -> Seq(Nat)] /\ batch["W"] \in Seq(Nat) /\ batch["O"] \in Seq(Nat)
        /\ "W" \in Cores /\ "O" \in Cores
    BY DEF TypeInv, RingType, PosType, Cores
  <1>2. next \in Nat \ {0} /\ BURST \in Nat
    BY Sizes DEF TypeInv, RingType
  <1> QED
    BY <1>1, <1>2, ByPosition

(* Packets return to W, with others from the NIC. *)
LEMMA CrossTransfer ==
  ASSUME NEW Q \in SUBSET Nat, NEW V \in SUBSET Nat, NEW F, NEW n \in Nat, NEW m \in Nat,
         Cross(Q, {}, {}, {}, {}, V, F, n)
  PROVE  Cross({}, (n .. n + m - 1) \union Q, {}, {}, {}, V, F, n + m)
  <1>1. V \subseteq F /\ Below(V, Q) /\ Below(V, {n}) /\ Below(Q, {n})
    BY DEF Cross, Below
  <1>2. \A x \in n .. n + m - 1 : x \in Nat /\ x >= n /\ x < n + m
    OBVIOUS
  <1>3. Below(V, (n .. n + m - 1) \union Q)
    BY <1>1, <1>2 DEF Below
  <1>4. Below((n .. n + m - 1) \union Q \union V, {n + m})
    BY <1>1, <1>2 DEF Below
  <1> QED
    BY <1>1, <1>3, <1>4 DEF Cross, Below

(* A burst arrives. *)
LEMMA CrossReceive ==
  ASSUME NEW Q \in SUBSET Nat, NEW V \in SUBSET Nat, NEW F, NEW n \in Nat, NEW m \in Nat,
         Cross(Q, {}, {}, {}, {}, V, F, n)
  PROVE  Cross(Q, {}, n .. n + m - 1, {}, {}, V, F, n + m)
  <1>1. Q \union V \subseteq F /\ Below(V, Q) /\ Below(V \union Q, {n})
    BY DEF Cross, Below
  <1>2. \A x \in n .. n + m - 1 : x \in Nat /\ x >= n /\ x < n + m
    OBVIOUS
  <1>3. Below(V \union Q, n .. n + m - 1)
    BY <1>1, <1>2 DEF Below
  <1>4. Below(Q \union (n .. n + m - 1) \union V, {n + m})
    BY <1>1, <1>2 DEF Below
  <1> QED
    BY <1>1, <1>3, <1>4 DEF Cross, Below

(* A packet is classified. *)
LEMMA CrossRun ==
  ASSUME NEW Q \in SUBSET Nat, NEW B \in SUBSET Nat, NEW P \in SUBSET Nat,
         NEW W \in SUBSET Nat, NEW V \in SUBSET Nat, NEW F, NEW n \in Nat, NEW h \in Nat,
         Cross(Q, {}, {h} \union B, P, W, V, F, n), Below({h}, B)
  PROVE  /\ Cross(Q, {}, B, P \union {h}, W, V, F \union {h}, n)
         /\ Cross(Q, {}, B, P, W \union {h}, V, F, n)
         /\ Below(P, {h}) /\ Below(W, {h})
  BY DEF Cross, Below

(* What fits into q goes there. *)
LEMMA CrossEnqueue ==
  ASSUME NEW Q \in SUBSET Nat, NEW P \in SUBSET Nat, NEW S \in SUBSET P, NEW V \in SUBSET Nat, NEW F,
         NEW n \in Nat, Cross(Q, {}, {}, P, {}, V, F, n)
  PROVE  Cross(Q \union S, {}, {}, {}, {}, V, F, n) /\ Below(Q, S)
  BY DEF Cross, Below

(* W takes a burst of its ring. *)
LEMMA CrossDrain ==
  ASSUME NEW R \in SUBSET Nat, NEW S \in SUBSET Nat, NEW V \in SUBSET Nat, NEW F, NEW n \in Nat,
         Cross({}, R \union S, {}, {}, {}, V, F, n), \A x \in R, y \in S : x > y => y \in F
  PROVE  Cross({}, S, {}, {}, R, V, F, n)
  BY DEF Cross, Below

(* O takes a burst of q. *)
LEMMA CrossDequeue ==
  ASSUME NEW Q \in SUBSET Nat, NEW S \in SUBSET Nat, NEW R \in SUBSET Nat, NEW B \in SUBSET Nat,
         NEW P \in SUBSET Nat, NEW W \in SUBSET Nat, NEW F, NEW n \in Nat,
         Cross(Q \union S, R, B, P, W, {}, F, n), Below(Q, S)
  PROVE  Cross(S, R, B, P, W, Q, F, n)
  BY DEF Cross, Below

(* A batch is sent. *)
LEMMA CrossSend ==
  ASSUME NEW Q, NEW R, NEW B, NEW P, NEW W, NEW V, NEW F, NEW n, Cross(Q, R, B, P, W, V, F, n)
  PROVE  Cross(Q, R, B, P, {}, V, F, n) /\ Cross(Q, R, B, P, W, {}, F, n)
  BY DEF Cross, Below

(* Transfer keeps the order of the queues. *)
LEMMA OrderTransfer ==
  ASSUME TypeInv, OrderInv, NEW n \in 0 .. BURST, Transfer(n)
  PROVE  OrderInv'
  <1> DEFINE s == [k \in 1 .. n |-> next + k - 1]
  <1>0. n \in Nat
    BY Sizes
  <1>1. /\ burst = <<>> /\ off_pkts = <<>> /\ batch["W"] = <<>> /\ myring = <<>> /\ pc["W"] = "top"
        /\ UNCHANGED <<burst, off_pkts, offloaded, pc, batch, at, nf>>
        /\ myring' = s \o q /\ next' = next + n /\ q' = <<>> /\ myown' = TRUE
    BY DEF Transfer, TypeInv, WorkType, OrderInv, SidesInv, Cores, posvars
  <1>2. s \in Seq(Nat) /\ Elements(s) = next .. next + n - 1 /\ Asc(s)
    BY <1>0, QueueTypes, ArrivalOrder
  <1>3. Elements(<<>>) = {} /\ Asc(<<>>)
    BY EmptyOrder
  <1>4. Cross(Elements(q), {}, {}, {}, {}, Elements(batch["O"]), offloaded, next)
    BY <1>1, <1>3 DEF OrderInv, CrossInv
  <1>5. Elements(q) \subseteq offloaded
    BY <1>4 DEF Cross
  <1> HIDE DEF s
  <1>6. Elements(myring') = (next .. next + n - 1) \union Elements(q) /\ Tidy(myring', offloaded)
    BY <1>1, <1>2, <1>5, QueueTypes, ConcatOrder
  <1>7. CrossInv'
    <2>1. Cross({}, (next .. next + n - 1) \union Elements(q), {}, {}, {}, Elements(batch["O"]),
                offloaded, next + n)
      BY <1>0, <1>4, QueueTypes, CrossTransfer
    <2> QED
      BY <1>1, <1>3, <1>6, <2>1 DEF CrossInv
  <1>8. AscInv'
    BY <1>1, <1>3, <1>6 DEF OrderInv, AscInv
  <1>9. SidesInv'
    BY <1>1 DEF OrderInv, SidesInv
  <1> QED
    BY <1>7, <1>8, <1>9 DEF OrderInv

(* Receive keeps the order of the queues. *)
LEMMA OrderReceive ==
  ASSUME TypeInv, OrderInv, NEW n \in 1 .. BURST, Receive(n)
  PROVE  OrderInv'
  <1>0. n \in Nat
    BY Sizes
  <1>1. /\ burst = <<>> /\ off_pkts = <<>> /\ batch["W"] = <<>> /\ myring = <<>> /\ pc["W"] = "top"
        /\ UNCHANGED <<off_pkts, offloaded, batch, at, nf, q, myring, myown>>
        /\ burst' = [k \in 1 .. n |-> next + k - 1] /\ next' = next + n
        /\ pc' = [pc EXCEPT !["W"] = "run"]
    BY DEF Receive, TypeInv, WorkType, OrderInv, SidesInv, Cores, posvars, ringvars
  <1>2. Elements(burst') = next .. next + n - 1 /\ Asc(burst')
    BY <1>0, <1>1, QueueTypes, ArrivalOrder
  <1>3. Elements(<<>>) = {}
    BY EmptyOrder
  <1>4. Cross(Elements(q), {}, {}, {}, {}, Elements(batch["O"]), offloaded, next)
    BY <1>1, <1>3 DEF OrderInv, CrossInv
  <1>5. CrossInv'
    <2>1. Cross(Elements(q), {}, next .. next + n - 1, {}, {}, Elements(batch["O"]), offloaded, next + n)
      BY <1>0, <1>4, QueueTypes, CrossReceive
    <2> QED
      BY <1>1, <1>2, <1>3, <2>1 DEF CrossInv
  <1>6. AscInv'
    BY <1>1, <1>2 DEF OrderInv, AscInv
  <1>7. SidesInv'
    <2>1. \A c \in Cores : pc'[c] = pc[c] \/ (pc["W"] = "top" /\ c = "W")
      BY <1>1 DEF TypeInv, PosType
    <2> QED
      BY <1>1, <2>1 DEF OrderInv, SidesInv
  <1> QED
    BY <1>5, <1>6, <1>7 DEF OrderInv

(* Run keeps the order of the queues. *)
LEMMA OrderRun ==
  ASSUME TypeInv, OrderInv, Run
  PROVE  OrderInv'
  <1> DEFINE h == Head(burst)
             b == Tail(burst)
             W == Elements(batch["W"])
             P == Elements(off_pkts)
             Q == Elements(q)
             V == Elements(batch["O"])
  <1>0. /\ burst # <<>> /\ burst' = b /\ pc["W"] = "run" /\ UNCHANGED <<next, q, myring, myown, pc, at, nf>>
        /\ \/ off_pkts' = Append(off_pkts, h) /\ offloaded' = offloaded \union {h} /\ batch' = batch
           \/ /\ batch' = [batch EXCEPT !["W"] = Append(batch["W"], h)]
              /\ off_pkts' = off_pkts /\ offloaded' = offloaded
    BY DEF Run, ringvars
  <1>1. h \in Nat /\ b \in Seq(Nat)
    BY <1>0, QueueTypes, HeadTailProperties
  <1>2. Elements(burst) = {h} \union Elements(b) /\ Asc(b) /\ Below({h}, Elements(b))
    BY <1>0, QueueTypes, TailOrder DEF OrderInv, AscInv
  <1>3. myring = <<>> /\ Elements(<<>>) = {}
    BY <1>0, EmptyOrder DEF TypeInv, WorkType, OrderInv, SidesInv
  <1>4. Cross(Q, {}, {h} \union Elements(b), P, W, V, offloaded, next)
    BY <1>2, <1>3 DEF OrderInv, CrossInv
  <1>5. /\ Q \subseteq Nat /\ P \subseteq Nat /\ W \subseteq Nat /\ V \subseteq Nat
        /\ Elements(b) \subseteq Nat /\ next \in Nat
    BY <1>1, QueueTypes, ByPosition
  <1> HIDE DEF h, b, W, P, Q, V
  <1>6. /\ Cross(Q, {}, Elements(b), P \union {h}, W, V, offloaded \union {h}, next)
        /\ Cross(Q, {}, Elements(b), P, W \union {h}, V, offloaded, next)
        /\ Below(P, {h}) /\ Below(W, {h})
    BY <1>1, <1>2, <1>4, <1>5, CrossRun
  <1>7. CASE off_pkts' = Append(off_pkts, h) /\ offloaded' = offloaded \union {h} /\ batch' = batch
    <2>1. Elements(off_pkts') = P \union {h} /\ Asc(off_pkts')
      BY <1>1, <1>6, <1>7, QueueTypes, AppendOrder DEF OrderInv, AscInv, P
    <2>2. CrossInv'
      BY <1>0, <1>3, <1>6, <1>7, <2>1 DEF CrossInv, Q, W, V
    <2>3. Tidy(batch["W"], offloaded \union {h}) /\ Tidy(myring, offloaded \union {h})
      BY DEF OrderInv, AscInv, Tidy
    <2>4. AscInv'
      BY <1>0, <1>2, <1>7, <2>1, <2>3 DEF OrderInv, AscInv
    <2>5. SidesInv'
      BY <1>0 DEF OrderInv, SidesInv
    <2> QED
      BY <2>2, <2>4, <2>5 DEF OrderInv
  <1>8. CASE /\ batch' = [batch EXCEPT !["W"] = Append(batch["W"], h)]
             /\ off_pkts' = off_pkts /\ offloaded' = offloaded
    <2>1. batch'["W"] = Append(batch["W"], h) /\ batch'["O"] = batch["O"]
      BY <1>8, QueueTypes
    <2>2. Elements(batch'["W"]) = W \union {h} /\ Tidy(batch'["W"], offloaded)
      BY <1>1, <1>6, <2>1, QueueTypes, AppendOrder DEF OrderInv, AscInv, W
    <2>3. CrossInv'
      BY <1>0, <1>3, <1>6, <1>8, <2>1, <2>2 DEF CrossInv, Q, P, V
    <2>4. AscInv'
      BY <1>0, <1>2, <1>8, <2>1, <2>2 DEF OrderInv, AscInv
    <2>5. SidesInv'
      BY <1>0 DEF OrderInv, SidesInv
    <2> QED
      BY <2>3, <2>4, <2>5 DEF OrderInv
  <1> QED
    BY <1>0, <1>7, <1>8

(* Enqueue keeps the order of the queues. *)
LEMMA OrderEnqueue ==
  ASSUME TypeInv, OrderInv, Enqueue
  PROVE  OrderInv'
  <1> DEFINE n == QSIZE - Len(q)
             f == Front(off_pkts, n)
             Q == Elements(q)
             P == Elements(off_pkts)
             V == Elements(batch["O"])
  <1>0. /\ burst = <<>> /\ batch["W"] = <<>> /\ pc["W"] = "enqueue" /\ pc' = [pc EXCEPT !["W"] = "top"]
        /\ UNCHANGED <<next, burst, offloaded, myring, myown, batch, at, nf>>
        /\ q' = q \o f /\ off_pkts' = <<>>
    BY DEF Enqueue, TypeInv, WorkType, Cores, posvars
  <1>1. n \in Nat
    <2>1. Len(q) \in Nat /\ Len(q) <= QSIZE
      BY QueueTypes, LenProperties DEF TypeInv, RingType
    <2> QED
      BY <2>1, Sizes
  <1>2. (~myown /\ myring = <<>>) \/ (myown /\ q = <<>> /\ off_pkts = <<>>)
    BY DEF OrderInv, SidesInv, TypeInv, RingType, WorkType
  <1> HIDE DEF n
  <1>3. f \in Seq(Nat) /\ Elements(f) \subseteq P /\ Asc(f)
    <2>1. Asc(off_pkts)
      BY DEF OrderInv, AscInv
    <2>2. off_pkts \in Seq(Nat) /\ f \in Seq(Nat)
      BY <1>1, QueueTypes, Split
    <2>3. P = Elements(f) \union Elements(Rest(off_pkts, n)) /\ Asc(f)
      BY <1>1, <2>1, <2>2, SplitOrder
    <2> QED
      BY <2>2, <2>3
  <1>4. Elements(<<>>) = {} /\ Asc(<<>>)
    BY EmptyOrder
  <1> HIDE DEF f
  <1>5. Elements(q') = Q \union Elements(f)
    BY <1>0, <1>3, QueueTypes, ConcatOrder
  <1>6. CASE ~myown /\ myring = <<>>
    <2>1. Cross(Q, {}, {}, P, {}, V, offloaded, next)
      BY <1>0, <1>4, <1>6 DEF OrderInv, CrossInv
    <2>2. Q \subseteq Nat /\ P \subseteq Nat /\ V \subseteq Nat /\ next \in Nat
      BY QueueTypes
    <2> HIDE DEF Q, P, V
    <2>3. Cross(Q \union Elements(f), {}, {}, {}, {}, V, offloaded, next) /\ Below(Q, Elements(f))
      BY <1>3, <2>1, <2>2, CrossEnqueue
    <2>4. Asc(q')
      BY <1>0, <1>3, <2>3, QueueTypes, ConcatOrder DEF OrderInv, AscInv, Q
    <2>5. CrossInv'
      BY <1>0, <1>4, <1>5, <1>6, <2>3 DEF CrossInv, V
    <2>6. AscInv'
      BY <1>0, <1>4, <2>4 DEF OrderInv, AscInv
    <2>7. SidesInv'
      <3>1. \A c \in Cores : pc'[c] = pc[c] \/ (c = "W" /\ pc["W"] = "enqueue")
        BY <1>0 DEF TypeInv, PosType
      <3> QED
        BY <1>0, <1>6, <3>1 DEF OrderInv, SidesInv
    <2> QED
      BY <2>5, <2>6, <2>7 DEF OrderInv
  <1>7. CASE myown /\ q = <<>> /\ off_pkts = <<>>
    <2>1. f = <<>> /\ q' = <<>>
      <3>1. Len(<<>>) = 0 /\ <<>> \in Seq(Nat)
        BY EmptySeq
      <3>2. f = <<>>
        <4>1. Len(<<>>) <= n
          BY <1>1, <3>1
        <4>2. Front(<<>>, n) = <<>>
          BY <1>1, <3>1, <4>1, FrontWhole
        <4> QED
          BY <1>7, <4>2 DEF f
      <3>3. q' \in Seq(Nat) /\ Len(q') = 0
        BY <1>0, <1>7, <3>1, <3>2, ConcatProperties
      <3> QED
        BY <3>2, <3>3, EmptySeq
    <2>2. CrossInv'
      BY <1>0, <1>7, <2>1 DEF OrderInv, CrossInv
    <2>3. AscInv'
      BY <1>0, <1>7, <2>1 DEF OrderInv, AscInv
    <2>4. SidesInv'
      <3>1. \A c \in Cores : pc'[c] = pc[c] \/ (c = "W" /\ pc["W"] = "enqueue")
        BY <1>0 DEF TypeInv, PosType
      <3> QED
        BY <1>0, <1>7, <2>1, <3>1 DEF OrderInv, SidesInv
    <2> QED
      BY <2>2, <2>3, <2>4 DEF OrderInv
  <1> QED
    BY <1>2, <1>6, <1>7

(* Batches start in the order of the queue they come from. *)
LEMMA OrderStarts ==
  ASSUME TypeInv, OrderInv, DrainBatch \/ DrainEnd \/ RunEnd \/ DequeueBurst
  PROVE  OrderInv'
  <1>0. Elements(<<>>) = {} /\ pc \in [Cores -> Label] /\ at \in [Cores -> Nat] /\ nf \in [Cores -> NF]
    BY EmptyOrder DEF TypeInv, PosType
  <1>1. CASE DrainBatch
    <2> DEFINE f == Front(myring, BURST)
               r == Rest(myring, BURST)
    <2>1. /\ myown /\ burst = <<>> /\ off_pkts = <<>> /\ batch["W"] = <<>> /\ q = <<>>
          /\ UNCHANGED <<next, burst, off_pkts, offloaded, q, myown>>
          /\ myring' = r /\ Push("W", f)
      BY <1>1 DEF DrainBatch, TypeInv, WorkType, OrderInv, SidesInv, Cores, inputvars
    <2>2. /\ Elements(myring) = Elements(f) \union Elements(r) /\ f \in Seq(Nat) /\ r \in Seq(Nat)
          /\ Tidy(f, offloaded) /\ Tidy(r, offloaded)
          /\ \A x \in Elements(f), y \in Elements(r) : x > y => y \in offloaded
      <3>1. Tidy(myring, offloaded)
        BY DEF OrderInv, AscInv
      <3> QED
        BY <3>1, QueueTypes, Split, SplitOrder
    <2> HIDE DEF f, r
    <2>3. /\ batch'["W"] = f /\ batch'["O"] = batch["O"] /\ pc'["W"] = "load" /\ pc'["O"] = pc["O"]
          /\ at'["O"] = at["O"] /\ nf'["O"] = nf["O"]
      BY <1>0, <2>1, QueueTypes DEF Push
    <2>4. Cross({}, Elements(f) \union Elements(r), {}, {}, {}, Elements(batch["O"]), offloaded, next)
      BY <1>0, <2>1, <2>2 DEF OrderInv, CrossInv
    <2>5. Cross({}, Elements(r), {}, {}, Elements(f), Elements(batch["O"]), offloaded, next)
      <3>1. Elements(f) \subseteq Nat /\ Elements(r) \subseteq Nat
        BY <2>2, ByPosition
      <3> QED
        BY <2>2, <2>4, <3>1, QueueTypes, CrossDrain
    <2>6. CrossInv'
      BY <1>0, <2>1, <2>3, <2>5 DEF CrossInv
    <2>7. AscInv'
      BY <2>1, <2>2, <2>3 DEF OrderInv, AscInv
    <2>8. SidesInv'
      BY <2>1, <2>3 DEF OrderInv, SidesInv, Cores
    <2> QED
      BY <2>6, <2>7, <2>8 DEF OrderInv
  <1>2. CASE DrainEnd
    <2>1. /\ myring = <<>> /\ ~myown' /\ UNCHANGED <<next, burst, off_pkts, offloaded, q, myring, batch, pc, at, nf>>
      BY <1>2 DEF DrainEnd, inputvars, posvars
    <2>2. AscInv' /\ CrossInv'
      BY <2>1 DEF OrderInv, AscInv, CrossInv
    <2>3. SidesInv'
      BY <2>1 DEF OrderInv, SidesInv
    <2> QED
      BY <2>2, <2>3 DEF OrderInv
  <1>3. CASE RunEnd
    <2>1. /\ pc["W"] = "run" /\ UNCHANGED <<next, burst, off_pkts, offloaded, q, myring, myown>>
          /\ \/ pc' = [pc EXCEPT !["W"] = "enqueue"] /\ UNCHANGED <<batch, at, nf>>
             \/ Push("W", batch["W"])
      BY <1>3 DEF RunEnd, inputvars, ringvars, posvars
    <2>2. /\ batch'["W"] = batch["W"] /\ batch'["O"] = batch["O"] /\ pc'["O"] = pc["O"]
          /\ at'["O"] = at["O"] /\ nf'["O"] = nf["O"] /\ at'["W"] = 1 /\ nf'["W"] = 1
      <3>1. at["W"] = 1 /\ nf["W"] = 1
        BY <2>1, QueueTypes DEF OrderInv, SidesInv
      <3>2. CASE pc' = [pc EXCEPT !["W"] = "enqueue"] /\ UNCHANGED <<batch, at, nf>>
        BY <1>0, <3>1, <3>2, QueueTypes
      <3>3. CASE Push("W", batch["W"])
        BY <1>0, <3>1, <3>3, QueueTypes DEF Push
      <3> QED
        BY <2>1, <3>2, <3>3
    <2>3. AscInv' /\ CrossInv'
      BY <2>1, <2>2 DEF OrderInv, AscInv, CrossInv
    <2>4. SidesInv'
      BY <2>1, <2>2 DEF OrderInv, SidesInv, Cores
    <2> QED
      BY <2>3, <2>4 DEF OrderInv
  <1>4. CASE DequeueBurst
    <2> DEFINE f == Front(q, BURST)
               r == Rest(q, BURST)
    <2>1. /\ batch["O"] = <<>> /\ q # <<>> /\ ~myown
          /\ UNCHANGED <<next, burst, off_pkts, offloaded, myring, myown>>
          /\ q' = r /\ Push("O", f)
      BY <1>4 DEF DequeueBurst, TypeInv, WorkType, OrderInv, SidesInv, Cores, inputvars
    <2>2. /\ Elements(q) = Elements(f) \union Elements(r) /\ f \in Seq(Nat) /\ r \in Seq(Nat)
          /\ Asc(f) /\ Asc(r) /\ Below(Elements(f), Elements(r))
      <3>1. Asc(q)
        BY DEF OrderInv, AscInv
      <3> QED
        BY <3>1, QueueTypes, Split, SplitOrder
    <2> HIDE DEF f, r
    <2>3. /\ batch'["O"] = f /\ batch'["W"] = batch["W"] /\ pc'["O"] = "load" /\ pc'["W"] = pc["W"]
          /\ at'["W"] = at["W"] /\ nf'["W"] = nf["W"]
      BY <1>0, <2>1, QueueTypes DEF Push
    <2>4. Cross(Elements(f) \union Elements(r), Elements(myring), Elements(burst), Elements(off_pkts),
                Elements(batch["W"]), {}, offloaded, next)
      BY <1>0, <2>1, <2>2 DEF OrderInv, CrossInv
    <2>5. Cross(Elements(r), Elements(myring), Elements(burst), Elements(off_pkts),
                Elements(batch["W"]), Elements(f), offloaded, next)
      <3>1. Elements(f) \subseteq Nat /\ Elements(r) \subseteq Nat
        BY <2>2, ByPosition
      <3> QED
        BY <2>2, <2>4, <3>1, QueueTypes, CrossDequeue
    <2>6. CrossInv'
      BY <2>1, <2>3, <2>5 DEF CrossInv
    <2>7. AscInv'
      BY <2>1, <2>2, <2>3 DEF OrderInv, AscInv
    <2>8. SidesInv'
      BY <2>1, <2>3 DEF OrderInv, SidesInv, Cores
    <2> QED
      BY <2>6, <2>7, <2>8 DEF OrderInv
  <1> QED
    BY <1>1, <1>2, <1>3, <1>4

(* The chain keeps it too: a batch leaves it as it came. *)
LEMMA OrderChain ==
  ASSUME TypeInv, OrderInv, NEW c \in Cores, Chain(c)
  PROVE  OrderInv'
  <1>0. /\ pc \in [Cores -> Label] /\ at \in [Cores -> Nat] /\ nf \in [Cores -> NF]
    BY DEF TypeInv, PosType
  <1>1. CASE Load(c) \/ Install(c) \/ Read(c) \/ NaptUpdate(c) \/ IdsUpdate(c)
    <2>1. /\ batch' = batch /\ UNCHANGED <<next, burst, off_pkts, offloaded, q, myring, myown>>
          /\ \A d \in Cores \ {c} : pc'[d] = pc[d] /\ at'[d] = at[d] /\ nf'[d] = nf[d]
      BY <1>1, ChainRings DEF inputvars, ringvars
    <2>2. pc'[c] \in {"install", "read", "write", "load", "tx"}
      <3>1. CASE Load(c) \/ Install(c) \/ Read(c)
        BY <1>0, <3>1 DEF Load, Install, Read
      <3>2. CASE NaptUpdate(c) \/ IdsUpdate(c)
        BY <3>2, AdvanceType DEF NaptUpdate, IdsUpdate
      <3> QED
        BY <1>1, <3>1, <3>2
    <2>3. AscInv' /\ CrossInv'
      BY <2>1 DEF OrderInv, AscInv, CrossInv
    <2>4. SidesInv'
      BY <2>1, <2>2 DEF OrderInv, SidesInv
    <2> QED
      BY <2>3, <2>4 DEF OrderInv
  <1>2. CASE Transmit(c)
    <2>1. /\ UNCHANGED <<next, burst, off_pkts, offloaded, q, myring, myown>>
          /\ batch' = [batch EXCEPT ![c] = <<>>] /\ at' = [at EXCEPT ![c] = 1] /\ nf' = [nf EXCEPT ![c] = 1]
          /\ \E l : pc' = [pc EXCEPT ![c] = l]
      BY <1>2 DEF Transmit, inputvars, ringvars
    <2>2. /\ batch'[c] = <<>> /\ at'[c] = 1 /\ nf'[c] = 1
          /\ \A d \in Cores \ {c} : /\ batch'[d] = batch[d] /\ pc'[d] = pc[d]
                                    /\ at'[d] = at[d] /\ nf'[d] = nf[d]
      BY <1>0, <2>1, QueueTypes
    <2>3. Elements(<<>>) = {} /\ Asc(<<>>) /\ Tidy(<<>>, offloaded)
      BY EmptyOrder
    <2>4. CrossInv' /\ AscInv'
      <3>1. CASE c = "W"
        <4>1. batch'["W"] = <<>> /\ batch'["O"] = batch["O"]
          BY <2>2, <3>1 DEF Cores
        <4>2. Cross(Elements(q), Elements(myring), Elements(burst), Elements(off_pkts),
                    {}, Elements(batch["O"]), offloaded, next)
          BY CrossSend DEF OrderInv, CrossInv
        <4> QED
          BY <2>1, <2>3, <4>1, <4>2 DEF OrderInv, AscInv, CrossInv
      <3>2. CASE c = "O"
        <4>1. batch'["O"] = <<>> /\ batch'["W"] = batch["W"]
          BY <2>2, <3>2 DEF Cores
        <4>2. Cross(Elements(q), Elements(myring), Elements(burst), Elements(off_pkts),
                    Elements(batch["W"]), {}, offloaded, next)
          BY CrossSend DEF OrderInv, CrossInv
        <4> QED
          BY <2>1, <2>3, <4>1, <4>2 DEF OrderInv, AscInv, CrossInv
      <3> QED
        BY <3>1, <3>2 DEF Cores
    <2>5. SidesInv'
      BY <2>1, <2>2 DEF OrderInv, SidesInv
    <2> QED
      BY <2>4, <2>5 DEF OrderInv
  <1> QED
    BY <1>1, <1>2 DEF Chain

(* Every step keeps the order of the queues. *)
LEMMA OrderStep ==
  ASSUME TypeInv, OrderInv, [Next]_vars
  PROVE  OrderInv'
  <1>1. CASE Input
    BY <1>1, OrderReceive, OrderTransfer DEF Input
  <1>2. CASE DrainBatch \/ DrainEnd \/ RunEnd \/ DequeueBurst
    BY <1>2, OrderStarts
  <1>3. CASE Run
    BY <1>3, OrderRun
  <1>4. CASE Enqueue
    BY <1>4, OrderEnqueue
  <1>5. ASSUME NEW c \in Cores, Chain(c) PROVE OrderInv'
    BY <1>5, OrderChain
  <1>6. CASE UNCHANGED vars
    BY <1>6 DEF vars, inputvars, ringvars, posvars, OrderInv, AscInv, CrossInv, SidesInv
  <1> QED
    BY <1>1, <1>2, <1>3, <1>4, <1>5, <1>6 DEF Next, Owner, Offloader, Cores

(* At first all queues are empty. *)
LEMMA OrderStart == Init => OrderInv
  <1> SUFFICES ASSUME Init PROVE OrderInv
    OBVIOUS
  <1>1. Elements(<<>>) = {} /\ Asc(<<>>) /\ Tidy(<<>>, {})
    BY EmptyOrder
  <1>2. /\ q = <<>> /\ myring = <<>> /\ burst = <<>> /\ off_pkts = <<>> /\ batch["W"] = <<>>
        /\ batch["O"] = <<>> /\ offloaded = {}
    BY DEF Init, Cores
  <1>3. CrossInv
    BY <1>1, <1>2 DEF CrossInv, Cross, Below
  <1>4. AscInv
    BY <1>1, <1>2 DEF AscInv
  <1>5. SidesInv
    BY <1>2 DEF Init, SidesInv
  <1> QED
    BY <1>3, <1>4, <1>5 DEF OrderInv

(* The packets core c has still to handle in DyNAPT, and those that no core *)
(* has handled there.                                                       *)
From(b, a, f) == {b[k] : k \in {j \in 1 .. Len(b) : f = 1 /\ j >= a}}
Todo(c) == From(batch[c], at[c], nf[c])
Pending ==
    Elements(q) \union Elements(myring) \union Elements(burst) \union Elements(off_pkts)
      \union Todo("W") \union Todo("O")

(* A packet handled before an earlier one that is still to be handled was   *)
(* handled by W, and the earlier one was left to O.                         *)
PastInv ==
    \A i \in 1 .. Len(handled) :
        /\ handled[i][1] < next
        /\ \A x \in Pending : handled[i][1] > x => handled[i][2] = "W" /\ x \in offloaded

(* A step that handles no packet and adds only later ones. *)
LEMMA PastKept ==
  ASSUME TypeInv, PastInv, handled' = handled, next \in Nat, next' \in Nat, next <= next',
         offloaded \subseteq offloaded',
         \A x \in Pending' : x \in Pending \/ (x \in Nat /\ x >= next)
  PROVE  PastInv'
  <1> SUFFICES ASSUME NEW i \in 1 .. Len(handled)
               PROVE  /\ handled[i][1] < next'
                      /\ \A x \in Pending' : handled[i][1] > x => handled[i][2] = "W" /\ x \in offloaded'
    BY DEF PastInv
  <1>1. handled[i][1] \in Nat
    <2>1. handled[i] \in Nat \X Cores
      BY ElementOfSeq DEF TypeInv, HistoryType
    <2> QED
      BY <2>1
  <1>2. /\ handled[i][1] < next
        /\ \A x \in Pending : handled[i][1] > x => handled[i][2] = "W" /\ x \in offloaded
    BY DEF PastInv
  <1>3. handled[i][1] < next'
    BY <1>1, <1>2
  <1>4. ASSUME NEW x \in Pending', handled[i][1] > x PROVE handled[i][2] = "W" /\ x \in offloaded'
    <2>1. CASE x \in Pending
      BY <1>2, <1>4, <2>1
    <2>2. CASE x \in Nat /\ x >= next
      BY <1>1, <1>2, <1>4, <2>2
    <2> QED
      BY <1>4, <2>1, <2>2
  <1> QED
    BY <1>3, <1>4

(* The batch of a core is to do when it starts; every packet handled leaves *)
(* those after it.                                                          *)
LEMMA FromBatch ==
  ASSUME NEW b \in Seq(Nat), NEW a \in Nat, NEW f
  PROVE  /\ From(b, a, f) \subseteq Elements(b) /\ From(b, 1, 1) = Elements(b)
         /\ f # 1 => From(b, a, f) = {}
         /\ From(b, a + 1, 1) \subseteq From(b, a, 1)
         /\ \A x \in From(b, a + 1, 1) : \E k \in 1 .. Len(b) : a < k /\ x = b[k]
  <1>1. Elements(b) = {b[k] : k \in 1 .. Len(b)} /\ Len(b) \in Nat
    BY ByPosition, LenProperties
  <1>2. From(b, a, f) \subseteq Elements(b) /\ (f # 1 => From(b, a, f) = {})
    BY <1>1 DEF From
  <1>3. From(b, 1, 1) = Elements(b)
    <2>1. \A k \in 1 .. Len(b) : k >= 1
      BY <1>1
    <2> QED
      BY <1>1, <2>1 DEF From
  <1>4. \A k \in 1 .. Len(b) : k >= a + 1 => k >= a /\ a < k
    BY <1>1
  <1> QED
    BY <1>2, <1>3, <1>4 DEF From

(* Arrivals are pending, and later than what was handled. *)
LEMMA PastInput ==
  ASSUME TypeInv, OrderInv, PastInv, Input
  PROVE  PastInv'
  <1>1. UNCHANGED <<batch, at, nf, handled, offloaded, off_pkts>>
    BY DEF Input, Receive, Transfer, posvars, nfvars
  <1>2. Todo("W")' = Todo("W") /\ Todo("O")' = Todo("O")
    BY <1>1 DEF Todo, From
  <1>3. ASSUME NEW n \in 1 .. BURST, Receive(n) PROVE PastInv'
    <2>1. n \in Nat /\ next \in Nat \ {0}
      BY Sizes, QueueTypes
    <2>2. Elements(burst') = next .. next + n - 1
      BY <1>3, <2>1, ArrivalOrder DEF Receive
    <2>3. \A x \in next .. next + n - 1 : x \in Nat /\ x >= next
      BY <2>1
    <2>4. UNCHANGED <<q, myring>> /\ next' = next + n
      BY <1>3 DEF Receive, ringvars
    <2>5. \A x \in Pending' : x \in Pending \/ (x \in Nat /\ x >= next)
      BY <1>1, <1>2, <2>2, <2>3, <2>4 DEF Pending
    <2>6. next' \in Nat /\ next <= next'
      BY <2>1, <2>4
    <2> QED
      BY <1>1, <2>1, <2>5, <2>6, PastKept
  <1>4. ASSUME NEW n \in 0 .. BURST, Transfer(n) PROVE PastInv'
    <2> DEFINE s == [k \in 1 .. n |-> next + k - 1]
    <2>1. n \in Nat /\ next \in Nat \ {0} /\ q \in Seq(Nat)
      BY Sizes, QueueTypes
    <2>2. s \in Seq(Nat) /\ Elements(s) = next .. next + n - 1
      BY <2>1, ArrivalOrder
    <2>3. \A x \in next .. next + n - 1 : x \in Nat /\ x >= next
      BY <2>1
    <2>4. UNCHANGED burst /\ q' = <<>> /\ myring' = s \o q /\ next' = next + n
      BY <1>4 DEF Transfer
    <2> HIDE DEF s
    <2>5. Elements(myring') = Elements(s) \union Elements(q)
      BY <2>1, <2>2, <2>4, ConcatOrder
    <2>6. Elements(q') = {}
      BY <2>4, EmptyOrder
    <2>7. \A x \in Pending' : x \in Pending \/ (x \in Nat /\ x >= next)
      BY <1>1, <1>2, <2>2, <2>3, <2>4, <2>5, <2>6 DEF Pending
    <2>8. next' \in Nat /\ next <= next'
      BY <2>1, <2>4
    <2> QED
      BY <1>1, <2>1, <2>7, <2>8, PastKept
  <1> QED
    BY <1>3, <1>4 DEF Input

(* Packets that move from queue to queue and into a batch stay pending. *)
LEMMA PastMoves ==
  ASSUME TypeInv, OrderInv, PastInv,
         DrainBatch \/ DrainEnd \/ RunEnd \/ DequeueBurst \/ Run \/ Enqueue
  PROVE  PastInv'
  <1>0. /\ handled' = handled /\ next' = next /\ offloaded \subseteq offloaded'
    BY DEF DrainBatch, DrainEnd, RunEnd, DequeueBurst, Run, Enqueue, inputvars, nfvars
  <1>1. /\ pc \in [Cores -> Label] /\ at \in [Cores -> Nat] /\ nf \in [Cores -> NF]
    BY DEF TypeInv, PosType
  <1> SUFFICES Pending' \subseteq Pending
    <2>1. next \in Nat /\ next <= next
      BY QueueTypes
    <2> QED
      BY <1>0, <2>1, PastKept
  <1>2. CASE DrainBatch
    <2> DEFINE f == Front(myring, BURST)
    <2>1. /\ UNCHANGED <<q, burst, off_pkts>> /\ myring' = Rest(myring, BURST) /\ Push("W", f)
      BY <1>2 DEF DrainBatch, inputvars
    <2>2. Elements(myring) = Elements(f) \union Elements(Rest(myring, BURST)) /\ f \in Seq(Nat)
      BY QueueTypes, SplitOrder, Split
    <2> HIDE DEF f
    <2>3. /\ batch'["W"] = f /\ at'["W"] = 1 /\ nf'["W"] = 1
          /\ at'["O"] = at["O"] /\ nf'["O"] = nf["O"] /\ batch'["O"] = batch["O"]
      BY <1>1, <2>1, QueueTypes DEF Push
    <2>4. Todo("O")' = Todo("O") /\ Todo("W")' = Elements(f)
      BY <2>2, <2>3, FromBatch DEF Todo
    <2> QED
      BY <2>1, <2>2, <2>4 DEF Pending
  <1>3. CASE DrainEnd
    BY <1>3 DEF DrainEnd, inputvars, posvars, Pending, Todo, From
  <1>4. CASE RunEnd
    <2>1. /\ pc["W"] = "run" /\ UNCHANGED <<burst, off_pkts, q, myring>>
          /\ \/ UNCHANGED <<batch, at, nf>>
             \/ Push("W", batch["W"])
      BY <1>4 DEF RunEnd, inputvars, ringvars, posvars
    <2>2. at["W"] = 1 /\ nf["W"] = 1
      BY <2>1, QueueTypes DEF OrderInv, SidesInv
    <2>3. /\ batch'["W"] = batch["W"] /\ at'["W"] = 1 /\ nf'["W"] = 1
          /\ at'["O"] = at["O"] /\ nf'["O"] = nf["O"] /\ batch'["O"] = batch["O"]
      BY <1>1, <2>1, <2>2, QueueTypes DEF Push
    <2>4. Todo("O")' = Todo("O") /\ Todo("W")' = Todo("W")
      BY <2>2, <2>3 DEF Todo
    <2> QED
      BY <2>1, <2>4 DEF Pending
  <1>5. CASE DequeueBurst
    <2> DEFINE f == Front(q, BURST)
    <2>1. /\ UNCHANGED <<myring, burst, off_pkts>> /\ q' = Rest(q, BURST) /\ Push("O", f)
      BY <1>5 DEF DequeueBurst, inputvars
    <2>2. Elements(q) = Elements(f) \union Elements(Rest(q, BURST)) /\ f \in Seq(Nat)
      BY QueueTypes, SplitOrder, Split
    <2> HIDE DEF f
    <2>3. /\ batch'["O"] = f /\ at'["O"] = 1 /\ nf'["O"] = 1
          /\ at'["W"] = at["W"] /\ nf'["W"] = nf["W"] /\ batch'["W"] = batch["W"]
      BY <1>1, <2>1, QueueTypes DEF Push
    <2>4. Todo("W")' = Todo("W") /\ Todo("O")' = Elements(f)
      BY <2>2, <2>3, FromBatch DEF Todo
    <2> QED
      BY <2>1, <2>2, <2>4 DEF Pending
  <1>6. CASE Run
    <2> DEFINE h == Head(burst)
    <2>1. /\ burst # <<>> /\ burst' = Tail(burst) /\ pc["W"] = "run" /\ UNCHANGED <<q, myring, at, nf>>
          /\ \/ off_pkts' = Append(off_pkts, h) /\ batch' = batch
             \/ off_pkts' = off_pkts /\ batch' = [batch EXCEPT !["W"] = Append(batch["W"], h)]
      BY <1>6 DEF Run, ringvars
    <2>2. Elements(burst) = {h} \union Elements(burst') /\ h \in Nat
      BY <2>1, QueueTypes, TailOrder, HeadTailProperties
    <2> HIDE DEF h
    <2>3. at["W"] = 1 /\ nf["W"] = 1
      BY <2>1, QueueTypes DEF OrderInv, SidesInv
    <2>4. CASE off_pkts' = Append(off_pkts, h) /\ batch' = batch
      <3>1. Elements(off_pkts') = Elements(off_pkts) \union {h}
        BY <2>2, <2>4, QueueTypes, AppendOrder
      <3>2. Todo("O")' = Todo("O") /\ Todo("W")' = Todo("W")
        BY <2>1, <2>4 DEF Todo
      <3> QED
        BY <2>1, <2>2, <3>1, <3>2 DEF Pending
    <2>5. CASE off_pkts' = off_pkts /\ batch' = [batch EXCEPT !["W"] = Append(batch["W"], h)]
      <3>1. batch'["W"] = Append(batch["W"], h) /\ batch'["O"] = batch["O"]
        BY <2>5, QueueTypes
      <3>2. Append(batch["W"], h) \in Seq(Nat) /\ Elements(Append(batch["W"], h)) = Elements(batch["W"]) \union {h}
        BY <2>2, QueueTypes, AppendOrder, AppendProperties
      <3>3. Todo("O")' = Todo("O") /\ Todo("W")' = From(Append(batch["W"], h), 1, 1)
        BY <2>1, <2>3, <3>1 DEF Todo
      <3>4. Todo("W") = Elements(batch["W"])
        BY <2>3, QueueTypes, FromBatch DEF Todo
      <3>5. Todo("W")' = Todo("W") \union {h}
        BY <3>2, <3>3, <3>4, FromBatch
      <3> QED
        BY <2>1, <2>2, <2>5, <3>3, <3>5 DEF Pending
    <2> QED
      BY <2>1, <2>4, <2>5
  <1>7. CASE Enqueue
    <2> DEFINE n == QSIZE - Len(q)
               f == Front(off_pkts, n)
    <2>1. /\ UNCHANGED <<burst, myring, batch, at, nf>> /\ q' = q \o f /\ off_pkts' = <<>>
      BY <1>7 DEF Enqueue, posvars
    <2>2. n \in Nat
      <3>1. Len(q) \in Nat /\ Len(q) <= QSIZE
        BY QueueTypes, LenProperties DEF TypeInv, RingType
      <3> QED
        BY <3>1, Sizes
    <2> HIDE DEF n
    <2>3. Elements(off_pkts) = Elements(f) \union Elements(Rest(off_pkts, n)) /\ f \in Seq(Nat)
      BY <2>2, QueueTypes, SplitOrder, Split
    <2> HIDE DEF f
    <2>4. Elements(q') = Elements(q) \union Elements(f) /\ Elements(off_pkts') = {}
      BY <2>1, <2>3, QueueTypes, ConcatOrder, EmptyOrder
    <2>5. Todo("O")' = Todo("O") /\ Todo("W")' = Todo("W")
      BY <2>1 DEF Todo
    <2> QED
      BY <2>1, <2>3, <2>4, <2>5 DEF Pending
  <1> QED
    BY <1>2, <1>3, <1>4, <1>5, <1>6, <1>7

(* Steps of the chain that do not end DyNAPT's work on a packet. *)
LEMMA PastChain ==
  ASSUME TypeInv, PastInv, NEW c \in Cores,
         Load(c) \/ Install(c) \/ Read(c) \/ IdsUpdate(c) \/ Transmit(c)
  PROVE  PastInv'
  <1>0. handled' = handled /\ UNCHANGED <<next, offloaded, q, myring, burst, off_pkts>>
    BY DEF Load, Install, Read, IdsUpdate, Transmit, inputvars, ringvars, nfvars
  <1>1. /\ batch \in [Cores -> Seq(Nat)] /\ at \in [Cores -> Nat] /\ nf \in [Cores -> NF]
    BY DEF TypeInv, PosType
  <1>2. ASSUME NEW d \in Cores PROVE Todo(d)' \subseteq Todo(d)
    <2>1. CASE Load(c) \/ Install(c) \/ Read(c)
      BY <2>1 DEF Load, Install, Read, posvars, Todo
    <2>2. CASE IdsUpdate(c)
      <3>1. CASE d = c
        <4>1. batch'[d] = batch[d] /\ nf'[d] = 2 /\ \E a \in Nat : at'[d] = a
          BY <1>1, <2>2, <3>1 DEF IdsUpdate, Advance
        <4>2. PICK a \in Nat : at'[d] = a
          BY <4>1
        <4>3. batch[d] \in Seq(Nat) /\ 2 # 1
          BY <1>1
        <4>4. From(batch[d], a, 2) = {}
          BY <4>3, FromBatch
        <4>5. Todo(d)' = {}
          BY <4>1, <4>2, <4>4 DEF Todo
        <4> QED
          BY <4>5
      <3>2. CASE d # c
        BY <1>1, <2>2, <3>2 DEF IdsUpdate, Advance, Todo
      <3> QED
        BY <3>1, <3>2
    <2>3. CASE Transmit(c)
      <3>1. CASE d = c
        <4>1. batch'[d] = <<>> /\ at'[d] = 1 /\ nf'[d] = 1
          BY <1>1, <2>3, <3>1 DEF Transmit
        <4>2. Todo(d)' = {}
          BY <4>1, FromBatch, EmptyOrder DEF Todo
        <4> QED
          BY <4>2
      <3>2. CASE d # c
        BY <1>1, <2>3, <3>2 DEF Transmit, Todo
      <3> QED
        BY <3>1, <3>2
    <2> QED
      BY <2>1, <2>2, <2>3
  <1>3. Pending' \subseteq Pending
    <2>1. Todo("W")' \subseteq Todo("W") /\ Todo("O")' \subseteq Todo("O")
      BY <1>2 DEF Cores
    <2> QED
      BY <1>0, <2>1 DEF Pending
  <1>4. next \in Nat /\ next <= next
    BY QueueTypes
  <1> QED
    BY <1>0, <1>3, <1>4, PastKept

(* The packet core c handles is pending; of those that stay, an earlier one *)
(* was left to O, and then it is W that handles the packet.                 *)
LEMMA HandledInOrder ==
  ASSUME TypeInv, OrderInv, NEW c \in Cores, NaptUpdate(c)
  PROVE  /\ Pkt(c) \in Pending /\ Pending' \subseteq Pending /\ Pkt(c) \in Nat /\ Pkt(c) < next
         /\ \A x \in Pending' : Pkt(c) > x => c = "W" /\ x \in offloaded
  <1> DEFINE b == batch[c]
             a == at[c]
             y == Pkt(c)
  <1>0. /\ pc[c] = "write" /\ nf[c] = 1 /\ b \in Seq(Nat) /\ a \in 1 .. Len(b) /\ a \in Nat
        /\ at \in [Cores -> Nat] /\ nf \in [Cores -> NF]
    BY DEF NaptUpdate, TypeInv, PosType, Working
  <1>1. y = b[a] /\ y \in Nat /\ Len(b) \in Nat
    BY <1>0, ElementOfSeq, LenProperties DEF Pkt
  <1>2. y \in Elements(b) /\ y \in Todo(c)
    BY <1>0, <1>1, ByPosition DEF Todo, From
  <1>3. /\ batch' = batch /\ UNCHANGED <<q, myring, burst, off_pkts>>
        /\ \A d \in Cores \ {c} : at'[d] = at[d] /\ nf'[d] = nf[d]
    BY ChainRings DEF inputvars, ringvars
  <1>4. \A d \in Cores \ {c} : Todo(d)' = Todo(d)
    BY <1>3 DEF Todo
  <1>5. \/ at'[c] = a + 1 /\ nf'[c] = 1
        \/ nf'[c] = 2 /\ at'[c] = 1
    BY <1>0 DEF NaptUpdate, Advance
  <1>6. /\ Todo(c)' \subseteq Todo(c)
        /\ \A x \in Todo(c)' : \E k \in 1 .. Len(b) : a < k /\ x = b[k]
    <2>1. CASE at'[c] = a + 1 /\ nf'[c] = 1
      <3>1. Todo(c)' = From(b, a + 1, 1) /\ Todo(c) = From(b, a, 1)
        BY <1>0, <1>3, <2>1 DEF Todo
      <3> HIDE DEF a, b
      <3>2. /\ From(b, a + 1, 1) \subseteq From(b, a, 1)
            /\ \A x \in From(b, a + 1, 1) : \E k \in 1 .. Len(b) : a < k /\ x = b[k]
        BY <1>0, FromBatch
      <3> QED
        BY <3>1, <3>2
    <2>2. CASE nf'[c] = 2 /\ at'[c] = 1
      <3>1. Todo(c)' = From(b, 1, 2) /\ 2 # 1
        BY <1>3, <2>2 DEF Todo
      <3>2. From(b, 1, 2) = {}
        BY <1>0, <3>1, FromBatch
      <3> QED
        BY <3>1, <3>2
    <2> QED
      BY <1>5, <2>1, <2>2
  <1> DEFINE Q == Elements(q)
             R == Elements(myring)
             B == Elements(burst)
             P == Elements(off_pkts)
             W == Elements(batch["W"])
             V == Elements(batch["O"])
  <1>7. Cross(Q, R, B, P, W, V, offloaded, next)
    BY DEF OrderInv, CrossInv
  <1>8. Todo("W") \subseteq W /\ Todo("O") \subseteq V
    BY QueueTypes, FromBatch DEF Todo, TypeInv, PosType
  <1>9. Q \subseteq Nat /\ R \subseteq Nat /\ B \subseteq Nat /\ P \subseteq Nat /\ W \subseteq Nat /\ V \subseteq Nat
        /\ next \in Nat
    BY QueueTypes
  <1>10. Pending = Q \union R \union B \union P \union Todo("W") \union Todo("O")
    BY DEF Pending
  <1>11. Pending' = Q \union R \union B \union P \union Todo("W")' \union Todo("O")'
    BY <1>3 DEF Pending
  <1> HIDE DEF y, a, b, Q, R, B, P, W, V
  <1>12. y \in Pending /\ Pending' \subseteq Pending
    <2>1. CASE c = "W"
      BY <1>2, <1>4, <1>6, <1>10, <1>11, <2>1 DEF Cores
    <2>2. CASE c = "O"
      BY <1>2, <1>4, <1>6, <1>10, <1>11, <2>2 DEF Cores
    <2> QED
      BY <2>1, <2>2 DEF Cores
  <1>13. y < next
    BY <1>7, <1>8, <1>10, <1>12 DEF Cross, Below
  <1>14. ASSUME NEW x \in Pending', y > x PROVE c = "W" /\ x \in offloaded
    <2>1. CASE c = "W"
      <3>1. Todo("O")' = Todo("O") /\ y \in W /\ b = batch["W"]
        BY <1>2, <1>4, <2>1 DEF Cores, W, b
      <3>2. B = {}
        <4>1. burst = <<>>
          BY <1>0, <2>1 DEF TypeInv, WorkType
        <4> QED
          BY <4>1, EmptyOrder DEF B
      <3>3. CASE x \in Todo("W")'
        <4>1. PICK k \in 1 .. Len(b) : a < k /\ x = b[k]
          BY <1>6, <2>1, <3>3
        <4>2. Tidy(b, offloaded)
          BY <3>1 DEF OrderInv, AscInv
        <4> QED
          BY <1>0, <1>1, <1>14, <2>1, <4>1, <4>2 DEF Tidy
      <3>4. CASE x \in R
        BY <1>7, <1>14, <2>1, <3>1, <3>4 DEF Cross
      <3>5. CASE x \in Q \union P \union Todo("O")
        BY <1>7, <1>8, <2>1, <3>5 DEF Cross
      <3> QED
        BY <1>11, <1>14, <3>1, <3>2, <3>3, <3>4, <3>5
    <2>2. CASE c = "O"
      <3>1. Todo("W")' = Todo("W") /\ y \in V /\ b = batch["O"]
        BY <1>2, <1>4, <2>2 DEF Cores, V, b
      <3>2. CASE x \in Todo("O")'
        <4>1. PICK k \in 1 .. Len(b) : a < k /\ x = b[k]
          BY <1>6, <2>2, <3>2
        <4>2. Asc(b) /\ x \in Nat
          BY <1>0, <3>1, <4>1, ElementOfSeq DEF OrderInv, AscInv
        <4>3. y < x
          BY <1>0, <1>1, <4>1, <4>2 DEF Asc
        <4> QED
          BY <1>1, <1>14, <4>2, <4>3
      <3>3. CASE x \in Q \union R \union B \union P \union Todo("W")
        <4>1. y < x /\ x \in Nat
          BY <1>7, <1>8, <1>9, <3>1, <3>3 DEF Cross, Below
        <4> QED
          BY <1>1, <1>14, <4>1
      <3> QED
        BY <1>11, <1>14, <3>1, <3>2, <3>3
    <2> QED
      BY <2>1, <2>2 DEF Cores
  <1> QED
    BY <1>1, <1>12, <1>13, <1>14 DEF y

(* A packet is handled. *)
LEMMA PastHandle ==
  ASSUME TypeInv, OrderInv, PastInv, OvertakenOnlyByOwner, NEW c \in Cores, NaptUpdate(c)
  PROVE  PastInv' /\ OvertakenOnlyByOwner'
  <1> DEFINE y == Pkt(c)
             l == Len(handled)
  <1>1. /\ y \in Pending /\ Pending' \subseteq Pending /\ y \in Nat /\ y < next
        /\ \A x \in Pending' : y > x => c = "W" /\ x \in offloaded
    BY HandledInOrder
  <1>2. handled' = Append(handled, <<y, c>>) /\ next' = next /\ offloaded' = offloaded
    BY DEF NaptUpdate, inputvars
  <1>3. handled \in Seq(Nat \X Cores) /\ <<y, c>> \in Nat \X Cores
    BY <1>1 DEF TypeInv, HistoryType
  <1>4. /\ handled' \in Seq(Nat \X Cores) /\ l \in Nat /\ Len(handled') = l + 1
        /\ handled'[l + 1] = <<y, c>> /\ \A i \in 1 .. l : handled'[i] = handled[i]
    BY <1>2, <1>3, AppendProperties, LenProperties
  <1>5. DOMAIN handled' = 1 .. l + 1 /\ DOMAIN handled = 1 .. l
    BY <1>3, <1>4, LenProperties
  <1>6. \A i \in 1 .. l : /\ handled[i][1] < next
                          /\ \A x \in Pending : handled[i][1] > x => handled[i][2] = "W" /\ x \in offloaded
    BY DEF PastInv
  <1> HIDE DEF y, l
  <1>7. \A i \in 1 .. l + 1 : i \in 1 .. l \/ i = l + 1
    BY <1>4
  <1>8. PastInv'
    <2> SUFFICES ASSUME NEW i \in 1 .. l + 1
                 PROVE  /\ handled'[i][1] < next
                        /\ \A x \in Pending' : handled'[i][1] > x => handled'[i][2] = "W" /\ x \in offloaded
      BY <1>2, <1>4 DEF PastInv
    <2>1. CASE i \in 1 .. l
      BY <1>1, <1>4, <1>6, <2>1
    <2>2. CASE i = l + 1
      BY <1>1, <1>4, <2>2
    <2> QED
      BY <1>7, <2>1, <2>2
  <1>9. OvertakenOnlyByOwner'
    <2> SUFFICES ASSUME NEW i \in 1 .. l + 1, NEW j \in 1 .. l + 1, i < j, handled'[i][1] > handled'[j][1]
                 PROVE  handled'[i][2] = "W" /\ handled'[j][1] \in offloaded
      BY <1>2, <1>5 DEF OvertakenOnlyByOwner
    <2>0. i \in 1 .. l
      BY <1>4
    <2>1. CASE j \in 1 .. l
      BY <1>4, <1>5, <2>0, <2>1 DEF OvertakenOnlyByOwner
    <2>2. CASE j = l + 1
      BY <1>1, <1>4, <1>6, <2>0, <2>2
    <2> QED
      BY <1>7, <2>1, <2>2
  <1> QED
    BY <1>8, <1>9

(* Every step keeps both. *)
LEMMA PastStep ==
  ASSUME TypeInv, OrderInv, PastInv, OvertakenOnlyByOwner, [Next]_vars
  PROVE  PastInv' /\ OvertakenOnlyByOwner'
  <1>1. ASSUME NEW c \in Cores, NaptUpdate(c) PROVE PastInv' /\ OvertakenOnlyByOwner'
    BY <1>1, PastHandle
  <1>2. ASSUME handled' = handled, offloaded \subseteq offloaded' PROVE OvertakenOnlyByOwner'
    BY <1>2 DEF OvertakenOnlyByOwner
  <1>3. CASE Input
    <2>1. handled' = handled /\ offloaded' = offloaded
      BY <1>3 DEF Input, Receive, Transfer, nfvars
    <2> QED
      BY <1>2, <1>3, <2>1, PastInput
  <1>4. CASE DrainBatch \/ DrainEnd \/ RunEnd \/ DequeueBurst \/ Run \/ Enqueue
    <2>1. handled' = handled /\ offloaded \subseteq offloaded'
      BY <1>4 DEF DrainBatch, DrainEnd, RunEnd, DequeueBurst, Run, Enqueue, inputvars, nfvars
    <2> QED
      BY <1>2, <1>4, <2>1, PastMoves
  <1>5. ASSUME NEW c \in Cores, Load(c) \/ Install(c) \/ Read(c) \/ IdsUpdate(c) \/ Transmit(c)
        PROVE  PastInv' /\ OvertakenOnlyByOwner'
    <2>1. handled' = handled /\ offloaded' = offloaded
      BY <1>5 DEF Load, Install, Read, IdsUpdate, Transmit, inputvars, nfvars
    <2> QED
      BY <1>2, <1>5, <2>1, PastChain
  <1>6. CASE UNCHANGED vars
    BY <1>6 DEF vars, inputvars, ringvars, posvars, nfvars, PastInv, Pending, Todo, OvertakenOnlyByOwner
  <1> QED
    BY <1>1, <1>3, <1>4, <1>5, <1>6 DEF Next, Owner, Offloader, Chain, Cores

(* Packets of the flow are handled out of their order in one case only: W   *)
(* handles a later packet while an earlier one, which run left to the       *)
(* offloading core, is still on its way.  O never overtakes, and neither    *)
(* does a drain of q (transfer_r, transfer_offloading) put back in the ring.*)
THEOREM OvertakenCorrect == Spec => []OvertakenOnlyByOwner
  <1>1. Init => OrderInv /\ PastInv /\ OvertakenOnlyByOwner
    <2>1. Init => OrderInv
      BY OrderStart
    <2>2. Init => PastInv /\ OvertakenOnlyByOwner
      <3> SUFFICES ASSUME Init PROVE PastInv /\ OvertakenOnlyByOwner
        OBVIOUS
      <3>1. handled = <<>> /\ Len(<<>>) = 0 /\ DOMAIN <<>> = 1 .. 0
        BY EmptySeq DEF Init
      <3> QED
        BY <3>1 DEF PastInv, OvertakenOnlyByOwner
    <2> QED
      BY <2>1, <2>2
  <1>2. TypeInv /\ OrderInv /\ [Next]_vars => OrderInv'
    BY OrderStep
  <1>3. TypeInv /\ OrderInv /\ PastInv /\ OvertakenOnlyByOwner /\ [Next]_vars
          => (PastInv /\ OvertakenOnlyByOwner)'
    BY PastStep
  <1> QED
    BY <1>1, <1>2, <1>3, TypeInvariant, PTL DEF Spec

-----------------------------------------------------------------------------
(* Every packet is in one place.                                            *)

(* A queue that holds no packet twice, and the places a packet may be in:   *)
(* q (Q), myring (R), burst (B), off_pkts (P), the batches of W and O (V),  *)
(* sent (S) and leaked (L).                                                 *)
Distinct(s) == \A i, j \in 1 .. Len(s) : s[i] = s[j] => i = j
Places(Q, R, B, P, W, V, S, L) == <<Q, R, B, P, W, V, S, L>>
Spot == {1, 2, 3, 4, 5, 6, 7, 8}

(* The places f part the packets that arrived before n. *)
Parted(f, n) ==
    /\ \A i \in Spot : f[i] \subseteq 1 .. n - 1
    /\ \A p \in 1 .. n - 1 : \E i \in Spot : p \in f[i]
    /\ \A i, j \in Spot : \A p \in f[i] : p \in f[j] => i = j

(* Every packet that arrived is in one place, and there once. *)
OnceInv ==
    /\ Parted(Places(Elements(q), Elements(myring), Elements(burst), Elements(off_pkts),
                     Elements(batch["W"]), Elements(batch["O"]), sent, leaked), next)
    /\ Distinct(q) /\ Distinct(myring) /\ Distinct(burst) /\ Distinct(off_pkts)
    /\ Distinct(batch["W"]) /\ Distinct(batch["O"])

(* One packet more. *)
LEMMA AppendDistinct ==
  ASSUME NEW s \in Seq(Nat), NEW e \in Nat, Distinct(s), e \notin Elements(s)
  PROVE  Distinct(Append(s, e))
  <1> DEFINE t == Append(s, e)
             l == Len(s)
  <1>1. /\ t \in Seq(Nat) /\ l \in Nat /\ Len(t) = l + 1 /\ t[l + 1] = e
        /\ \A i \in 1 .. l : t[i] = s[i]
    BY AppendProperties, LenProperties
  <1>2. \A k \in 1 .. l : s[k] # e
    BY ByPosition DEF l
  <1>3. \A i, j \in 1 .. l : s[i] = s[j] => i = j
    BY DEF Distinct, l
  <1> HIDE DEF t, l
  <1>4. \A k \in 1 .. l + 1 : k \in 1 .. l \/ k = l + 1
    BY <1>1
  <1>5. \A i, j \in 1 .. l + 1 : t[i] = t[j] => i = j
    BY <1>1, <1>2, <1>3, <1>4
  <1> QED
    BY <1>1, <1>5 DEF Distinct, t

(* One packet less. *)
LEMMA TailDistinct ==
  ASSUME NEW s \in Seq(Nat), s # <<>>, Distinct(s)
  PROVE  Distinct(Tail(s)) /\ Head(s) \notin Elements(Tail(s))
  <1> DEFINE t == Tail(s)
             l == Len(t)
  <1>1. /\ t \in Seq(Nat) /\ l \in Nat /\ Len(s) = l + 1 /\ Head(s) = s[1]
        /\ \A i \in 1 .. l : t[i] = s[i + 1]
    BY HeadTailProperties, LenProperties, EmptySeq
  <1>2. Elements(t) = {t[k] : k \in 1 .. l}
    BY <1>1, ByPosition
  <1>3. \A i, j \in 1 .. Len(s) : s[i] = s[j] => i = j
    BY DEF Distinct
  <1> HIDE DEF t, l
  <1>4. \A k \in 1 .. l : k + 1 \in 1 .. Len(s) /\ k + 1 # 1
    BY <1>1
  <1>5. 1 \in 1 .. Len(s)
    BY <1>1
  <1>6. \A i, j \in 1 .. l : i + 1 = j + 1 => i = j
    BY <1>1
  <1>7. \A i, j \in 1 .. l : t[i] = t[j] => i = j
    BY <1>1, <1>3, <1>4, <1>6
  <1>8. \A k \in 1 .. l : t[k] # s[1]
    BY <1>1, <1>3, <1>4, <1>5
  <1> QED
    BY <1>1, <1>2, <1>7, <1>8 DEF Distinct, t, l

(* A burst and what it leaves have no packet in common. *)
LEMMA SplitDistinct ==
  ASSUME NEW s \in Seq(Nat), NEW n \in Nat, Distinct(s)
  PROVE  /\ Distinct(Front(s, n)) /\ Distinct(Rest(s, n))
         /\ Elements(Front(s, n)) \intersect Elements(Rest(s, n)) = {}
  <1> DEFINE f == Front(s, n)
             r == Rest(s, n)
             m == Least(n, Len(s))
             l == Len(s)
  <1>1. /\ m \in 0 .. l /\ f \in Seq(Nat) /\ r \in Seq(Nat) /\ Len(f) = m /\ Len(r) = l - m
        /\ \A k \in 1 .. m : f[k] = s[k]
        /\ \A k \in 1 .. l - m : r[k] = s[k + m]
    BY Split
  <1>2. l \in Nat
    BY LenProperties
  <1>3. \A i, j \in 1 .. l : s[i] = s[j] => i = j
    BY DEF Distinct
  <1>4. Elements(f) = {f[k] : k \in 1 .. m} /\ Elements(r) = {r[k] : k \in 1 .. l - m}
    BY <1>1, ByPosition
  <1> HIDE DEF f, r, m, l
  <1>5. \A k \in 1 .. m : k \in 1 .. l
    BY <1>1, <1>2
  <1>6. \A k \in 1 .. l - m : k + m \in 1 .. l /\ k + m > m
    BY <1>1, <1>2
  <1>7. \A i, j \in 1 .. l - m : i + m = j + m => i = j
    BY <1>1, <1>2
  <1>8. ASSUME NEW i \in 1 .. m, NEW j \in 1 .. m, f[i] = f[j] PROVE i = j
    <2>1. i \in 1 .. l /\ j \in 1 .. l
      BY <1>5
    <2>2. s[i] = s[j]
      BY <1>1, <1>8
    <2> QED
      BY <1>3, <2>1, <2>2
  <1>9. \A i, j \in 1 .. l - m : r[i] = r[j] => i = j
    BY <1>1, <1>3, <1>6, <1>7
  <1>10. ASSUME NEW i \in 1 .. m, NEW j \in 1 .. l - m, f[i] = r[j] PROVE FALSE
    <2>1. s[i] = s[j + m] /\ i \in 1 .. l /\ j + m \in 1 .. l /\ j + m > m
      BY <1>1, <1>5, <1>6, <1>10
    <2>2. i = j + m
      BY <1>3, <2>1
    <2> QED
      BY <1>1, <1>2, <2>1, <2>2
  <1>11. Distinct(f) /\ Distinct(r)
    BY <1>1, <1>8, <1>9 DEF Distinct
  <1>12. Elements(f) \intersect Elements(r) = {}
    BY <1>4, <1>10
  <1> QED
    BY <1>11, <1>12 DEF f, r

(* Two queues with no packet in common. *)
LEMMA ConcatDistinct ==
  ASSUME NEW s \in Seq(Nat), NEW t \in Seq(Nat), Distinct(s), Distinct(t),
         Elements(s) \intersect Elements(t) = {}
  PROVE  Distinct(s \o t)
  <1> DEFINE u == s \o t
             l == Len(s)
             m == Len(t)
  <1>1. /\ u \in Seq(Nat) /\ Len(u) = l + m
        /\ \A i \in 1 .. l + m : u[i] = IF i <= l THEN s[i] ELSE t[i - l]
    BY ConcatProperties
  <1>2. l \in Nat /\ m \in Nat
    BY LenProperties
  <1>3. /\ \A i, j \in 1 .. l : s[i] = s[j] => i = j
        /\ \A i, j \in 1 .. m : t[i] = t[j] => i = j
    BY DEF Distinct
  <1>4. \A i \in 1 .. l, j \in 1 .. m : s[i] # t[j]
    BY ByPosition DEF l, m
  <1> HIDE DEF u, l, m
  <1>5. \A i \in 1 .. l + m : \/ i \in 1 .. l /\ u[i] = s[i]
                              \/ i - l \in 1 .. m /\ u[i] = t[i - l]
    BY <1>1, <1>2
  <1>6. \A i, j \in 1 .. l + m : i - l = j - l => i = j
    BY <1>2
  <1>7. \A i, j \in 1 .. l + m : u[i] = u[j] => i = j
    BY <1>3, <1>4, <1>5, <1>6
  <1> QED
    BY <1>1, <1>7 DEF Distinct, u

(* Packets as they arrive, and none. *)
LEMMA ArrivalDistinct ==
  ASSUME NEW n \in Nat, NEW a \in Nat \ {0}
  PROVE  Distinct([k \in 1 .. n |-> a + k - 1]) /\ Distinct(<<>>)
  <1> DEFINE s == [k \in 1 .. n |-> a + k - 1]
  <1>1. Len(s) = n
    BY Arrivals
  <1>2. \A k \in 1 .. n : s[k] = a + k - 1
    OBVIOUS
  <1> HIDE DEF s
  <1>3. \A i, j \in 1 .. n : a + i - 1 = a + j - 1 => i = j
    OBVIOUS
  <1>4. Distinct(s)
    BY <1>1, <1>2, <1>3 DEF Distinct
  <1>5. Distinct(<<>>)
    BY EmptySeq DEF Distinct
  <1> QED
    BY <1>4, <1>5 DEF s

(* A queue without repetition has as many packets as it is long. *)
LEMMA DistinctCount ==
  ASSUME NEW s \in Seq(Nat), Distinct(s)
  PROVE  IsFiniteSet(Elements(s)) /\ Cardinality(Elements(s)) = Len(s)
  <1> DEFINE n == Len(s)
             T == Elements(s)
             f == [k \in 1 .. n |-> s[k]]
  <1>1. n \in Nat /\ T = {s[k] : k \in 1 .. n}
    BY LenProperties, ByPosition
  <1>2. \A a, b \in 1 .. n : s[a] = s[b] => a = b
    BY DEF Distinct
  <1> HIDE DEF T, n
  <1>4. f \in [1 .. n -> T]
    BY <1>1
  <1>5. \A a, b \in 1 .. n : f[a] = f[b] => a = b
    BY <1>2
  <1>6. \A t \in T : \E k \in 1 .. n : f[k] = t
    BY <1>1
  <1>7. ExistsBijection(1 .. n, T)
    BY <1>4, <1>5, <1>6 DEF ExistsBijection, Bijection, Injection, Surjection, IsInjective
  <1>8. IsFiniteSet(1 .. n) /\ Cardinality(1 .. n) = n
    BY <1>1, FS_Interval
  <1>9. IsFiniteSet(T) /\ Cardinality(T) = n
    BY <1>7, <1>8, FS_Bijection
  <1> QED
    BY <1>9 DEF T, n

(* The places by number. *)
LEMMA PlacesAt ==
  ASSUME NEW Q, NEW R, NEW B, NEW P, NEW W, NEW V, NEW S, NEW L
  PROVE  LET f == Places(Q, R, B, P, W, V, S, L)
         IN  /\ f[1] = Q /\ f[2] = R /\ f[3] = B /\ f[4] = P
             /\ f[5] = W /\ f[6] = V /\ f[7] = S /\ f[8] = L
             /\ DOMAIN f = Spot
  BY DEF Places, Spot

(* Packets that move from one place to another are still in one place. *)
LEMMA MoveParted ==
  ASSUME NEW f, NEW g, NEW n \in Nat, NEW i \in Spot, NEW j \in Spot, NEW M,
         Parted(f, n), i # j, M \subseteq f[i], g[i] = f[i] \ M, g[j] = f[j] \union M,
         \A k \in Spot : k # i /\ k # j => g[k] = f[k]
  PROVE  Parted(g, n)
  <1>1. ASSUME NEW k \in Spot, NEW p \in g[k]
        PROVE  \/ p \in f[k] /\ (k = i => p \notin M)
               \/ k = j /\ p \in M
    <2>1. CASE k = i
      BY <1>1, <2>1
    <2>2. CASE k = j
      BY <1>1, <2>2
    <2>3. CASE k # i /\ k # j
      BY <1>1, <2>3
    <2> QED
      BY <2>1, <2>2, <2>3
  <1>2. ASSUME NEW k \in Spot PROVE g[k] \subseteq 1 .. n - 1
    BY <1>1, <1>2 DEF Parted
  <1>3. ASSUME NEW p \in 1 .. n - 1 PROVE \E k \in Spot : p \in g[k]
    <2>1. PICK k \in Spot : p \in f[k]
      BY <1>3 DEF Parted
    <2>2. CASE p \in M
      BY <2>2
    <2>3. CASE p \notin M
      BY <2>1, <2>3
    <2> QED
      BY <2>2, <2>3
  <1>4. ASSUME NEW k \in Spot, NEW m \in Spot, NEW p \in g[k], p \in g[m] PROVE k = m
    <2>1. \A a, b \in Spot : p \in f[a] /\ p \in f[b] => a = b
      BY DEF Parted
    <2>2. p \in M => p \in f[i]
      OBVIOUS
    <2>3. (p \in f[k] /\ (k = i => p \notin M)) \/ (k = j /\ p \in M)
      BY <1>1, <1>4
    <2>4. (p \in f[m] /\ (m = i => p \notin M)) \/ (m = j /\ p \in M)
      BY <1>1, <1>4
    <2> QED
      BY <2>1, <2>2, <2>3, <2>4
  <1> QED
    BY <1>2, <1>3, <1>4 DEF Parted

(* Packets that arrive are in one place. *)
LEMMA AddParted ==
  ASSUME NEW f, NEW g, NEW n \in Nat \ {0}, NEW m \in Nat, NEW j \in Spot,
         Parted(f, n), g[j] = f[j] \union (n .. n + m - 1),
         \A k \in Spot : k # j => g[k] = f[k]
  PROVE  Parted(g, n + m)
  <1> DEFINE M == n .. n + m - 1
  <1>1. \A p \in M : p \notin 1 .. n - 1 /\ p \in 1 .. (n + m) - 1
    OBVIOUS
  <1>2. \A p \in 1 .. n - 1 : p \in 1 .. (n + m) - 1
    OBVIOUS
  <1>3. \A p \in 1 .. (n + m) - 1 : p \in 1 .. n - 1 \/ p \in M
    OBVIOUS
  <1>4. g[j] = f[j] \union M
    OBVIOUS
  <1> DEFINE N == 1 .. n - 1
             K == 1 .. (n + m) - 1
  <1>5. /\ \A i \in Spot : f[i] \subseteq N
        /\ \A p \in N : \E i \in Spot : p \in f[i]
        /\ \A a, b \in Spot : \A p \in f[a] : p \in f[b] => a = b
    BY DEF Parted
  <1>6. /\ \A p \in M : p \notin N /\ p \in K
        /\ \A p \in N : p \in K
        /\ \A p \in K : p \in N \/ p \in M
    BY <1>1, <1>2, <1>3
  <1> HIDE DEF M, N, K
  <1>7. ASSUME NEW k \in Spot, NEW p \in g[k] PROVE (p \in f[k] /\ p \in N) \/ (k = j /\ p \in M)
    BY <1>4, <1>5, <1>7
  <1>8. ASSUME NEW k \in Spot PROVE g[k] \subseteq K
    BY <1>6, <1>7, <1>8
  <1>9. ASSUME NEW p \in K PROVE \E k \in Spot : p \in g[k]
    <2>1. CASE p \in M
      BY <1>4, <2>1
    <2>2. CASE p \in N
      BY <1>4, <1>5, <2>2
    <2> QED
      BY <1>6, <1>9, <2>1, <2>2
  <1>10. ASSUME NEW k \in Spot, NEW l \in Spot, NEW p \in g[k], p \in g[l] PROVE k = l
    <2>1. (p \in f[k] /\ p \in N) \/ (k = j /\ p \in M)
      BY <1>7, <1>10
    <2>2. (p \in f[l] /\ p \in N) \/ (l = j /\ p \in M)
      BY <1>7, <1>10
    <2> QED
      BY <1>5, <1>6, <2>1, <2>2
  <1> QED
    BY <1>8, <1>9, <1>10 DEF Parted, K

(* The moves of the model: W takes back what is in q, with others from the  *)
(* NIC ...                                                                  *)
LEMMA PartTransfer ==
  ASSUME NEW Q, NEW B, NEW P, NEW W, NEW V, NEW S, NEW L, NEW n \in Nat \ {0}, NEW m \in Nat,
         Parted(Places(Q, {}, B, P, W, V, S, L), n)
  PROVE  Parted(Places({}, (n .. n + m - 1) \union Q, B, P, W, V, S, L), n + m)
  <1> DEFINE f == Places(Q, {}, B, P, W, V, S, L)
             g == Places({}, Q, B, P, W, V, S, L)
             h == Places({}, (n .. n + m - 1) \union Q, B, P, W, V, S, L)
  <1>1. /\ f[1] = Q /\ f[2] = {} /\ f[3] = B /\ f[4] = P /\ f[5] = W /\ f[6] = V /\ f[7] = S /\ f[8] = L
        /\ g[1] = {} /\ g[2] = Q /\ g[3] = B /\ g[4] = P /\ g[5] = W /\ g[6] = V /\ g[7] = S /\ g[8] = L
        /\ h[1] = {} /\ h[2] = (n .. n + m - 1) \union Q
        /\ h[3] = B /\ h[4] = P /\ h[5] = W /\ h[6] = V /\ h[7] = S /\ h[8] = L
    BY PlacesAt
  <1> HIDE DEF f, g, h
  <1>2. 1 \in Spot /\ 2 \in Spot
    BY DEF Spot
  <1>3. Parted(g, n)
    <2>1. Parted(f, n)
      BY DEF f
    <2>2. Q \subseteq f[1] /\ g[1] = f[1] \ Q /\ g[2] = f[2] \union Q
      BY <1>1
    <2>3. \A k \in Spot : k # 1 /\ k # 2 => g[k] = f[k]
      BY <1>1 DEF Spot
    <2> QED
      BY <1>2, <2>1, <2>2, <2>3, MoveParted
  <1>4. Parted(h, n + m)
    <2>1. h[2] = g[2] \union (n .. n + m - 1)
      BY <1>1
    <2>2. \A k \in Spot : k # 2 => h[k] = g[k]
      BY <1>1 DEF Spot
    <2> QED
      BY <1>2, <1>3, <2>1, <2>2, AddParted
  <1> QED
    BY <1>4 DEF h

(* ... or receives a burst ... *)
LEMMA PartReceive ==
  ASSUME NEW Q, NEW R, NEW P, NEW W, NEW V, NEW S, NEW L, NEW n \in Nat \ {0}, NEW m \in Nat,
         Parted(Places(Q, R, {}, P, W, V, S, L), n)
  PROVE  Parted(Places(Q, R, n .. n + m - 1, P, W, V, S, L), n + m)
  <1> DEFINE f == Places(Q, R, {}, P, W, V, S, L)
             g == Places(Q, R, n .. n + m - 1, P, W, V, S, L)
  <1>1. /\ f[1] = Q /\ f[2] = R /\ f[3] = {} /\ f[4] = P /\ f[5] = W /\ f[6] = V /\ f[7] = S /\ f[8] = L
        /\ g[1] = Q /\ g[2] = R /\ g[3] = n .. n + m - 1
        /\ g[4] = P /\ g[5] = W /\ g[6] = V /\ g[7] = S /\ g[8] = L
    BY PlacesAt
  <1>2. Parted(f, n)
    OBVIOUS
  <1> HIDE DEF f, g
  <1>3. g[3] = f[3] \union (n .. n + m - 1)
    BY <1>1
  <1>4. 3 \in Spot /\ \A k \in Spot : k # 3 => g[k] = f[k]
    BY <1>1 DEF Spot
  <1>5. Parted(g, n + m)
    BY <1>2, <1>3, <1>4, AddParted
  <1> QED
    BY <1>5 DEF g

(* ... of which every packet goes to one side or the other; ... *)
LEMMA PartRun ==
  ASSUME NEW Q, NEW R, NEW B, NEW P, NEW W, NEW V, NEW S, NEW L, NEW n \in Nat, NEW e,
         Parted(Places(Q, R, {e} \union B, P, W, V, S, L), n), e \notin B
  PROVE  /\ Parted(Places(Q, R, B, P \union {e}, W, V, S, L), n)
         /\ Parted(Places(Q, R, B, P, W \union {e}, V, S, L), n)
         /\ e \notin P /\ e \notin W
  <1> DEFINE f == Places(Q, R, {e} \union B, P, W, V, S, L)
             g == Places(Q, R, B, P \union {e}, W, V, S, L)
             h == Places(Q, R, B, P, W \union {e}, V, S, L)
  <1>1. /\ f[1] = Q /\ f[2] = R /\ f[3] = {e} \union B /\ f[4] = P /\ f[5] = W /\ f[6] = V /\ f[7] = S /\ f[8] = L
        /\ g[1] = Q /\ g[2] = R /\ g[3] = B /\ g[4] = P \union {e} /\ g[5] = W /\ g[6] = V /\ g[7] = S /\ g[8] = L
        /\ h[1] = Q /\ h[2] = R /\ h[3] = B /\ h[4] = P /\ h[5] = W \union {e} /\ h[6] = V /\ h[7] = S /\ h[8] = L
    BY PlacesAt
  <1>2. Parted(f, n)
    OBVIOUS
  <1> DEFINE M == {e}
  <1> HIDE DEF f, g, h, M
  <1>3. 3 \in Spot /\ 4 \in Spot /\ 5 \in Spot
    BY DEF Spot
  <1>4. {e} \subseteq f[3] /\ g[3] = f[3] \ {e} /\ h[3] = f[3] \ {e}
    BY <1>1
  <1>5. Parted(g, n)
    <2>1. M \subseteq f[3] /\ g[3] = f[3] \ M /\ g[4] = f[4] \union M
      BY <1>1, <1>4 DEF M
    <2>2. \A k \in Spot : k # 3 /\ k # 4 => g[k] = f[k]
      BY <1>1 DEF Spot
    <2> QED
      BY <1>2, <1>3, <2>1, <2>2, MoveParted
  <1>6. Parted(h, n)
    <2>1. M \subseteq f[3] /\ h[3] = f[3] \ M /\ h[5] = f[5] \union M
      BY <1>1, <1>4 DEF M
    <2>2. \A k \in Spot : k # 3 /\ k # 5 => h[k] = f[k]
      BY <1>1 DEF Spot
    <2> QED
      BY <1>2, <1>3, <2>1, <2>2, MoveParted
  <1>7. e \notin f[4] /\ e \notin f[5]
    <2>1. e \in f[3]
      BY <1>4
    <2> QED
      BY <1>2, <1>3, <2>1 DEF Parted
  <1> QED
    BY <1>1, <1>5, <1>6, <1>7 DEF g, h

(* ... those for O enter q or are lost; ... *)
LEMMA PartEnqueue ==
  ASSUME NEW Q, NEW R, NEW B, NEW W, NEW V, NEW S, NEW L, NEW n \in Nat, NEW F, NEW G,
         Parted(Places(Q, R, B, F \union G, W, V, S, L), n), F \intersect G = {}
  PROVE  Parted(Places(Q \union F, R, B, {}, W, V, S, L \union G), n) /\ Q \intersect F = {}
  <1> DEFINE f == Places(Q, R, B, F \union G, W, V, S, L)
             g == Places(Q \union F, R, B, G, W, V, S, L)
             h == Places(Q \union F, R, B, {}, W, V, S, L \union G)
  <1>1. /\ f[1] = Q /\ f[2] = R /\ f[3] = B /\ f[4] = F \union G /\ f[5] = W /\ f[6] = V /\ f[7] = S /\ f[8] = L
        /\ g[1] = Q \union F /\ g[2] = R /\ g[3] = B /\ g[4] = G /\ g[5] = W /\ g[6] = V /\ g[7] = S /\ g[8] = L
        /\ h[1] = Q \union F /\ h[2] = R /\ h[3] = B /\ h[4] = {} /\ h[5] = W /\ h[6] = V /\ h[7] = S
        /\ h[8] = L \union G
    BY PlacesAt
  <1>2. Parted(f, n)
    OBVIOUS
  <1> HIDE DEF f, g, h
  <1>3. 1 \in Spot /\ 4 \in Spot /\ 8 \in Spot
    BY DEF Spot
  <1>4. Parted(g, n)
    <2>1. F \subseteq f[4] /\ g[4] = f[4] \ F /\ g[1] = f[1] \union F
      BY <1>1
    <2>2. \A k \in Spot : k # 4 /\ k # 1 => g[k] = f[k]
      BY <1>1 DEF Spot
    <2> QED
      BY <1>2, <1>3, <2>1, <2>2, MoveParted
  <1>5. Parted(h, n)
    <2>1. G \subseteq g[4] /\ h[4] = g[4] \ G /\ h[8] = g[8] \union G
      BY <1>1
    <2>2. \A k \in Spot : k # 4 /\ k # 8 => h[k] = g[k]
      BY <1>1 DEF Spot
    <2> QED
      BY <1>3, <1>4, <2>1, <2>2, MoveParted
  <1>6. Q \intersect F = {}
    <2>1. f[1] \intersect f[4] = {}
      BY <1>2, <1>3 DEF Parted
    <2> QED
      BY <1>1, <2>1
  <1> QED
    BY <1>5, <1>6 DEF h

(* ... a drain takes its batch from the ring, O takes its own from q; ... *)
LEMMA PartTake ==
  ASSUME NEW Q, NEW R, NEW B, NEW P, NEW W, NEW V, NEW S, NEW L, NEW n \in Nat, NEW F, NEW G,
         F \intersect G = {}
  PROVE  /\ Parted(Places(Q, F \union G, B, P, {}, V, S, L), n)
              => Parted(Places(Q, G, B, P, F, V, S, L), n)
         /\ Parted(Places(F \union G, R, B, P, W, {}, S, L), n)
              => Parted(Places(G, R, B, P, W, F, S, L), n)
  <1>1. ASSUME Parted(Places(Q, F \union G, B, P, {}, V, S, L), n)
        PROVE  Parted(Places(Q, G, B, P, F, V, S, L), n)
    <2> DEFINE f == Places(Q, F \union G, B, P, {}, V, S, L)
               g == Places(Q, G, B, P, F, V, S, L)
    <2>1. /\ f[1] = Q /\ f[2] = F \union G /\ f[3] = B /\ f[4] = P /\ f[5] = {} /\ f[6] = V /\ f[7] = S /\ f[8] = L
          /\ g[1] = Q /\ g[2] = G /\ g[3] = B /\ g[4] = P /\ g[5] = F /\ g[6] = V /\ g[7] = S /\ g[8] = L
      BY PlacesAt
    <2>2. Parted(f, n)
      BY <1>1
    <2> HIDE DEF f, g
    <2>3. F \subseteq f[2] /\ g[2] = f[2] \ F /\ g[5] = f[5] \union F
      BY <2>1
    <2>4. 2 \in Spot /\ 5 \in Spot /\ \A k \in Spot : k # 2 /\ k # 5 => g[k] = f[k]
      BY <2>1 DEF Spot
    <2>5. Parted(g, n)
      BY <2>2, <2>3, <2>4, MoveParted
    <2> QED
      BY <2>5 DEF g
  <1>2. ASSUME Parted(Places(F \union G, R, B, P, W, {}, S, L), n)
        PROVE  Parted(Places(G, R, B, P, W, F, S, L), n)
    <2> DEFINE f == Places(F \union G, R, B, P, W, {}, S, L)
               g == Places(G, R, B, P, W, F, S, L)
    <2>1. /\ f[1] = F \union G /\ f[2] = R /\ f[3] = B /\ f[4] = P /\ f[5] = W /\ f[6] = {} /\ f[7] = S /\ f[8] = L
          /\ g[1] = G /\ g[2] = R /\ g[3] = B /\ g[4] = P /\ g[5] = W /\ g[6] = F /\ g[7] = S /\ g[8] = L
      BY PlacesAt
    <2>2. Parted(f, n)
      BY <1>2
    <2> HIDE DEF f, g
    <2>3. F \subseteq f[1] /\ g[1] = f[1] \ F /\ g[6] = f[6] \union F
      BY <2>1
    <2>4. 1 \in Spot /\ 6 \in Spot /\ \A k \in Spot : k # 1 /\ k # 6 => g[k] = f[k]
      BY <2>1 DEF Spot
    <2>5. Parted(g, n)
      BY <2>2, <2>3, <2>4, MoveParted
    <2> QED
      BY <2>5 DEF g
  <1> QED
    BY <1>1, <1>2

(* ... and a batch is sent. *)
LEMMA PartSend ==
  ASSUME NEW Q, NEW R, NEW B, NEW P, NEW W, NEW V, NEW S, NEW L, NEW n \in Nat,
         Parted(Places(Q, R, B, P, W, V, S, L), n)
  PROVE  /\ Parted(Places(Q, R, B, P, {}, V, S \union W, L), n)
         /\ Parted(Places(Q, R, B, P, W, {}, S \union V, L), n)
  <1> DEFINE f == Places(Q, R, B, P, W, V, S, L)
             g == Places(Q, R, B, P, {}, V, S \union W, L)
             h == Places(Q, R, B, P, W, {}, S \union V, L)
  <1>1. /\ f[1] = Q /\ f[2] = R /\ f[3] = B /\ f[4] = P /\ f[5] = W /\ f[6] = V /\ f[7] = S /\ f[8] = L
        /\ g[1] = Q /\ g[2] = R /\ g[3] = B /\ g[4] = P /\ g[5] = {} /\ g[6] = V /\ g[7] = S \union W /\ g[8] = L
        /\ h[1] = Q /\ h[2] = R /\ h[3] = B /\ h[4] = P /\ h[5] = W /\ h[6] = {} /\ h[7] = S \union V /\ h[8] = L
    BY PlacesAt
  <1>2. Parted(f, n)
    OBVIOUS
  <1> HIDE DEF f, g, h
  <1>3. 5 \in Spot /\ 6 \in Spot /\ 7 \in Spot
    BY DEF Spot
  <1>4. Parted(g, n)
    <2>1. W \subseteq f[5] /\ g[5] = f[5] \ W /\ g[7] = f[7] \union W
      BY <1>1
    <2>2. \A k \in Spot : k # 5 /\ k # 7 => g[k] = f[k]
      BY <1>1 DEF Spot
    <2> QED
      BY <1>2, <1>3, <2>1, <2>2, MoveParted
  <1>5. Parted(h, n)
    <2>1. V \subseteq f[6] /\ h[6] = f[6] \ V /\ h[7] = f[7] \union V
      BY <1>1
    <2>2. \A k \in Spot : k # 6 /\ k # 7 => h[k] = f[k]
      BY <1>1 DEF Spot
    <2> QED
      BY <1>2, <1>3, <2>1, <2>2, MoveParted
  <1> QED
    BY <1>4, <1>5 DEF g, h

(* Arriving packets are put in one place. *)
LEMMA OnceInput ==
  ASSUME TypeInv, OrderInv, OnceInv, Input
  PROVE  OnceInv'
  <1>0. Elements(<<>>) = {} /\ next \in Nat \ {0}
    BY EmptyOrder, QueueTypes
  <1>1. ASSUME NEW n \in 0 .. BURST, Transfer(n) PROVE OnceInv'
    <2> DEFINE s == [k \in 1 .. n |-> next + k - 1]
    <2>0. n \in Nat
      BY Sizes
    <2>1. /\ myring = <<>> /\ UNCHANGED <<burst, off_pkts, batch, sent, leaked>>
          /\ myring' = s \o q /\ next' = next + n /\ q' = <<>>
      BY <1>1 DEF Transfer, OrderInv, SidesInv, posvars, outvars
    <2>2. s \in Seq(Nat) /\ Elements(s) = next .. next + n - 1 /\ Distinct(s) /\ Distinct(<<>>)
      BY <1>0, <2>0, ArrivalOrder, ArrivalDistinct
    <2> HIDE DEF s
    <2>3. Elements(myring') = (next .. next + n - 1) \union Elements(q)
      BY <2>1, <2>2, QueueTypes, ConcatOrder
    <2> DEFINE Q == Elements(q)
               B == Elements(burst)
               P == Elements(off_pkts)
               W == Elements(batch["W"])
               V == Elements(batch["O"])
    <2>4. Parted(Places(Q, {}, B, P, W, V, sent, leaked), next)
      BY <1>0, <2>1 DEF OnceInv
    <2>5. Elements(s) \intersect Elements(q) = {}
      <3>1. Below(Elements(q), {next})
        BY DEF OrderInv, CrossInv, Cross, Below
      <3>2. \A x \in Elements(q) : x \in Nat /\ x < next
        BY <3>1, QueueTypes DEF Below
      <3> QED
        BY <1>0, <2>2, <3>2
    <2>6. Distinct(myring')
      BY <2>1, <2>2, <2>5, QueueTypes, ConcatDistinct DEF OnceInv
    <2>7. Parted(Places({}, (next .. next + n - 1) \union Q, B, P, W, V, sent, leaked), next + n)
      <3> HIDE DEF Q, B, P, W, V
      <3> QED
        BY <1>0, <2>0, <2>4, PartTransfer
    <2> QED
      BY <1>0, <2>1, <2>2, <2>3, <2>6, <2>7 DEF OnceInv
  <1>2. ASSUME NEW n \in 1 .. BURST, Receive(n) PROVE OnceInv'
    <2>0. n \in Nat
      BY Sizes
    <2>1. /\ burst = <<>> /\ UNCHANGED <<q, myring, off_pkts, batch, sent, leaked>>
          /\ burst' = [k \in 1 .. n |-> next + k - 1] /\ next' = next + n
      BY <1>2 DEF Receive, TypeInv, WorkType, posvars, outvars, ringvars
    <2>2. Elements(burst') = next .. next + n - 1 /\ Distinct(burst')
      BY <1>0, <2>0, <2>1, ArrivalOrder, ArrivalDistinct
    <2> DEFINE Q == Elements(q)
               R == Elements(myring)
               P == Elements(off_pkts)
               W == Elements(batch["W"])
               V == Elements(batch["O"])
    <2>3. Parted(Places(Q, R, {}, P, W, V, sent, leaked), next)
      BY <1>0, <2>1 DEF OnceInv
    <2>4. Parted(Places(Q, R, next .. next + n - 1, P, W, V, sent, leaked), next + n)
      <3> HIDE DEF Q, R, P, W, V
      <3> QED
        BY <1>0, <2>0, <2>3, PartReceive
    <2> QED
      BY <2>1, <2>2, <2>4 DEF OnceInv
  <1> QED
    BY <1>1, <1>2 DEF Input

(* A packet is put on one side only. *)
LEMMA OnceRun ==
  ASSUME TypeInv, OnceInv, Run
  PROVE  OnceInv'
  <1> DEFINE h == Head(burst)
             b == Tail(burst)
             Q == Elements(q)
             R == Elements(myring)
             P == Elements(off_pkts)
             W == Elements(batch["W"])
             V == Elements(batch["O"])
  <1>0. /\ burst # <<>> /\ burst' = b /\ UNCHANGED <<next, q, myring, sent, leaked>>
        /\ \/ off_pkts' = Append(off_pkts, h) /\ batch' = batch
           \/ /\ batch' = [batch EXCEPT !["W"] = Append(batch["W"], h)]
              /\ off_pkts' = off_pkts
    BY DEF Run, ringvars, outvars
  <1>1. h \in Nat /\ b \in Seq(Nat)
    BY <1>0, QueueTypes, HeadTailProperties
  <1>2. Elements(burst) = {h} \union Elements(b) /\ Distinct(b) /\ h \notin Elements(b)
    <2>1. Distinct(burst)
      BY DEF OnceInv
    <2> QED
      BY <1>0, <2>1, QueueTypes, TailOrder, TailDistinct
  <1>3. Parted(Places(Q, R, {h} \union Elements(b), P, W, V, sent, leaked), next)
    BY <1>2 DEF OnceInv
  <1> HIDE DEF h, b, Q, R, P, W, V
  <1>4. /\ Parted(Places(Q, R, Elements(b), P \union {h}, W, V, sent, leaked), next)
        /\ Parted(Places(Q, R, Elements(b), P, W \union {h}, V, sent, leaked), next)
        /\ h \notin P /\ h \notin W
    <2>1. next \in Nat
      BY QueueTypes
    <2> QED
      BY <1>2, <1>3, <2>1, PartRun
  <1>5. CASE off_pkts' = Append(off_pkts, h) /\ batch' = batch
    <2>1. Elements(off_pkts') = P \union {h} /\ Distinct(off_pkts')
      <3>1. Distinct(off_pkts) /\ h \notin Elements(off_pkts)
        BY <1>4 DEF OnceInv, P
      <3> QED
        BY <1>1, <1>5, <3>1, QueueTypes, AppendOrder, AppendDistinct DEF P
    <2> QED
      BY <1>0, <1>2, <1>4, <1>5, <2>1 DEF OnceInv, Q, R, W, V
  <1>6. CASE batch' = [batch EXCEPT !["W"] = Append(batch["W"], h)] /\ off_pkts' = off_pkts
    <2>1. batch'["W"] = Append(batch["W"], h) /\ batch'["O"] = batch["O"]
      BY <1>6, QueueTypes
    <2>2. Elements(batch'["W"]) = W \union {h} /\ Distinct(batch'["W"])
      <3>1. Distinct(batch["W"]) /\ h \notin Elements(batch["W"])
        BY <1>4 DEF OnceInv, W
      <3>2. batch["W"] \in Seq(Nat)
        BY QueueTypes
      <3>3. Elements(Append(batch["W"], h)) = W \union {h}
        BY <1>1, <3>2, AppendOrder DEF W
      <3>4. Distinct(Append(batch["W"], h))
        BY <1>1, <3>1, <3>2, AppendDistinct
      <3> QED
        BY <2>1, <3>3, <3>4
    <2> QED
      BY <1>0, <1>2, <1>4, <1>6, <2>1, <2>2 DEF OnceInv, Q, R, P, V
  <1> QED
    BY <1>0, <1>5, <1>6

(* What q refuses is leaked, and nothing else is. *)
LEMMA OnceEnqueue ==
  ASSUME TypeInv, OnceInv, Enqueue
  PROVE  OnceInv'
  <1> DEFINE n == QSIZE - Len(q)
             f == Front(off_pkts, n)
             r == Rest(off_pkts, n)
             Q == Elements(q)
             R == Elements(myring)
             B == Elements(burst)
             W == Elements(batch["W"])
             V == Elements(batch["O"])
  <1>0. /\ UNCHANGED <<next, burst, myring, batch, sent>>
        /\ q' = q \o f /\ leaked' = leaked \union Elements(r) /\ off_pkts' = <<>>
    BY DEF Enqueue, posvars
  <1>1. n \in Nat
    <2>1. Len(q) \in Nat /\ Len(q) <= QSIZE
      BY QueueTypes, LenProperties DEF TypeInv, RingType
    <2> QED
      BY <2>1, Sizes
  <1> HIDE DEF n
  <1>2. /\ f \in Seq(Nat) /\ Elements(off_pkts) = Elements(f) \union Elements(r)
        /\ Distinct(f) /\ Elements(f) \intersect Elements(r) = {}
    <2>1. Distinct(off_pkts)
      BY DEF OnceInv
    <2>2. off_pkts \in Seq(Nat) /\ f \in Seq(Nat)
      BY <1>1, QueueTypes, Split
    <2>3. Elements(off_pkts) = Elements(f) \union Elements(r)
      BY <1>1, <2>2, SplitOrder
    <2>4. Distinct(f) /\ Elements(f) \intersect Elements(r) = {}
      BY <1>1, <2>1, <2>2, SplitDistinct
    <2> QED
      BY <2>2, <2>3, <2>4
  <1>3. Elements(<<>>) = {} /\ Distinct(<<>>) /\ next \in Nat
    BY EmptyOrder, ArrivalDistinct, QueueTypes
  <1> DEFINE F == Elements(f)
             G == Elements(r)
  <1>4. Parted(Places(Q, R, B, F \union G, W, V, sent, leaked), next)
    BY <1>2 DEF OnceInv
  <1>5. F \intersect G = {}
    BY <1>2
  <1>6. /\ Parted(Places(Q \union F, R, B, {}, W, V, sent, leaked \union G), next)
        /\ Q \intersect F = {}
    <2> HIDE DEF Q, R, B, F, G, W, V
    <2> QED
      BY <1>3, <1>4, <1>5, PartEnqueue
  <1> HIDE DEF f, r
  <1>7. Elements(q') = Q \union F
    BY <1>0, <1>2, QueueTypes, ConcatOrder
  <1>8. Distinct(q')
    BY <1>0, <1>2, <1>6, QueueTypes, ConcatDistinct DEF OnceInv
  <1> QED
    BY <1>0, <1>3, <1>6, <1>7, <1>8 DEF OnceInv

(* A batch is taken from the ring or from q. *)
LEMMA OnceStarts ==
  ASSUME TypeInv, OnceInv, DrainBatch \/ DrainEnd \/ RunEnd \/ DequeueBurst
  PROVE  OnceInv'
  <1>0. Elements(<<>>) = {} /\ next \in Nat
    BY EmptyOrder, QueueTypes
  <1> DEFINE Q == Elements(q)
             R == Elements(myring)
             B == Elements(burst)
             P == Elements(off_pkts)
             W == Elements(batch["W"])
             V == Elements(batch["O"])
  <1>1. CASE DrainBatch
    <2> DEFINE f == Front(myring, BURST)
               r == Rest(myring, BURST)
    <2>1. /\ batch["W"] = <<>> /\ UNCHANGED <<next, burst, off_pkts, q, sent, leaked>>
          /\ myring' = r /\ Push("W", f)
      BY <1>1 DEF DrainBatch, TypeInv, WorkType, Cores, inputvars, outvars
    <2>2. /\ Elements(myring) = Elements(f) \union Elements(r) /\ Distinct(f) /\ Distinct(r)
          /\ Elements(f) \intersect Elements(r) = {}
      <3>1. Distinct(myring)
        BY DEF OnceInv
      <3> QED
        BY <3>1, QueueTypes, SplitOrder, SplitDistinct
    <2> HIDE DEF f, r
    <2>3. batch'["W"] = f /\ batch'["O"] = batch["O"]
      BY <2>1, QueueTypes DEF Push
    <2> DEFINE F == Elements(f)
               G == Elements(r)
    <2>4. Parted(Places(Q, F \union G, B, P, {}, V, sent, leaked), next)
      BY <1>0, <2>1, <2>2 DEF OnceInv
    <2>5. Parted(Places(Q, G, B, P, F, V, sent, leaked), next)
      <3>1. F \intersect G = {}
        BY <2>2
      <3> HIDE DEF Q, B, P, V, F, G
      <3> QED
        BY <1>0, <2>4, <3>1, PartTake
    <2> QED
      BY <2>1, <2>2, <2>3, <2>5 DEF OnceInv
  <1>2. CASE DrainEnd
    BY <1>2 DEF DrainEnd, inputvars, posvars, outvars, OnceInv
  <1>3. CASE RunEnd
    <2>1. /\ UNCHANGED <<next, burst, off_pkts, q, myring, sent, leaked>>
          /\ UNCHANGED batch \/ Push("W", batch["W"])
      BY <1>3 DEF RunEnd, inputvars, ringvars, posvars, outvars
    <2>2. batch'["W"] = batch["W"] /\ batch'["O"] = batch["O"]
      BY <2>1, QueueTypes DEF Push
    <2> QED
      BY <2>1, <2>2 DEF OnceInv
  <1>4. CASE DequeueBurst
    <2> DEFINE f == Front(q, BURST)
               r == Rest(q, BURST)
    <2>1. /\ batch["O"] = <<>> /\ UNCHANGED <<next, burst, off_pkts, myring, sent, leaked>>
          /\ q' = r /\ Push("O", f)
      BY <1>4 DEF DequeueBurst, TypeInv, WorkType, Cores, inputvars, outvars
    <2>2. /\ Elements(q) = Elements(f) \union Elements(r) /\ Distinct(f) /\ Distinct(r)
          /\ Elements(f) \intersect Elements(r) = {}
      <3>1. Distinct(q)
        BY DEF OnceInv
      <3> QED
        BY <3>1, QueueTypes, SplitOrder, SplitDistinct
    <2> HIDE DEF f, r
    <2>3. batch'["O"] = f /\ batch'["W"] = batch["W"]
      BY <2>1, QueueTypes DEF Push
    <2> DEFINE F == Elements(f)
               G == Elements(r)
    <2>4. Parted(Places(F \union G, R, B, P, W, {}, sent, leaked), next)
      BY <1>0, <2>1, <2>2 DEF OnceInv
    <2>5. Parted(Places(G, R, B, P, W, F, sent, leaked), next)
      <3>1. F \intersect G = {}
        BY <2>2
      <3> HIDE DEF R, B, P, W, F, G
      <3> QED
        BY <1>0, <2>4, <3>1, PartTake
    <2> QED
      BY <2>1, <2>2, <2>3, <2>5 DEF OnceInv
  <1> QED
    BY <1>1, <1>2, <1>3, <1>4

(* The chain keeps a batch together until DyssectQueueOut sends all of it,  *)
(* for it is no longer than a burst.                                        *)
LEMMA OnceChain ==
  ASSUME TypeInv, OnceInv, NEW c \in Cores, Chain(c)
  PROVE  OnceInv'
  <1>1. CASE Load(c) \/ Install(c) \/ Read(c) \/ NaptUpdate(c) \/ IdsUpdate(c)
    <2>1. batch' = batch /\ UNCHANGED <<next, burst, off_pkts, q, myring, sent, leaked>>
      BY <1>1, ChainRings DEF inputvars, ringvars, outvars
    <2> QED
      BY <2>1 DEF OnceInv
  <1>2. CASE Transmit(c)
    <2>0. Elements(<<>>) = {} /\ Distinct(<<>>) /\ next \in Nat
      BY EmptyOrder, ArrivalDistinct, QueueTypes
    <2>1. /\ UNCHANGED <<next, burst, off_pkts, q, myring, leaked>>
          /\ batch' = [batch EXCEPT ![c] = <<>>] /\ Send(batch[c])
      BY <1>2 DEF Transmit, inputvars, ringvars
    <2>2. batch[c] \in Seq(Nat) /\ Len(batch[c]) <= BURST
      <3>1. batch[c] \in Seq(Nat)
        BY QueueTypes
      <3>2. Len(batch["O"]) <= BURST
        BY DEF TypeInv, WorkType
      <3>3. Len(batch["W"]) <= BURST
        <4> DEFINE x == Len(burst)
                   y == Len(off_pkts)
                   z == Len(batch["W"])
        <4>1. x \in Nat /\ y \in Nat /\ z \in Nat
          BY QueueTypes, LenProperties
        <4>2. x + y + z <= BURST
          BY DEF TypeInv, WorkType
        <4> HIDE DEF x, y, z
        <4>3. z <= BURST
          BY <4>1, <4>2, Sizes
        <4> QED
          BY <4>3 DEF z
      <3> QED
        BY <3>1, <3>2, <3>3 DEF Cores
    <2>3. sent' = sent \union Elements(batch[c])
      BY <2>1, <2>2, Sizes, FrontWhole DEF Send
    <2> DEFINE Q == Elements(q)
               R == Elements(myring)
               B == Elements(burst)
               P == Elements(off_pkts)
               W == Elements(batch["W"])
               V == Elements(batch["O"])
    <2>4. Parted(Places(Q, R, B, P, W, V, sent, leaked), next)
      BY DEF OnceInv
    <2>5. /\ Parted(Places(Q, R, B, P, {}, V, sent \union W, leaked), next)
          /\ Parted(Places(Q, R, B, P, W, {}, sent \union V, leaked), next)
      <3> HIDE DEF Q, R, B, P, W, V
      <3> QED
        BY <2>0, <2>4, PartSend
    <2>6. CASE c = "W"
      <3>1. batch'["W"] = <<>> /\ batch'["O"] = batch["O"]
        BY <2>1, <2>6, QueueTypes
      <3> QED
        BY <2>0, <2>1, <2>3, <2>5, <2>6, <3>1 DEF OnceInv
    <2>7. CASE c = "O"
      <3>1. batch'["O"] = <<>> /\ batch'["W"] = batch["W"]
        BY <2>1, <2>7, QueueTypes
      <3> QED
        BY <2>0, <2>1, <2>3, <2>5, <2>7, <3>1 DEF OnceInv
    <2> QED
      BY <2>6, <2>7 DEF Cores
  <1> QED
    BY <1>1, <1>2 DEF Chain

(* Every step keeps every packet in one place. *)
LEMMA OnceStep ==
  ASSUME TypeInv, OrderInv, OnceInv, [Next]_vars
  PROVE  OnceInv'
  <1>1. CASE Input
    BY <1>1, OnceInput
  <1>2. CASE DrainBatch \/ DrainEnd \/ RunEnd \/ DequeueBurst
    BY <1>2, OnceStarts
  <1>3. CASE Run
    BY <1>3, OnceRun
  <1>4. CASE Enqueue
    BY <1>4, OnceEnqueue
  <1>5. ASSUME NEW c \in Cores, Chain(c) PROVE OnceInv'
    BY <1>5, OnceChain
  <1>6. CASE UNCHANGED vars
    BY <1>6 DEF vars, inputvars, ringvars, posvars, outvars, OnceInv
  <1> QED
    BY <1>1, <1>2, <1>3, <1>4, <1>5, <1>6 DEF Next, Owner, Offloader, Cores

(* At first no packet has arrived. *)
LEMMA OnceStart == Init => OnceInv
  <1> SUFFICES ASSUME Init PROVE OnceInv
    OBVIOUS
  <1>1. Elements(<<>>) = {} /\ Distinct(<<>>)
    BY EmptyOrder, EmptySeq DEF Distinct
  <1>2. /\ q = <<>> /\ myring = <<>> /\ burst = <<>> /\ off_pkts = <<>> /\ batch["W"] = <<>>
        /\ batch["O"] = <<>> /\ sent = {} /\ leaked = {} /\ next = 1
    BY DEF Init, Cores
  <1> DEFINE f == Places({}, {}, {}, {}, {}, {}, {}, {})
  <1>3. \A k \in Spot : f[k] = {}
    BY PlacesAt DEF Spot
  <1> HIDE DEF f
  <1>4. Parted(f, 1)
    BY <1>3 DEF Parted
  <1> QED
    BY <1>1, <1>2, <1>4 DEF OnceInv, f

(* Sets with nothing in common add up. *)
LEMMA SumCount ==
  ASSUME NEW S, NEW T, IsFiniteSet(S), IsFiniteSet(T), S \intersect T = {}
  PROVE  /\ IsFiniteSet(S \union T)
         /\ Cardinality(S \union T) = Cardinality(S) + Cardinality(T)
  <1>1. /\ IsFiniteSet(S \union T)
        /\ Cardinality(S \union T) = Cardinality(S) + Cardinality(T) - Cardinality(S \intersect T)
    BY FS_Union
  <1>2. Cardinality(S \intersect T) = 0
    BY FS_EmptySet
  <1>3. Cardinality(S) \in Nat /\ Cardinality(T) \in Nat
    BY FS_CardinalityType
  <1> QED
    BY <1>1, <1>2, <1>3

(* The places together hold all packets. *)
LEMMA PartedCount ==
  ASSUME NEW Q, NEW R, NEW B, NEW P, NEW W, NEW V, NEW S, NEW L, NEW n \in Nat \ {0},
         Parted(Places(Q, R, B, P, W, V, S, L), n)
  PROVE  Cardinality(Q) + Cardinality(R) + Cardinality(B) + Cardinality(P) + Cardinality(W)
           + Cardinality(V) + Cardinality(S \union L) = n - 1
  <1> DEFINE f == Places(Q, R, B, P, W, V, S, L)
             N == 1 .. n - 1
  <1>1. /\ f[1] = Q /\ f[2] = R /\ f[3] = B /\ f[4] = P /\ f[5] = W /\ f[6] = V /\ f[7] = S /\ f[8] = L
    BY PlacesAt
  <1>2. /\ \A i \in Spot : f[i] \subseteq N
        /\ \A p \in N : \E i \in Spot : p \in f[i]
        /\ \A i, j \in Spot : \A p \in f[i] : p \in f[j] => i = j
    BY DEF Parted
  <1>3. IsFiniteSet(N) /\ Cardinality(N) = n - 1
    BY FS_Interval
  <1> HIDE DEF f, N
  <1>4. /\ Q \subseteq N /\ R \subseteq N /\ B \subseteq N /\ P \subseteq N /\ W \subseteq N
        /\ V \subseteq N /\ S \union L \subseteq N
    BY <1>1, <1>2 DEF Spot
  <1>5. /\ IsFiniteSet(Q) /\ IsFiniteSet(R) /\ IsFiniteSet(B) /\ IsFiniteSet(P) /\ IsFiniteSet(W)
        /\ IsFiniteSet(V) /\ IsFiniteSet(S \union L)
    BY <1>3, <1>4, FS_Subset
  <1>6. \A i, j \in Spot : i # j => f[i] \intersect f[j] = {}
    BY <1>2
  <1>7. /\ Q \intersect R = {} /\ (Q \union R) \intersect B = {} /\ (Q \union R \union B) \intersect P = {}
        /\ (Q \union R \union B \union P) \intersect W = {}
        /\ (Q \union R \union B \union P \union W) \intersect V = {}
        /\ (Q \union R \union B \union P \union W \union V) \intersect (S \union L) = {}
    <2>1. /\ Q \intersect R = {} /\ Q \intersect B = {} /\ Q \intersect P = {} /\ Q \intersect W = {}
          /\ Q \intersect V = {} /\ Q \intersect S = {} /\ Q \intersect L = {}
      BY <1>1, <1>6 DEF Spot
    <2>2. /\ R \intersect B = {} /\ R \intersect P = {} /\ R \intersect W = {}
          /\ R \intersect V = {} /\ R \intersect S = {} /\ R \intersect L = {}
      BY <1>1, <1>6 DEF Spot
    <2>3. /\ B \intersect P = {} /\ B \intersect W = {}
          /\ B \intersect V = {} /\ B \intersect S = {} /\ B \intersect L = {}
      BY <1>1, <1>6 DEF Spot
    <2>4. /\ P \intersect W = {} /\ P \intersect V = {} /\ P \intersect S = {} /\ P \intersect L = {}
      BY <1>1, <1>6 DEF Spot
    <2>5. /\ W \intersect V = {} /\ W \intersect S = {} /\ W \intersect L = {}
          /\ V \intersect S = {} /\ V \intersect L = {}
      BY <1>1, <1>6 DEF Spot
    <2> QED
      BY <2>1, <2>2, <2>3, <2>4, <2>5
  <1>8. Q \union R \union B \union P \union W \union V \union (S \union L) = N
    <2>1. \A p \in N : \/ p \in Q \/ p \in R \/ p \in B \/ p \in P \/ p \in W
                       \/ p \in V \/ p \in S \/ p \in L
      BY <1>1, <1>2 DEF Spot
    <2> QED
      BY <1>4, <2>1
  <1> DEFINE A == Q \union R
             C == A \union B
             D == C \union P
             E == D \union W
             F == E \union V
             G == S \union L
  <1>9. IsFiniteSet(A) /\ Cardinality(A) = Cardinality(Q) + Cardinality(R)
    BY <1>5, <1>7, SumCount
  <1>10. IsFiniteSet(C) /\ Cardinality(C) = Cardinality(A) + Cardinality(B)
    <2>1. A \intersect B = {}
      BY <1>7
    <2> HIDE DEF A
    <2> QED
      BY <1>5, <1>9, <2>1, SumCount
  <1>11. IsFiniteSet(D) /\ Cardinality(D) = Cardinality(C) + Cardinality(P)
    <2>1. C \intersect P = {}
      BY <1>7
    <2> HIDE DEF C
    <2> QED
      BY <1>5, <1>10, <2>1, SumCount
  <1>12. IsFiniteSet(E) /\ Cardinality(E) = Cardinality(D) + Cardinality(W)
    <2>1. D \intersect W = {}
      BY <1>7
    <2> HIDE DEF D
    <2> QED
      BY <1>5, <1>11, <2>1, SumCount
  <1>13. IsFiniteSet(F) /\ Cardinality(F) = Cardinality(E) + Cardinality(V)
    <2>1. E \intersect V = {}
      BY <1>7
    <2> HIDE DEF E
    <2> QED
      BY <1>5, <1>12, <2>1, SumCount
  <1>14. Cardinality(N) = Cardinality(F) + Cardinality(G)
    <2>1. F \intersect G = {} /\ F \union G = N /\ IsFiniteSet(G)
      BY <1>5, <1>7, <1>8
    <2> HIDE DEF F, G
    <2>2. Cardinality(F \union G) = Cardinality(F) + Cardinality(G)
      BY <1>13, <2>1, SumCount
    <2> QED
      BY <2>1, <2>2
  <1>15. /\ Cardinality(Q) \in Nat /\ Cardinality(R) \in Nat /\ Cardinality(B) \in Nat
         /\ Cardinality(P) \in Nat /\ Cardinality(W) \in Nat /\ Cardinality(V) \in Nat
         /\ Cardinality(G) \in Nat
    BY <1>5, FS_CardinalityType
  <1> HIDE DEF A, C, D, E, F, G
  <1>16. Cardinality(Q) + Cardinality(R) + Cardinality(B) + Cardinality(P) + Cardinality(W)
           + Cardinality(V) + Cardinality(G) = n - 1
    BY <1>3, <1>9, <1>10, <1>11, <1>12, <1>13, <1>14, <1>15
  <1> QED
    BY <1>16 DEF G

(* A packet the owner received is in one place, and there once, until it is *)
(* given to the NIC; it is lost only where q refused it.  In particular no  *)
(* batch that reaches DyssectQueueOut is longer than the burst it sends.    *)
THEOREM EveryPacketCorrect == Spec => []EveryPacketOnce
  <1>1. TypeInv /\ OnceInv => EveryPacketOnce
    <2> SUFFICES ASSUME TypeInv, OnceInv PROVE EveryPacketOnce
      OBVIOUS
    <2> DEFINE f == Places(Elements(q), Elements(myring), Elements(burst), Elements(off_pkts),
                           Elements(batch["W"]), Elements(batch["O"]), sent, leaked)
    <2>1. Parted(f, next) /\ DOMAIN f = Spot
      BY PlacesAt DEF OnceInv
    <2>2. ASSUME NEW p \in 1 .. next - 1 PROVE Cardinality({k \in DOMAIN f : p \in f[k]}) = 1
      <3> HIDE DEF f
      <3>1. PICK i \in Spot : p \in f[i]
        BY <2>1, <2>2 DEF Parted
      <3>2. {k \in DOMAIN f : p \in f[k]} = {i}
        BY <2>1, <3>1 DEF Parted
      <3> QED
        BY <3>2, FS_Singleton
    <2>3. /\ Cardinality(Elements(q)) = Len(q) /\ Cardinality(Elements(myring)) = Len(myring)
          /\ Cardinality(Elements(burst)) = Len(burst) /\ Cardinality(Elements(off_pkts)) = Len(off_pkts)
          /\ Cardinality(Elements(batch["W"])) = Len(batch["W"])
          /\ Cardinality(Elements(batch["O"])) = Len(batch["O"])
      BY QueueTypes, DistinctCount DEF OnceInv
    <2>4. /\ Cardinality(Elements(q)) + Cardinality(Elements(myring)) + Cardinality(Elements(burst))
               + Cardinality(Elements(off_pkts)) + Cardinality(Elements(batch["W"]))
               + Cardinality(Elements(batch["O"])) + Cardinality(sent \union leaked) = next - 1
      <3> DEFINE Q == Elements(q)
                 R == Elements(myring)
                 B == Elements(burst)
                 P == Elements(off_pkts)
                 W == Elements(batch["W"])
                 V == Elements(batch["O"])
      <3>1. Parted(Places(Q, R, B, P, W, V, sent, leaked), next) /\ next \in Nat \ {0}
        BY QueueTypes DEF OnceInv
      <3> HIDE DEF Q, R, B, P, W, V
      <3>2. Cardinality(Q) + Cardinality(R) + Cardinality(B) + Cardinality(P) + Cardinality(W)
              + Cardinality(V) + Cardinality(sent \union leaked) = next - 1
        BY <3>1, PartedCount
      <3> QED
        BY <3>2 DEF Q, R, B, P, W, V
    <2> QED
      BY <2>2, <2>3, <2>4 DEF EveryPacketOnce, Places
  <1>2. TypeInv /\ OrderInv /\ [Next]_vars => OrderInv'
    BY OrderStep
  <1>3. TypeInv /\ OrderInv /\ OnceInv /\ [Next]_vars => OnceInv'
    BY OnceStep
  <1> QED
    BY <1>1, <1>2, <1>3, OrderStart, OnceStart, TypeInvariant, PTL DEF Spec
=============================================================================
