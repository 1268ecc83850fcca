------------------------------ MODULE FlowState ------------------------------
(***************************************************************************)
(* The packets of one flow and the state the network functions keep for it.*)
(*                                                                         *)
(* The core that owns the flow's shard (W) classifies every packet: it     *)
(* handles it itself or leaves it to the offloading core (O), as the       *)
(* flow's cdf and the shard's ratio are at that moment.  Either core runs  *)
(* a batch through the chain DyNAPT -> DyIDS -> DyssectQueueOut.  The      *)
(* functions find the flow's state through the array global_state that the *)
(* packet carries in its annotation; nothing keeps the two cores apart.    *)
(*                                                                         *)
(* That the shard has one owner at a time is ShardMigration; which core    *)
(* polls a ring, and when, is Offload: here O polls q and nothing else.    *)
(* How DyIDS tells a match is DyIDSLex: here it is a choice.               *)
(***************************************************************************)
EXTENDS Integers, Sequences, FiniteSets

CONSTANTS
    BURST,      \* BURST of every element
    QSIZE,      \* packets q holds
    ENTRIES,    \* DYIDS_ENTRIES
    WORD,       \* 2^32, the range of found, not_found and count
    MaxPkts     \* bound: packets that arrive

ASSUME SizeAssumption ==
    /\ {BURST, QSIZE, ENTRIES, WORD} \subseteq Nat \ {0} /\ MaxPkts \in Nat
    /\ WORD % ENTRIES = 0

Cores == {"W", "O"}
NF == 1 .. 2                \* the chain's functions: 1 DyNAPT, 2 DyIDS
Class == {"found", "not_found"}
NoPkt == 0

VARIABLES
    next,                   \* the next packet's number (its th_seq)
    q, myring, myown,       \* rings and the flag of W
    burst, off_pkts,        \* W: packets not yet classified, packets for O
    pc, batch, at, nf,      \* per core: the batch, the packet and function
    state, tmp, class,      \* locals of simple_action
    global_state,           \* NF -> installed state, 0 for none
    heap,                   \* NF -> sequence of the states allocated
    sent, leaked,           \* packets given to the NIC; not taken by q
    \* history: order in which DyNAPT handled packets, and on which core;
    \* packets DyIDS handled, by class; packets offloaded; functions in
    \* which the two cores met
    handled, log, offloaded, met

ringvars == <<q, myring, myown>>
inputvars == <<next, burst, off_pkts, offloaded>>
localvars == <<state, tmp, class>>
nfvars == <<global_state, heap, handled, log, met>>
outvars == <<sent, leaked>>
posvars == <<batch, at, nf>>
vars == <<inputvars, ringvars, pc, posvars, localvars, nfvars, outvars>>

Init ==
    /\ next = 1
    /\ q = <<>> /\ myring = <<>> /\ myown = FALSE
    /\ burst = <<>> /\ off_pkts = <<>>
    /\ pc = [c \in Cores |-> "top"] /\ batch = [c \in Cores |-> <<>>]
    /\ at = [c \in Cores |-> 1] /\ nf = [c \in Cores |-> 1]
    /\ state = [c \in Cores |-> 0] /\ tmp = [c \in Cores |-> 0]
    /\ class = [c \in Cores |-> "found"]
    /\ global_state = [h \in NF |-> 0] /\ heap = [h \in NF |-> <<>>]
    /\ sent = {} /\ leaked = {}
    /\ handled = <<>> /\ log = [k \in Class |-> <<>>]
    /\ offloaded = {} /\ met = {}

Least(a, b) == IF a < b THEN a ELSE b
Front(s, n) == SubSeq(s, 1, Least(n, Len(s)))
Rest(s, n) == SubSeq(s, Least(n, Len(s)) + 1, Len(s))
Elements(s) == {s[k] : k \in DOMAIN s}

(* output_push_batch: core c starts the chain on b. *)
Push(c, b) ==
    /\ batch' = [batch EXCEPT ![c] = b]
    /\ at' = [at EXCEPT ![c] = 1] /\ nf' = [nf EXCEPT ![c] = 1]
    /\ pc' = [pc EXCEPT ![c] = "load"]

-----------------------------------------------------------------------------
(* transfer_r and transfer_offloading take back what is in q; transfer_shard *)
(* puts n packets still in the NIC before them.  What O has in hand is not   *)
(* waited for.                                                               *)
Transfer(n) ==
    /\ pc["W"] = "top" /\ ~myown
    /\ n + Len(q) > 0 /\ next + n - 1 <= MaxPkts
    /\ myring' = [k \in 1 .. n |-> next + k - 1] \o q
    /\ next' = next + n
    /\ q' = <<>> /\ myown' = TRUE
    /\ UNCHANGED <<burst, off_pkts, offloaded, pc, posvars, localvars, nfvars,
                   outvars>>

(* Mutant: the drain waits for a full burst. *)
DrainBatchFull ==
    /\ pc["W"] = "top" /\ myown /\ Len(myring) >= BURST
    /\ Push("W", Front(myring, BURST))
    /\ myring' = Rest(myring, BURST)
    /\ UNCHANGED <<inputvars, q, myown, localvars, nfvars, outvars>>

(* run_task while myown is set: the ring is handled here, whatever cdf and  *)
(* ratio say ...                                                            *)
DrainBatch ==
    /\ pc["W"] = "top" /\ myown /\ myring # <<>>
    /\ Push("W", Front(myring, BURST))
    /\ myring' = Rest(myring, BURST)
    /\ UNCHANGED <<inputvars, q, myown, localvars, nfvars, outvars>>

(* ... until it is empty. *)
DrainEnd ==
    /\ pc["W"] = "top" /\ myown /\ myring = <<>>
    /\ myown' = FALSE
    /\ UNCHANGED <<inputvars, q, myring, pc, posvars, localvars, nfvars,
                   outvars>>

(* process *)
Receive(n) ==
    /\ pc["W"] = "top" /\ ~myown /\ next + n - 1 <= MaxPkts
    /\ burst' = [k \in 1 .. n |-> next + k - 1]
    /\ next' = next + n
    /\ pc' = [pc EXCEPT !["W"] = "run"]
    /\ UNCHANGED <<off_pkts, offloaded, ringvars, posvars, localvars, nfvars,
                   outvars>>

(* run, once for every packet of the burst: the flow is offloaded while its *)
(* cdf, which order_shards may just have changed, is below the ratio ...    *)
Run ==
    /\ pc["W"] = "run" /\ burst # <<>>
    /\ burst' = Tail(burst)
    /\ \/ /\ off_pkts' = Append(off_pkts, Head(burst))
          /\ offloaded' = offloaded \union {Head(burst)}
          /\ UNCHANGED batch
       \/ /\ batch' = [batch EXCEPT !["W"] = Append(@, Head(burst))]
          /\ UNCHANGED <<off_pkts, offloaded>>
    /\ UNCHANGED <<next, ringvars, pc, at, nf, localvars, nfvars, outvars>>

(* Mutant: the packets for O are in q before the others are handled. *)
RunEndOffloadFirst ==
    /\ pc["W"] = "run" /\ burst = <<>>
    /\ q' = q \o Front(off_pkts, QSIZE - Len(q))
    /\ leaked' = leaked \union Elements(Rest(off_pkts, QSIZE - Len(q)))
    /\ off_pkts' = <<>>
    /\ IF batch["W"] = <<>>
       THEN pc' = [pc EXCEPT !["W"] = "enqueue"] /\ UNCHANGED posvars
       ELSE Push("W", batch["W"])
    /\ UNCHANGED <<next, burst, offloaded, myring, myown, localvars, nfvars,
                   sent>>

(* ... and the chain on those that stay here ... *)
RunEnd ==
    /\ pc["W"] = "run" /\ burst = <<>>
    /\ IF batch["W"] = <<>>
       THEN pc' = [pc EXCEPT !["W"] = "enqueue"] /\ UNCHANGED posvars
       ELSE Push("W", batch["W"])
    /\ UNCHANGED <<inputvars, ringvars, localvars, nfvars, outvars>>

(* ... before the others are left to O, as far as q has room. *)
Enqueue ==
    /\ pc["W"] = "enqueue" /\ pc' = [pc EXCEPT !["W"] = "top"]
    /\ q' = q \o Front(off_pkts, QSIZE - Len(q))
    /\ leaked' = leaked \union Elements(Rest(off_pkts, QSIZE - Len(q)))
    /\ off_pkts' = <<>>
    /\ UNCHANGED <<next, burst, offloaded, myring, myown, posvars, localvars,
                   nfvars, sent>>

(* DyssectOffloadingCore::run_task *)
DequeueBurst ==
    /\ pc["O"] = "top" /\ q # <<>>
    /\ Push("O", Front(q, BURST))
    /\ q' = Rest(q, BURST)
    /\ UNCHANGED <<inputvars, myring, myown, localvars, nfvars, outvars>>

-----------------------------------------------------------------------------
(* The chain.  push_batch of a function runs simple_action on every packet  *)
(* of the batch and then hands the batch to the next.                       *)

Pkt(c) == batch[c][at[c]]
InNF(c, h) == nf[c] = h /\ pc[c] \in {"install", "read", "write"}

NewState == [cnt |-> [k \in Class |-> 0],
             ring |-> [k \in Class |-> [i \in 0 .. ENTRIES - 1 |-> NoPkt]]]

(* Mutant: the state is taken to be there. *)
LoadUnchecked(c) ==
    /\ pc[c] = "load"
    /\ state' = [state EXCEPT ![c] = global_state[nf[c]]]
    /\ pc' = [pc EXCEPT ![c] = "read"]
    /\ UNCHANGED <<inputvars, ringvars, posvars, tmp, class, nfvars, outvars>>

(* Mutant: every packet gets a state. *)
LoadAlwaysNew(c) ==
    /\ pc[c] = "load"
    /\ state' = [state EXCEPT ![c] = global_state[nf[c]]]
    /\ pc' = [pc EXCEPT ![c] = "install"]
    /\ met' = met \union {h \in NF : nf[c] = h /\ \E d \in Cores \ {c} : InNF(d, h)}
    /\ UNCHANGED <<inputvars, ringvars, posvars, tmp, class, global_state, heap,
                   handled, log, outvars>>

(* simple_action looks for the flow's state ... *)
Load(c) ==
    /\ pc[c] = "load"
    /\ state' = [state EXCEPT ![c] = global_state[nf[c]]]
    /\ pc' = [pc EXCEPT ![c] = IF global_state[nf[c]] = 0 THEN "install" ELSE "read"]
    /\ met' = met \union {h \in NF : nf[c] = h /\ \E d \in Cores \ {c} : InNF(d, h)}
    /\ UNCHANGED <<inputvars, ringvars, posvars, tmp, class, global_state,
                   heap, handled, log, outvars>>

(* ... makes one, filled in before it is installed ... *)
Install(c) ==
    /\ pc[c] = "install" /\ pc' = [pc EXCEPT ![c] = "read"]
    /\ heap' = [heap EXCEPT ![nf[c]] = Append(@, NewState)]
    /\ state' = [state EXCEPT ![c] = Len(heap'[nf[c]])]
    /\ global_state' = [global_state EXCEPT ![nf[c]] = Len(heap'[nf[c]])]
    /\ UNCHANGED <<inputvars, ringvars, posvars, tmp, class, handled, log,
                   met, outvars>>

(* ... and reads the counter it increments: DyIDS has one for each class.   *)
Read(c) ==
    /\ pc[c] = "read" /\ pc' = [pc EXCEPT ![c] = "write"]
    /\ \E k \in IF nf[c] = 2 THEN Class ELSE {"found"} :
          /\ class' = [class EXCEPT ![c] = k]
          /\ tmp' = [tmp EXCEPT ![c] = heap[nf[c]][state[c]].cnt[k]]
    /\ UNCHANGED <<inputvars, ringvars, posvars, state, nfvars, outvars>>

(* The packet after this one, the next function, or the end of the chain. *)
Advance(c) ==
    LET more == at[c] < Len(batch[c])
    IN  /\ at' = [at EXCEPT ![c] = IF more THEN @ + 1 ELSE 1]
        /\ nf' = [nf EXCEPT ![c] = IF more \/ @ = 2 THEN @ ELSE @ + 1]
        /\ pc' = [pc EXCEPT ![c] = IF more \/ nf[c] = 1 THEN "load" ELSE "tx"]
        /\ state' = [state EXCEPT ![c] = 0] /\ tmp' = [tmp EXCEPT ![c] = 0]
        /\ class' = [class EXCEPT ![c] = "found"]
        /\ UNCHANGED batch

(* DyNAPT::update_state *)
NaptUpdate(c) ==
    /\ pc[c] = "write" /\ nf[c] = 1
    /\ heap' = [heap EXCEPT ![1][state[c]].cnt["found"] = (tmp[c] + 1) % WORD]
    /\ handled' = Append(handled, <<Pkt(c), c>>)
    /\ Advance(c)
    /\ UNCHANGED <<inputvars, ringvars, global_state, log, met, outvars>>

(* Mutant: the entry after the increment. *)
SlotAfter(n) == (n + 1) % ENTRIES

(* The entry a counter names. *)
Slot(n) == n % ENTRIES

(* DyIDS::UpdateState *)
IdsUpdate(c) ==
    /\ pc[c] = "write" /\ nf[c] = 2
    /\ heap' = [heap EXCEPT ![2][state[c]] =
          [cnt |-> [@.cnt EXCEPT ![class[c]] = (tmp[c] + 1) % WORD],
           ring |-> [@.ring EXCEPT ![class[c]][Slot(tmp[c])] = Pkt(c)]]]
    /\ log' = [log EXCEPT ![class[c]] = Append(@, Pkt(c))]
    /\ Advance(c)
    /\ UNCHANGED <<inputvars, ringvars, global_state, handled, met, outvars>>

(* Mutant: a burst is one packet short. *)
SendShort(b) == sent' = sent \union Elements(Front(b, BURST - 1))

(* DyssectQueueOut::push_batch: one burst at most; how much of it the NIC   *)
(* takes is counted, and not looked at.                                     *)
Send(b) == sent' = sent \union Elements(Front(b, BURST))

Transmit(c) ==
    /\ pc[c] = "tx"
    /\ pc' = [pc EXCEPT ![c] = IF c = "W" /\ ~myown THEN "enqueue" ELSE "top"]
    /\ Send(batch[c])
    /\ batch' = [batch EXCEPT ![c] = <<>>]
    /\ at' = [at EXCEPT ![c] = 1] /\ nf' = [nf EXCEPT ![c] = 1]
    /\ UNCHANGED <<inputvars, ringvars, localvars, nfvars, leaked>>

Chain(c) ==
    Load(c) \/ Install(c) \/ Read(c) \/ NaptUpdate(c) \/ IdsUpdate(c) \/ Transmit(c)

(* What the owner does with packets it has, and when it may get new ones. *)
Owner == DrainBatch \/ DrainEnd \/ Run \/ RunEnd \/ Enqueue \/ Chain("W")

Input == (\E n \in 1 .. BURST : Receive(n)) \/ (\E n \in 0 .. BURST : Transfer(n))

Offloader == DequeueBurst \/ Chain("O")

Next == Owner \/ Input \/ Offloader

Spec == Init /\ [][Next]_vars

(* Both tasks reschedule themselves on every path; packets and signals need *)
(* not come.                                                                *)
FairSpec == Spec /\ WF_vars(Owner) /\ WF_vars(Offloader)

-----------------------------------------------------------------------------
(* Properties.                                                              *)

(* Every variable has its type; a core holds no pointer that is not one of  *)
(* an allocated state.                                                      *)
TypeOK ==
    /\ next \in 1 .. MaxPkts + 1 /\ myown \in BOOLEAN
    /\ Len(q) <= QSIZE /\ Len(burst) <= BURST
    /\ pc \in [Cores -> {"top", "run", "enqueue", "load", "install", "read",
                         "write", "tx"}]
    /\ nf \in [Cores -> NF] /\ tmp \in [Cores -> 0 .. WORD - 1]
    /\ \A c \in Cores :
          /\ pc[c] \in {"load", "install", "read", "write"} => at[c] \in DOMAIN batch[c]
          /\ pc[c] \in {"read", "write"} => state[c] \in DOMAIN heap[nf[c]]
    /\ \A h \in NF : global_state[h] \in 0 .. Len(heap[h])
    /\ \A h \in NF : \A i \in DOMAIN heap[h] :
          heap[h][i].cnt \in [Class -> 0 .. WORD - 1]

(* A packet the owner received is in exactly one place until it is given to *)
(* the NIC, and is lost before only where q refused it: no batch that       *)
(* reaches DyssectQueueOut is longer than the one burst it sends.           *)
EveryPacketOnce ==
    LET places == <<Elements(q), Elements(myring), Elements(burst),
                    Elements(off_pkts), Elements(batch["W"]),
                    Elements(batch["O"]), sent, leaked>>
    IN  /\ \A p \in 1 .. next - 1 :
              Cardinality({k \in DOMAIN places : p \in places[k]}) = 1
        /\ Len(q) + Len(myring) + Len(burst) + Len(off_pkts) + Len(batch["W"])
             + Len(batch["O"]) + Cardinality(sent \union leaked)
           = next - 1

(* A packet overtakes an earlier one of its flow only when the owner        *)
(* handles it and the earlier one had been left to the offloading core: the *)
(* flow changed sides while packets were on their way.                      *)
OvertakenOnlyByOwner ==
    \A i, j \in DOMAIN handled :
        i < j /\ handled[i][1] > handled[j][1]
            => handled[i][2] = "W" /\ handled[j][1] \in offloaded

(* A function has one state for the flow, and never more than one for each  *)
(* core; there is a second only if the two cores met in the function.       *)
OneStatePerFlow ==
    \A h \in NF : /\ Len(heap[h]) <= Cardinality(Cores)
                  /\ h \notin met => Len(heap[h]) <= 1

(* The state of a function the two cores did not meet in is the one that   *)
(* handling the packets one after another gives, on whichever core each was *)
(* handled: DyNAPT's count is their number, and DyIDS remembers the last    *)
(* packets of each class, also after its counters have wrapped.             *)
StateExact ==
    /\ 1 \notin met =>
          IF global_state[1] = 0 THEN handled = <<>>
          ELSE heap[1][global_state[1]].cnt["found"] = Len(handled) % WORD
    /\ 2 \notin met /\ global_state[2] # 0 =>
          \A k \in Class :
              \A i \in DOMAIN log[k] :
                  i > Len(log[k]) - ENTRIES =>
                      heap[2][global_state[2]].ring[k][(i - 1) % ENTRIES] = log[k][i]

(* Every packet the owner received is sent or leaked in the end, on         *)
(* whichever core, however often its flow changes sides.                    *)
PacketsServed ==
    \A p \in 1 .. MaxPkts : p < next ~> p \in sent \union leaked
=============================================================================
