------------------------------ MODULE FlowRatio ------------------------------
(***************************************************************************)
(* Which flows of a shard go to the offloading core.                       *)
(*                                                                         *)
(* A core keeps for every flow its share of the shard's bytes of the last  *)
(* epoch (prob).  Once per epoch the controller copies the shares (prob2), *)
(* sorts the flows by them and gives each the sum of the shares down to    *)
(* its own (cdf); a flow is offloaded while its cdf is below the shard's   *)
(* ratio r.  The solver asks for a ratio, update_ratio rounds it to a      *)
(* multiple of whole flows, and the core that owns the shard installs it   *)
(* when it is signalled.                                                   *)
(*                                                                         *)
(* One shard, its owner and its non-priority flows are modelled; the loops *)
(* of the controller treat the shards alike.  Every packet has length 1,   *)
(* so bytes and packets are one counter.  Real numbers are integers, ONE   *)
(* units to 1.0 and EPSILON one unit.  Who may write the tables while they *)
(* are read is FlowEpoch; how the rings follow a new ratio is Offload.     *)
(***************************************************************************)
EXTENDS Integers, Sequences, FiniteSets

CONSTANTS
    Flows,
    NoFlow,     \* no packet in hand
    ONE,        \* units of 1.0
    Requests,   \* the ratios the solver may ask for
    MaxBytes,   \* bound: bytes counted in one epoch
    MaxEpoch    \* bound: epochs

ASSUME UnitAssumption ==
    /\ ONE \in Nat /\ MaxBytes \in Nat \ {0} /\ MaxEpoch \in Nat
    /\ \A b \in 1 .. MaxBytes : ONE % b = 0
    /\ Requests \subseteq 0 .. ONE
    /\ NoFlow \notin Flows

EPSILON == 1

VARIABLES
    \* the flows: in the table, state->epoch, bytes, shares, cdf
    table, seen, bytes, prob, prob2, cdf,
    \* the shard: the table in use and the retired one, bytes counted, ratio
    flows3, retired, count, old_bytes, V, r, r_new,
    transfer_r, signal,
    cpc, epoch, ordered_flows,      \* controller
    pc, flow, local_epoch,          \* core: flow of the packet in hand
    \* history: the ratio asked for; the core was answering a signal while
    \* the controller wrote the next; packets were in hand at the last and
    \* at the current end of an epoch
    req, raced, window

flowvars == <<table, seen, bytes, prob>>
ordvars == <<prob2, cdf, ordered_flows>>
shardvars == <<flows3, retired, count>>
epochvars == <<epoch, old_bytes, V>>
ratiovars == <<r, r_new, transfer_r, signal, req, raced>>
corevars == <<pc, flow, local_epoch>>
vars == <<flowvars, ordvars, shardvars, epochvars, ratiovars, corevars, cpc,
          window>>

Init ==
    /\ table = {} /\ seen = [f \in Flows |-> 0]
    /\ bytes = [f \in Flows |-> 0] /\ prob = [f \in Flows |-> 0]
    /\ prob2 = [f \in Flows |-> 0] /\ cdf = [f \in Flows |-> 0]
    /\ flows3 = {} /\ retired = {} /\ count = 0
    /\ old_bytes = 0 /\ V = 0
    /\ r = 0 /\ r_new = 0 /\ transfer_r = 0 /\ signal = 0
    /\ cpc = "idle" /\ epoch = 0 /\ ordered_flows = <<>>
    /\ pc = "top" /\ flow = NoFlow /\ local_epoch = 0
    /\ req = 0 /\ raced = FALSE /\ window = <<FALSE, FALSE>>

Greatest(a, b) == IF a < b THEN b ELSE a
Distance(a, b) == IF a < b THEN b - a ELSE a - b

is_less_than(a, b) == (b - a) * ONE > Greatest(a, b) * EPSILON

is_equal_than(a, b) == Distance(a, b) * ONE <= Greatest(a, b) * EPSILON

(* The partial sums of the shares p along the sequence q. *)
Accum(q, p) ==
    LET sum[k \in 0 .. Len(q)] == IF k = 0 THEN 0 ELSE sum[k - 1] + p[q[k]]
    IN  sum

-----------------------------------------------------------------------------
(* The core that owns the shard.                                            *)

(* The controller is between the end of an epoch's count and the copy. *)
Closing == cpc \notin {"idle", "order"}

Touch == window' = IF Closing THEN [window EXCEPT ![2] = TRUE] ELSE window

(* run_task looks for a signal, and for a new ratio if there is one ... *)
SignalTest ==
    /\ pc = "top"
    /\ pc' = IF signal = 0 THEN "rx" ELSE IF transfer_r = 1 THEN "apply" ELSE "sclear"
    /\ UNCHANGED <<flowvars, ordvars, shardvars, epochvars, ratiovars, flow, local_epoch,
                   cpc, window>>

(* ... transfer_r installs it ... *)
ApplyRatio ==
    /\ pc = "apply" /\ pc' = "rclear"
    /\ r' = r_new
    /\ UNCHANGED <<flowvars, ordvars, shardvars, epochvars, r_new, transfer_r,
                   signal, req, raced, flow, local_epoch, cpc, window>>

TransferClear ==
    /\ pc = "rclear" /\ pc' = "sclear"
    /\ transfer_r' = 0
    /\ UNCHANGED <<flowvars, ordvars, shardvars, epochvars, r, r_new, signal, req,
                   raced, flow, local_epoch, cpc, window>>

SignalClear ==
    /\ pc = "sclear" /\ pc' = "rx"
    /\ signal' = 0
    /\ UNCHANGED <<flowvars, ordvars, shardvars, epochvars, r, r_new, transfer_r,
                   req, raced, flow, local_epoch, cpc, window>>

RxNothing ==
    /\ pc = "rx" /\ pc' = "top"
    /\ UNCHANGED <<flowvars, ordvars, shardvars, epochvars, ratiovars, flow, local_epoch,
                   cpc, window>>

(* extract_state of a new flow: its fields are those of rte_zmalloc. *)
FirstPacket(f) ==
    /\ pc = "rx" /\ f \notin table /\ count < MaxBytes
    /\ table' = table \union {f}
    /\ seen' = [seen EXCEPT ![f] = epoch]
    /\ bytes' = [bytes EXCEPT ![f] = 1] /\ count' = count + 1
    /\ pc' = "top"
    /\ Touch
    /\ UNCHANGED <<prob, ordvars, flows3, retired, epochvars, ratiovars, flow,
                   local_epoch, cpc>>

(* extract_state of a known flow loads the epoch ... *)
LoadEpoch(f) ==
    /\ pc = "rx" /\ f \in table /\ count < MaxBytes
    /\ flow' = f /\ local_epoch' = epoch /\ pc' = "refresh"
    /\ Touch
    /\ UNCHANGED <<flowvars, ordvars, shardvars, epochvars, ratiovars, cpc>>

(* Mutant: the share is that of the last epoch the flow was seen in. *)
RefreshAny ==
    /\ pc = "refresh" /\ pc' = "record"
    /\ IF seen[flow] = local_epoch
       THEN UNCHANGED flowvars
       ELSE /\ prob' = [prob EXCEPT ![flow] =
                  IF old_bytes = 0 THEN 0 ELSE (bytes[flow] * ONE) \div old_bytes]
            /\ bytes' = [bytes EXCEPT ![flow] = 0]
            /\ seen' = [seen EXCEPT ![flow] = local_epoch]
            /\ UNCHANGED table
    /\ Touch
    /\ UNCHANGED <<ordvars, shardvars, epochvars, ratiovars, flow, local_epoch, cpc>>

(* ... turns the bytes of the epoch before into a share, if the flow was    *)
(* seen in it, at its first packet of an epoch ...                          *)
Refresh ==
    /\ pc = "refresh" /\ pc' = "record"
    /\ IF seen[flow] = local_epoch
       THEN UNCHANGED flowvars
       ELSE /\ prob' = [prob EXCEPT ![flow] =
                  IF old_bytes # 0 /\ seen[flow] = local_epoch - 1
                  THEN (bytes[flow] * ONE) \div old_bytes ELSE 0]
            /\ bytes' = [bytes EXCEPT ![flow] = 0]
            /\ seen' = [seen EXCEPT ![flow] = local_epoch]
            /\ UNCHANGED table
    /\ Touch
    /\ UNCHANGED <<ordvars, shardvars, epochvars, ratiovars, flow, local_epoch, cpc>>

(* ... and records the flow and counts the packet. *)
Record ==
    /\ pc = "record" /\ pc' = "top"
    /\ flows3' = flows3 \union {flow}
    /\ bytes' = [bytes EXCEPT ![flow] = @ + 1] /\ count' = count + 1
    /\ flow' = NoFlow /\ local_epoch' = 0
    /\ Touch
    /\ UNCHANGED <<table, seen, prob, ordvars, retired, epochvars, ratiovars, cpc>>

(* run: where a packet of flow f goes. *)
Offloaded(f, ratio) == is_less_than(cdf[f], ratio)

Core ==
    \/ SignalTest \/ ApplyRatio \/ TransferClear \/ SignalClear \/ RxNothing
    \/ \E f \in Flows : FirstPacket(f) \/ LoadEpoch(f)
    \/ Refresh \/ Record

-----------------------------------------------------------------------------
(* The controller: update_short_epoch.                                      *)

(* Mutant: a silent epoch leaves the volume alone. *)
VolumeKept(before, now) == IF before = 0 \/ now = 0 THEN V ELSE now

(* volume_shards: the packets of this epoch, unless the one before it had   *)
(* none, which is an early return.                                          *)
Volume(before, now) == IF before = 0 THEN V ELSE now

(* swap_shards and volume_shards. *)
Swap ==
    /\ cpc = "idle" /\ cpc' = "solve" /\ epoch < MaxEpoch
    /\ retired' = flows3 /\ flows3' = {}
    /\ old_bytes' = count /\ count' = 0
    /\ V' = Volume(old_bytes, count)
    /\ window' = <<window[2], pc \in {"refresh", "record"}>>
    /\ UNCHANGED <<flowvars, ordvars, ratiovars, corevars, epoch>>

(* The core is taking a signal. *)
Answering == pc \in {"apply", "rclear", "sclear"}

(* run_short_solver finds no answer, or reads the ratio into r_new. *)
Solve ==
    /\ cpc = "solve"
    /\ \/ cpc' = "inc" /\ UNCHANGED ratiovars
       \/ /\ cpc' = "ratio"
          /\ r_new' \in Requests /\ req' = r_new'
          /\ raced' = Answering
          /\ UNCHANGED <<r, transfer_r, signal>>
    /\ UNCHANGED <<flowvars, ordvars, shardvars, epochvars, corevars, window>>

(* The first place where the shares along ordered_flows reach the request. *)
Reaches(k) ==
    /\ Accum(ordered_flows, prob2)[k] >= r_new
    /\ \A j \in 1 .. k - 1 : Accum(ordered_flows, prob2)[j] < r_new

(* Mutant: the sum itself, so that the flow that reached it stays behind. *)
AdjustNoEpsilon ==
    LET accum == Accum(ordered_flows, prob2)
    IN  IF is_equal_than(r_new, 0) THEN r_new
        ELSE IF \E k \in DOMAIN ordered_flows : Reaches(k) /\ accum[k] * 2 < r_new * 3
        THEN accum[CHOOSE k \in DOMAIN ordered_flows : Reaches(k)]
        ELSE r_new

(* update_ratio: the flow that reaches the request is let in when the sum   *)
(* then is below 1.5 times the request.                                     *)
Adjusted ==
    LET accum == Accum(ordered_flows, prob2)
    IN  IF is_equal_than(r_new, 0) THEN r_new
        ELSE IF \E k \in DOMAIN ordered_flows : Reaches(k) /\ accum[k] * 2 < r_new * 3
        THEN accum[CHOOSE k \in DOMAIN ordered_flows : Reaches(k)] + EPSILON
        ELSE r_new

(* Mutant: a changed ratio alone does not make a signal. *)
RatioSilent ==
    /\ cpc = "ratio"
    /\ r_new' = Adjusted
    /\ transfer_r' = IF is_equal_than(r, Adjusted) THEN transfer_r ELSE 1
    /\ \E other \in BOOLEAN : cpc' = IF other THEN "signal" ELSE "inc"
    /\ raced' = (raced \/ Answering)
    /\ UNCHANGED <<flowvars, ordvars, shardvars, epochvars, r, signal, req,
                   corevars, window>>

(* update_ratio and update: the owner is asked to install a ratio that      *)
(* differs from the one in use; there is a signal for it, or for the shards *)
(* and the relationship that may have changed too.                          *)
Ratio ==
    /\ cpc = "ratio"
    /\ r_new' = Adjusted
    /\ transfer_r' = IF is_equal_than(r, Adjusted) THEN transfer_r ELSE 1
    /\ \E other \in BOOLEAN :
          cpc' = IF other \/ ~is_equal_than(r, Adjusted) THEN "signal" ELSE "inc"
    /\ raced' = (raced \/ Answering)
    /\ UNCHANGED <<flowvars, ordvars, shardvars, epochvars, r, signal, req,
                   corevars, window>>

Signal ==
    /\ cpc = "signal" /\ cpc' = "inc"
    /\ signal' = 1
    /\ raced' = (raced \/ Answering)
    /\ UNCHANGED <<flowvars, ordvars, shardvars, epochvars, r, r_new, transfer_r,
                   req, corevars, window>>

(* The epoch counter. *)
Inc ==
    /\ cpc = "inc" /\ cpc' = "copy"
    /\ epoch' = epoch + 1 /\ req' = 0
    /\ UNCHANGED <<flowvars, ordvars, shardvars, old_bytes, V, r, r_new,
                   transfer_r, signal, raced, corevars, window>>

(* order_shards copies the shares of the flows recorded ... *)
Copy ==
    /\ cpc = "copy" /\ cpc' = "order"
    /\ prob2' = [f \in Flows |-> IF f \in retired THEN prob[f] ELSE prob2[f]]
    /\ UNCHANGED <<flowvars, cdf, ordered_flows, shardvars, epochvars, ratiovars,
                   corevars, window>>

(* The sequences of the flows in S, largest share p first; equal shares may *)
(* come in either order (std::sort is not stable).                          *)
Sorted(S, p) ==
    {q \in UNION {[1 .. n -> S] : n \in 0 .. Cardinality(S)} :
        /\ {q[k] : k \in DOMAIN q} = S
        /\ \A j, k \in DOMAIN q : j < k => q[j] # q[k] /\ p[q[j]] >= p[q[k]]}

(* Mutant: the order is that of the shares the cores are changing. *)
OrderLive ==
    /\ cpc = "order" /\ cpc' = "idle"
    /\ retired' = {}
    /\ ordered_flows' \in Sorted(retired, prob)
    /\ LET accum == Accum(ordered_flows', prob2)
       IN  cdf' = [f \in Flows |->
                     IF f \notin retired THEN cdf[f]
                     ELSE accum[CHOOSE k \in DOMAIN ordered_flows' :
                                   ordered_flows'[k] = f]]
    /\ UNCHANGED <<flowvars, prob2, flows3, count, epochvars, ratiovars,
                   corevars, window>>

(* ... sorts the flows and sums the copies up; clear_flows empties the     *)
(* retired table.                                                           *)
Order ==
    /\ cpc = "order" /\ cpc' = "idle"
    /\ retired' = {}
    /\ ordered_flows' \in Sorted(retired, prob2)
    /\ LET accum == Accum(ordered_flows', prob2)
       IN  cdf' = [f \in Flows |->
                     IF f \notin retired THEN cdf[f]
                     ELSE accum[CHOOSE k \in DOMAIN ordered_flows' :
                                   ordered_flows'[k] = f]]
    /\ UNCHANGED <<flowvars, prob2, flows3, count, epochvars, ratiovars,
                   corevars, window>>

Controller == Swap \/ Solve \/ Ratio \/ Signal \/ Inc \/ Copy \/ Order

-----------------------------------------------------------------------------
Next == Core \/ Controller

Spec == Init /\ [][Next]_vars

-----------------------------------------------------------------------------
(* Properties.                                                              *)

(* Every variable has its type; no flow is seen ahead of the epoch. *)
TypeOK ==
    /\ table \subseteq Flows /\ seen \in [Flows -> 0 .. epoch]
    /\ bytes \in [Flows -> Nat] /\ prob \in [Flows -> Nat]
    /\ prob2 \in [Flows -> Nat] /\ cdf \in [Flows -> Nat]
    /\ flows3 \subseteq table /\ retired \subseteq table
    /\ count \in 0 .. MaxBytes /\ old_bytes \in 0 .. MaxBytes
    /\ V \in 0 .. MaxBytes
    /\ r \in Nat /\ r_new \in Nat /\ req \in Requests \union {0}
    /\ transfer_r \in {0, 1} /\ signal \in {0, 1}
    /\ cpc \in {"idle", "solve", "ratio", "signal", "inc", "copy", "order"}
    /\ pc \in {"top", "apply", "rclear", "sclear", "rx", "refresh", "record"}
    /\ flow \in Flows \union {NoFlow} /\ local_epoch \in 0 .. epoch
    /\ epoch \in 0 .. MaxEpoch
    /\ raced \in BOOLEAN

Ordered == {ordered_flows[k] : k \in DOMAIN ordered_flows}

(* The flows offloaded are the largest: outside order_shards no flow of the *)
(* ordering is offloaded while one with a larger share stays, although the  *)
(* cores go on changing the shares while they are sorted.                   *)
LargestOffloaded ==
    cpc # "order" =>
        \A f, g \in Ordered :
            Offloaded(f, r) /\ prob2[g] > prob2[f] => Offloaded(g, r)

(* The share of the flows that a ratio would offload. *)
Share(ratio) ==
    Accum(ordered_flows,
          [f \in Flows |-> IF Offloaded(f, ratio) THEN prob2[f] ELSE 0])[Len(ordered_flows)]

(* update_ratio and run agree: the flows that is_less_than lets through     *)
(* under the adjusted ratio are together less than 1.5 times what the       *)
(* solver asked for, and less than it only if the next flow would overshoot *)
(* or completes the shard: a cdf within EPSILON of 1.0 is not below itself  *)
(* plus EPSILON, and its flow is never offloaded.                           *)
RatioMet ==
    cpc = "signal" =>
        LET accum == Accum(ordered_flows, prob2)
            share == Share(r_new)
        IN  /\ 2 * share < 3 * req \/ share = 0
            /\ share < req =>
                 \A k \in DOMAIN ordered_flows :
                    accum[k] >= req => 2 * accum[k] >= 3 * req \/ accum[k] + EPSILON >= ONE

(* The shares of one ordering come from one epoch and add up to at most 1.0 *)
(* unless packets were counted between the swap and the copy of this epoch  *)
(* or the last: their bytes belong to a flow's old epoch and to the shard's *)
(* new one.                                                                 *)
SharesOfOneEpoch ==
    cpc = "idle" /\ ~window[1] /\ ~window[2] =>
        Accum(ordered_flows, prob2)[Len(ordered_flows)] <= ONE

(* The volume the solver is told is this epoch's or none, never one left    *)
(* over from a busier epoch by the early return of volume_shards.           *)
VolumeNotStale == cpc = "solve" => V \in {0, old_bytes}

(* A ratio that is not the one in use is on its way to the owner, unless the*)
(* owner was answering a signal while the controller wrote the next: it may *)
(* then clear a flag that was meant for the new one.                        *)
RatioPending ==
    cpc \in {"idle", "inc", "copy", "order"} /\ ~raced
        => is_equal_than(r, r_new) \/ (transfer_r = 1 /\ signal = 1)
           \/ pc = "apply"
=============================================================================
