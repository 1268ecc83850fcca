---------------------------- MODULE FastUDPFlows ----------------------------
(***************************************************************************)
(* The traffic generator with a push output: its task pulls packets from   *)
(* the element in batches and pushes them, a timer wakes the task when the *)
(* rate limiter had nothing to give, and write handlers change its state   *)
(* between two runs of the task (one thread runs both).                    *)
(*                                                                         *)
(* Headers are left out except the source port, which stands for both      *)
(* ports; so are the time stamps of the rate handler.  The limiter is      *)
(* modelled by whether it owes a packet now.                               *)
(***************************************************************************)
EXTENDS Integers

CONSTANTS
    NFLOWS, FLOWSIZE, FLOWBURST,    \* FLOWS, FLOWSIZE, FLOWBURST arguments
    MAXBATCH,       \* packets per run of the task (max)
    WORD,           \* modulus of an unsigned int
    PORTS,          \* modulus of change_ports, the largest 16-bit number
    RateLimited,    \* RATE # 0
    Sequential,     \* SEQUENTIAL argument
    Stop,           \* STOP argument
    Limits          \* values the limit handler may write

NO_LIMIT == WORD - 1
Flow == 0 .. NFLOWS - 1

ASSUME ArgsAssumption ==
    /\ NFLOWS \in Nat \ {0} /\ FLOWSIZE \in Nat \ {0} /\ FLOWBURST \in Nat \ {0}
    /\ MAXBATCH \in Nat \ {0} /\ WORD \in Nat /\ WORD > 1
    /\ PORTS \in Nat /\ PORTS > 1
    /\ RateLimited \in BOOLEAN /\ Sequential \in BOOLEAN /\ Stop \in BOOLEAN
    /\ Limits \subseteq 0 .. NO_LIMIT

VARIABLES
    active, limit, count,           \* _active, _limit, _count
    index, burst_count,             \* _last_flow
    flow_count, port,               \* _flows
    owed,                           \* the rate limiter owes a packet
    scheduled, timer, running, got, \* task and timer; packets of this batch
    stopped,                        \* the driver was asked to stop
    \* history: packets generated (modulo a whole round), the last one's flow,
    \* packets sent on the present port, a reset not yet followed by a packet
    turn, lastFlow, onPort, resetPending

gvars == <<index, burst_count, flow_count, port, turn, lastFlow, onPort>>
tvars == <<scheduled, timer, running, got>>
vars == <<active, limit, count, gvars, owed, tvars, stopped, resetPending>>

Round == NFLOWS * FLOWBURST

Init ==
    /\ active \in BOOLEAN /\ limit \in Limits /\ count = 0
    /\ index = 0 /\ burst_count = 1
    /\ flow_count = [f \in Flow |-> 0]
    /\ port \in [Flow -> 0 .. PORTS]
    /\ owed = FALSE
    /\ scheduled = TRUE /\ timer = FALSE /\ running = FALSE /\ got = 0
    /\ stopped = FALSE
    /\ turn = 0 /\ lastFlow = 0 /\ onPort = [f \in Flow |-> 0]
    /\ resetPending = FALSE

-----------------------------------------------------------------------------
(* get_packet: the flow of the next packet, and the state it leaves. *)
BurstGoesOn == burst_count < FLOWBURST

FlowChoices ==
    IF BurstGoesOn \/ Sequential THEN {index % NFLOWS} ELSE Flow

(* Mutant: the index moves with every packet of a burst. *)
NextIndexEachPacket == IF Sequential THEN (index + 1) % WORD ELSE index

NextIndex ==
    IF ~BurstGoesOn /\ Sequential THEN (index + 1) % WORD ELSE index

(* Mutant: the ports stay the same. *)
SamePorts(p) == {p}

(* change_ports *)
NewPorts(p) == IF Sequential THEN {(p + 1) % PORTS} ELSE 0 .. PORTS - 1

GetPacket(f) ==
    /\ f \in FlowChoices
    /\ index' = NextIndex
    /\ burst_count' = IF BurstGoesOn THEN burst_count + 1 ELSE 1
    /\ \/ /\ flow_count[f] >= FLOWSIZE
          /\ \E p \in NewPorts(port[f]) : port' = [port EXCEPT ![f] = p]
          /\ flow_count' = [flow_count EXCEPT ![f] = 1]
       \/ /\ flow_count[f] < FLOWSIZE
          /\ port' = port
          /\ flow_count' = [flow_count EXCEPT ![f] = @ + 1]
    /\ turn' = (turn + 1) % Round /\ lastFlow' = f
    /\ onPort' = [onPort EXCEPT ![f] = IF port'[f] = port[f] THEN @ + 1 ELSE 1]

(* pull: may a packet be generated now? *)
LimitReached(c) == limit # NO_LIMIT /\ c >= limit

MayPull == active /\ ~LimitReached(count) /\ (RateLimited => owed)

-----------------------------------------------------------------------------
(* run_task *)

TaskStarts ==
    /\ scheduled /\ ~running /\ ~stopped
    /\ scheduled' = FALSE /\ running' = TRUE /\ got' = 0
    /\ UNCHANGED <<active, limit, count, gvars, owed, timer, stopped,
                   resetPending>>

(* One pull of the batch that yields a packet. *)
PullPacket ==
    /\ running /\ got < MAXBATCH /\ MayPull
    /\ \E f \in Flow : GetPacket(f)
    /\ owed' \in BOOLEAN
    /\ count' = (count + 1) % WORD
    /\ stopped' = (stopped \/ (Stop /\ LimitReached(count')))
    /\ got' = got + 1
    /\ resetPending' = FALSE
    /\ UNCHANGED <<active, limit, scheduled, timer, running>>

(* Mutant: no timer is set when there was no packet. *)
TaskEndsNoTimer ==
    /\ running /\ (got = MAXBATCH \/ ~MayPull)
    /\ running' = FALSE /\ got' = 0
    /\ scheduled' = (got > 0)
    /\ UNCHANGED <<active, limit, count, gvars, owed, timer, stopped,
                   resetPending>>

(* The batch is complete: push it and run again, or, with no packet, leave  *)
(* the task to the timer, which only a rate-limited element sets.           *)
TaskEnds ==
    /\ running /\ (got = MAXBATCH \/ ~MayPull)
    /\ running' = FALSE /\ got' = 0
    /\ scheduled' = (got > 0)
    /\ timer' = (timer \/ (got = 0 /\ RateLimited))
    /\ UNCHANGED <<active, limit, count, gvars, owed, stopped, resetPending>>

(* run_timer, at the limiter's expiry *)
TimerFires ==
    /\ timer /\ owed /\ ~running /\ ~stopped
    /\ timer' = FALSE /\ scheduled' = TRUE
    /\ UNCHANGED <<active, limit, count, gvars, owed, running, got, stopped,
                   resetPending>>

(* Time passes until the limiter owes a packet. *)
TimePasses ==
    /\ RateLimited /\ ~owed
    /\ owed' = TRUE
    /\ UNCHANGED <<active, limit, count, gvars, tvars, stopped, resetPending>>

-----------------------------------------------------------------------------
(* The write handlers. *)

Handler == ~running /\ ~stopped

(* Packets may be sent, so a reset is expected to bring one. *)
Sends(a, l) == a /\ l # 0

WriteReset ==
    /\ Handler
    /\ count' = 0
    /\ resetPending' = Sends(active, limit)
    /\ UNCHANGED <<active, limit, gvars, owed, tvars, stopped>>

WriteActive(a) ==
    /\ Handler
    /\ active' = a
    /\ count' = IF a THEN 0 ELSE count
    /\ resetPending' = (resetPending /\ a)
    /\ UNCHANGED <<limit, gvars, owed, tvars, stopped>>

WriteLimit(l) ==
    /\ Handler
    /\ limit' = l
    /\ resetPending' = (resetPending /\ Sends(active, l))
    /\ UNCHANGED <<active, count, gvars, owed, tvars, stopped>>

Task == TaskStarts \/ PullPacket \/ TaskEnds

Next ==
    \/ Task \/ TimerFires \/ TimePasses
    \/ WriteReset
    \/ \E a \in BOOLEAN : WriteActive(a)
    \/ \E l \in Limits : WriteLimit(l)

Spec == Init /\ [][Next]_vars

(* The driver runs a scheduled task and fires a due timer; time passes. *)
FairSpec == Spec /\ WF_vars(Task) /\ WF_vars(TimerFires) /\ WF_vars(TimePasses)

-----------------------------------------------------------------------------
(* Properties.                                                              *)

(* Every variable has its type. *)
TypeOK ==
    /\ active \in BOOLEAN /\ limit \in Limits /\ count \in 0 .. WORD - 1
    /\ index \in 0 .. WORD - 1 /\ burst_count \in 1 .. FLOWBURST
    /\ flow_count \in [Flow -> 0 .. FLOWSIZE]
    /\ port \in [Flow -> 0 .. PORTS]
    /\ owed \in BOOLEAN /\ scheduled \in BOOLEAN /\ timer \in BOOLEAN
    /\ running \in BOOLEAN /\ got \in 0 .. MAXBATCH /\ stopped \in BOOLEAN
    /\ turn \in 0 .. Round - 1 /\ lastFlow \in Flow
    /\ onPort \in [Flow -> Nat] /\ resetPending \in BOOLEAN

(* In sequential mode the flows take turns, FLOWBURST packets each, however *)
(* batches, resets and limits cut the stream; the index must wrap at a      *)
(* multiple of the number of flows.                                         *)
FlowsTakeTurns ==
    Sequential /\ WORD % NFLOWS = 0 /\ onPort # [f \in Flow |-> 0] =>
        lastFlow = (((turn + Round - 1) % Round) \div FLOWBURST) % NFLOWS

(* In sequential mode no flow sends more than FLOWSIZE packets on one port. *)
FlowSizeKept == Sequential => \A f \in Flow : onPort[f] <= FLOWSIZE

(* "Reset and restart": an active element with a limit above 0 sends again  *)
(* after a write to its reset handler, unless the driver stops.             *)
ResetRestarts == resetPending ~> (~resetPending \/ stopped)
=============================================================================
