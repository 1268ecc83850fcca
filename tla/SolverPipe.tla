----------------------------- MODULE SolverPipe -----------------------------
(***************************************************************************)
(* The controller asks the solver process for an assignment through two    *)
(* named pipes in the working directory: solver_IN carries the request,    *)
(* solver_OUT the answer.                                                  *)
(*                                                                         *)
(* Each process makes the pipe it reads from when it starts, replacing     *)
(* what an earlier run left, and opens both by name, with O_CREAT where it *)
(* writes: an open between the unlink and the mkfifo of the other process  *)
(* makes an ordinary file.  An open of a pipe waits for the other end.     *)
(*                                                                         *)
(* A request is two parts, the mode and the rest; an answer is the value   *)
(* and, when the value is 1, the rest.  Parts carry the number of the      *)
(* request they belong to.  A part that read() did not deliver is an       *)
(* uninitialised variable.  What the numbers in a request and an answer    *)
(* say is left out (ShardMigration has the assignments).                   *)
(***************************************************************************)
EXTENDS Integers, Sequences

CONSTANTS
    MaxReq,     \* bound: requests
    MaxCrash,   \* bound: times a process is killed
    PIPE        \* parts a pipe can hold

ASSUME BoundsAssumption ==
    MaxReq \in Nat /\ MaxCrash \in Nat /\ PIPE \in Nat \ {0}

Procs  == {"ctl", "slv"}
Names  == {"IN", "OUT"}
Inodes == 1 .. 5        \* at most four are named or open at a time
Absent == 0             \* no such file, or no file open
Stale  == 0             \* request number of what an earlier run left
Bad    == -1            \* number of a part never read
None   == -2            \* no answer was applied

Part == [id : Int, ok : BOOLEAN]

VARIABLES
    path, fifo, data,       \* directory, kind and contents of inodes
    fd, off, met,           \* per process: inode open, offset, open may return
    pc,
    req,                    \* controller: requests made
    answer,                 \* controller: number of the answer being read
    used,                   \* controller: number of the last answer applied
    job,                    \* solver: number of the request being solved
    good,                   \* solver: the optimum was found
    \* history: kills, and which processes were killed; the solver threw; it
    \* read past the end of a request; the controller opened solver_IN before
    \* the solver had made it
    crashes, killed, threw, eof, early

fsvars == <<path, fifo, data>>
fdvars == <<fd, off, met>>
cvars == <<req, answer, used>>
svars == <<job, good>>
hvars == <<crashes, killed, threw, eof, early>>
vars == <<fsvars, fdvars, pc, cvars, svars, hvars>>

Other(p) == IF p = "ctl" THEN "slv" ELSE "ctl"

(* The pipe process p reads from, and makes when it starts. *)
Own(p) == IF p = "ctl" THEN "OUT" ELSE "IN"

Goto(p, l) == pc' = [pc EXCEPT ![p] = l]

(* The working directory is empty, or holds what an earlier run left. *)
Init ==
    /\ \E left \in [Names -> {"none", "fifo", "file"}] :
          /\ path = [n \in Names |-> IF left[n] = "none" THEN Absent
                                     ELSE IF n = "IN" THEN 1 ELSE 2]
          /\ fifo = [i \in Inodes |-> \A n \in Names :
                                         path[n] = i => left[n] = "fifo"]
    /\ data = [i \in Inodes |->
                  IF fifo[i] THEN <<>>
                  ELSE <<[id |-> Stale, ok |-> TRUE], [id |-> Stale, ok |-> TRUE]>>]
    /\ fd = [p \in Procs |-> Absent] /\ off = [p \in Procs |-> 0]
    /\ met = [p \in Procs |-> FALSE]
    /\ pc = [p \in Procs |-> "down"]
    /\ req = 0 /\ answer = Bad /\ used = None
    /\ job = Bad /\ good = FALSE
    /\ crashes = 0 /\ killed = {} /\ threw = FALSE /\ eof = FALSE /\ early = FALSE

-----------------------------------------------------------------------------
(* Files and pipes.                                                         *)

NewInode ==
    CHOOSE i \in Inodes : /\ \A n \in Names : path[n] # i
                          /\ \A p \in Procs : fd[p] # i

(* The name n now denotes a new, empty inode. *)
Create(n, isFifo) ==
    /\ path' = [path EXCEPT ![n] = NewInode]
    /\ fifo' = [fifo EXCEPT ![NewInode] = isFifo]
    /\ data' = [data EXCEPT ![NewInode] = <<>>]

(* open by name, with O_CREAT.  The call returns once both ends were open.  *)
Open(p, n) ==
    LET i == path'[n]
        q == Other(p)
    IN  /\ IF path[n] = Absent THEN Create(n, FALSE) ELSE UNCHANGED fsvars
        /\ fd' = [fd EXCEPT ![p] = i]
        /\ off' = [off EXCEPT ![p] = 0]
        /\ met' = [met EXCEPT ![p] = ~fifo'[i] \/ fd[q] = i,
                              ![q] = @ \/ fd[q] = i]

(* The other end of the pipe p has open is open too. *)
Paired(p) == fd[Other(p)] = fd[p]

HasData(p) ==
    IF fifo[fd[p]] THEN data[fd[p]] # <<>> ELSE off[p] < Len(data[fd[p]])

AtEnd(p) == ~HasData(p) /\ (fifo[fd[p]] => ~Paired(p))

NextPart(p) == data[fd[p]][IF fifo[fd[p]] THEN 1 ELSE off[p] + 1]

(* read() of one part *)
Consume(p) ==
    IF fifo[fd[p]]
    THEN data' = [data EXCEPT ![fd[p]] = Tail(@)] /\ UNCHANGED off
    ELSE off' = [off EXCEPT ![p] = @ + 1] /\ UNCHANGED data

(* write() of one part: it waits while the pipe is full, and without a      *)
(* reader it fails.                                                         *)
Write(p, part) ==
    LET i == fd[p]
        k == off[p] + 1
    IN  IF fifo[i]
        THEN /\ Paired(p) => Len(data[i]) < PIPE
             /\ data' = IF Paired(p) THEN [data EXCEPT ![i] = Append(@, part)]
                                     ELSE data
             /\ UNCHANGED off
        ELSE /\ data' = [data EXCEPT ![i] =
                            [j \in 1 .. (IF k > Len(@) THEN k ELSE Len(@)) |->
                                IF j = k THEN part ELSE @[j]]]
             /\ off' = [off EXCEPT ![p] = k]

(* close(); a pipe nobody has open holds nothing. *)
Close(p) ==
    /\ fd' = [fd EXCEPT ![p] = Absent]
    /\ met' = [met EXCEPT ![p] = FALSE]
    /\ data' = IF fd[p] # Absent /\ fifo[fd[p]] /\ ~Paired(p)
               THEN [data EXCEPT ![fd[p]] = <<>>] ELSE data
    /\ UNCHANGED off

-----------------------------------------------------------------------------
(* Starting either process: make its pipe, or remove what is in the way ... *)
Start(p) ==
    /\ pc[p] = "down"
    /\ IF path[Own(p)] = Absent
       THEN Create(Own(p), TRUE) /\ Goto(p, "ready")
       ELSE /\ path' = [path EXCEPT ![Own(p)] = Absent]
            /\ Goto(p, "remake")
            /\ UNCHANGED <<fifo, data>>
    /\ UNCHANGED <<fdvars, cvars, svars, hvars>>

(* ... and try again; that the second mkfifo may fail is not noticed. *)
Remake(p) ==
    /\ pc[p] = "remake"
    /\ IF path[Own(p)] = Absent THEN Create(Own(p), TRUE) ELSE UNCHANGED fsvars
    /\ Goto(p, "ready")
    /\ UNCHANGED <<fdvars, cvars, svars, hvars>>

(* Either process is killed. *)
Crash(p) ==
    /\ pc[p] # "down" /\ crashes < MaxCrash
    /\ crashes' = crashes + 1 /\ killed' = killed \union {p}
    /\ Close(p) /\ Goto(p, "down")
    /\ UNCHANGED <<path, fifo, cvars, svars, threw, eof, early>>

-----------------------------------------------------------------------------
(* The controller: run_short_solver.                                        *)

CtlRequest ==
    /\ pc["ctl"] = "ready" /\ req < MaxReq
    /\ req' = req + 1
    /\ used' = None
    /\ early' = (early \/ pc["slv"] \in {"down", "remake"})
    /\ Open("ctl", "IN") /\ Goto("ctl", "openIN")
    /\ UNCHANGED <<answer, svars, crashes, killed, threw, eof>>

(* An open returns. *)
Opened(p) ==
    /\ met[p]
    /\ \/ pc[p] = "openIN" /\ Goto(p, "mode")
       \/ pc[p] = "openOUT" /\ Goto(p, "value")
    /\ UNCHANGED <<fsvars, fdvars, cvars, svars, hvars>>

(* Errors of write() are not looked at. *)
CtlWrite ==
    /\ \/ pc["ctl"] = "mode" /\ Goto("ctl", "rest")
       \/ pc["ctl"] = "rest" /\ Goto("ctl", "closeIN")
    /\ Write("ctl", [id |-> req, ok |-> TRUE])
    /\ UNCHANGED <<path, fifo, fd, met, cvars, svars, hvars>>

CtlCloseIn ==
    /\ pc["ctl"] = "closeIN"
    /\ Close("ctl") /\ Goto("ctl", "wait")
    /\ UNCHANGED <<path, fifo, cvars, svars, hvars>>

CtlOpenOut ==
    /\ pc["ctl"] = "wait"
    /\ Open("ctl", "OUT") /\ Goto("ctl", "openOUT")
    /\ UNCHANGED <<cvars, svars, hvars>>

(* Mutant: the value is not looked at. *)
CtlIgnoreValue ==
    /\ pc["ctl"] = "value"
    /\ Goto("ctl", "answer")
    /\ \/ HasData("ctl") /\ answer' = NextPart("ctl").id /\ Consume("ctl")
       \/ AtEnd("ctl") /\ answer' = Bad /\ UNCHANGED <<data, off>>
    /\ UNCHANGED <<path, fifo, fd, met, req, used, svars, hvars>>

(* Read the value; at the end of the file it keeps whatever was in memory. *)
CtlReadValue ==
    /\ pc["ctl"] = "value"
    /\ \/ /\ HasData("ctl")
          /\ answer' = NextPart("ctl").id
          /\ Goto("ctl", IF NextPart("ctl").ok THEN "answer" ELSE "closeOUT")
          /\ Consume("ctl")
       \/ /\ AtEnd("ctl")
          /\ answer' = Bad
          /\ \E l \in {"answer", "closeOUT"} : Goto("ctl", l)
          /\ UNCHANGED <<data, off>>
    /\ UNCHANGED <<path, fifo, fd, met, req, used, svars, hvars>>

(* Read the assignment into newA and newO and use it. *)
CtlReadAnswer ==
    /\ pc["ctl"] = "answer"
    /\ \/ /\ HasData("ctl")
          /\ used' = IF NextPart("ctl").id = answer THEN answer ELSE Bad
          /\ Consume("ctl")
       \/ /\ AtEnd("ctl")
          /\ used' = Bad
          /\ UNCHANGED <<data, off>>
    /\ Goto("ctl", "closeOUT")
    /\ UNCHANGED <<path, fifo, fd, met, req, answer, svars, hvars>>

CtlCloseOut ==
    /\ pc["ctl"] = "closeOUT"
    /\ Close("ctl") /\ Goto("ctl", "ready")
    /\ answer' = Bad
    /\ UNCHANGED <<path, fifo, req, used, svars, hvars>>

Controller ==
    \/ Opened("ctl") \/ CtlWrite \/ CtlCloseIn \/ CtlOpenOut \/ CtlReadValue
    \/ CtlReadAnswer \/ CtlCloseOut

-----------------------------------------------------------------------------
(* The solver: main and short_solver.                                       *)

SlvOpenIn ==
    /\ pc["slv"] = "ready"
    /\ Open("slv", "IN") /\ Goto("slv", "openIN")
    /\ UNCHANGED <<cvars, svars, hvars>>

SlvRead ==
    /\ pc["slv"] \in {"mode", "rest"}
    /\ Goto("slv", IF pc["slv"] = "mode" THEN "rest" ELSE "closeIN")
    /\ \/ /\ HasData("slv")
          /\ job' = IF pc["slv"] = "mode" \/ NextPart("slv").id = job
                    THEN NextPart("slv").id ELSE Bad
          /\ Consume("slv") /\ UNCHANGED eof
       \/ /\ AtEnd("slv")
          /\ job' = Bad /\ eof' = TRUE
          /\ UNCHANGED <<data, off>>
    /\ UNCHANGED <<path, fifo, fd, met, cvars, good, crashes, killed, threw,
                   early>>

SlvCloseIn ==
    /\ pc["slv"] = "closeIN"
    /\ Close("slv") /\ Goto("slv", "solve")
    /\ UNCHANGED <<path, fifo, cvars, svars, hvars>>

(* Mutant: no answer is written when there is no optimum. *)
SlvSolveSilent ==
    /\ pc["slv"] = "solve"
    /\ \/ good' = TRUE /\ Goto("slv", "wait") /\ UNCHANGED threw
       \/ good' = FALSE /\ Goto("slv", "ready") /\ UNCHANGED threw
       \/ threw' = TRUE /\ Goto("slv", "ready") /\ UNCHANGED good
    /\ UNCHANGED <<fsvars, fdvars, cvars, job, crashes, killed, eof, early>>

(* Mutant: the solver ends when there is no optimum. *)
SlvSolveExits ==
    /\ pc["slv"] = "solve"
    /\ \/ good' = TRUE /\ Goto("slv", "wait") /\ UNCHANGED threw
       \/ good' = FALSE /\ Goto("slv", "down") /\ UNCHANGED threw
       \/ threw' = TRUE /\ Goto("slv", "ready") /\ UNCHANGED good
    /\ UNCHANGED <<fsvars, fdvars, cvars, job, crashes, killed, eof, early>>

(* optimize(): an optimum, none, or an exception, after which main goes on  *)
(* to the next request and no answer is written.                            *)
SlvSolve ==
    /\ pc["slv"] = "solve"
    /\ \/ /\ good' \in BOOLEAN
          /\ Goto("slv", "wait") /\ UNCHANGED threw
       \/ /\ threw' = TRUE
          /\ Goto("slv", "ready") /\ UNCHANGED good
    /\ UNCHANGED <<fsvars, fdvars, cvars, job, crashes, killed, eof, early>>

SlvOpenOut ==
    /\ pc["slv"] = "wait"
    /\ Open("slv", "OUT") /\ Goto("slv", "openOUT")
    /\ UNCHANGED <<cvars, svars, hvars>>

SlvWriteValue ==
    /\ pc["slv"] = "value" /\ (fifo[fd["slv"]] => Paired("slv"))
    /\ Goto("slv", IF good THEN "answer" ELSE "closeOUT")
    /\ Write("slv", [id |-> job, ok |-> good])
    /\ UNCHANGED <<path, fifo, fd, met, cvars, svars, hvars>>

SlvWriteAnswer ==
    /\ pc["slv"] = "answer" /\ (fifo[fd["slv"]] => Paired("slv"))
    /\ Goto("slv", "closeOUT")
    /\ Write("slv", [id |-> job, ok |-> TRUE])
    /\ UNCHANGED <<path, fifo, fd, met, cvars, svars, hvars>>

(* Without a reader the write raises SIGPIPE, which ends the solver. *)
SlvBroken ==
    /\ pc["slv"] \in {"value", "answer"}
    /\ fifo[fd["slv"]] /\ ~Paired("slv")
    /\ Close("slv") /\ Goto("slv", "down")
    /\ UNCHANGED <<path, fifo, cvars, svars, hvars>>

SlvCloseOut ==
    /\ pc["slv"] = "closeOUT"
    /\ Close("slv") /\ Goto("slv", "ready")
    /\ UNCHANGED <<path, fifo, cvars, svars, hvars>>

Solver ==
    \/ SlvOpenIn \/ Opened("slv") \/ SlvRead \/ SlvCloseIn \/ SlvSolve
    \/ SlvOpenOut \/ SlvWriteValue \/ SlvWriteAnswer
    \/ SlvBroken \/ SlvCloseOut

-----------------------------------------------------------------------------
Next ==
    \/ \E p \in Procs : Start(p) \/ Remake(p) \/ Crash(p)
    \/ CtlRequest \/ Controller \/ Solver

Spec == Init /\ [][Next]_vars

(* Both processes are started and run; epochs come one after another. *)
FairSpec ==
    /\ Spec
    /\ \A p \in Procs : WF_vars(Start(p) \/ Remake(p))
    /\ WF_vars(CtlRequest \/ Controller) /\ WF_vars(Solver)

-----------------------------------------------------------------------------
(* Properties.                                                              *)

Labels == {"down", "remake", "ready", "openIN", "mode", "rest", "closeIN",
           "wait", "openOUT", "value", "answer", "closeOUT", "solve"}

(* Every variable has its type; a file's offset stays within a message. *)
TypeOK ==
    /\ path \in [Names -> Inodes \union {Absent}]
    /\ fifo \in [Inodes -> BOOLEAN]
    /\ data \in [Inodes -> Seq(Part)]
    /\ fd \in [Procs -> Inodes \union {Absent}]
    /\ off \in [Procs -> 0 .. 2] /\ met \in [Procs -> BOOLEAN]
    /\ pc \in [Procs -> Labels]
    /\ req \in 0 .. MaxReq /\ answer \in Int /\ used \in Int
    /\ job \in Int /\ good \in BOOLEAN
    /\ crashes \in 0 .. MaxCrash /\ killed \subseteq Procs
    /\ threw \in BOOLEAN /\ eof \in BOOLEAN /\ early \in BOOLEAN

(* The assignment the controller applies was computed from the request it   *)
(* has just sent.  Otherwise it was started before the solver's pipe was    *)
(* there, or the solver made up a request at the end of a pipe, or the      *)
(* controller was killed and took its predecessor's answer, or the solver   *)
(* was killed and the controller read uninitialised memory.                 *)
AnswerIsMine ==
    \/ used \in {None, req}
    \/ early \/ eof \/ "ctl" \in killed
    \/ "slv" \in killed /\ used = Bad

(* The solver takes the end of the pipe for a request only after it threw   *)
(* and came back to solver_IN before the controller had closed it.          *)
EofNeedsThrow == eof => threw \/ early \/ killed # {}

(* What breaks a call: the solver threw, was killed or was not there yet,   *)
(* or the controller itself was killed.                                     *)
Broken == threw \/ early \/ killed # {}

CallState ==
    CASE Broken -> "broken"
      [] ~Broken /\ pc["ctl"] \in {"down", "remake", "ready"} -> "idle"
      [] OTHER -> "asked"

Call == INSTANCE SolverCall WITH
    call <- CallState,
    req  <- IF Broken THEN 0 ELSE req,
    used <- IF Broken THEN None ELSE used

(* The two pipes implement SolverCall: as long as nothing breaks the call,  *)
(* every request is answered, so the opens of both sides never wait on each *)
(* other for ever, and what is applied is the answer to that very request,  *)
(* whatever pipes and files an earlier run left in the directory.           *)
ImplementsCall == Call!Spec
=============================================================================
