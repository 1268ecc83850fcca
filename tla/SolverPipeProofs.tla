-------------------------- MODULE SolverPipeProofs --------------------------
(***************************************************************************)
(* Theorems about SolverPipe for any number of requests and kills and any  *)
(* size of the pipes.                                                      *)
(***************************************************************************)
EXTENDS SolverPipe, SequenceTheorems, TLAPS

-----------------------------------------------------------------------------
(* Type correctness.                                                        *)

(* Where a process has solver_IN open, and where solver_OUT. *)
OnIn  == {"openIN", "mode", "rest", "closeIN"}
OnOut == {"openOUT", "value", "answer", "closeOUT"}

(* The files the processes have open. *)
OpenInv == \A p \in Procs : fd[p] # Absent <=> pc[p] \in OnIn \union OnOut

(* An offset counts the parts read or written, and lies within the file. *)
OffInv ==
    \A p \in Procs :
        /\ pc[p] \in {"openIN", "mode", "openOUT", "value"} => off[p] = 0
        /\ pc[p] \in {"rest", "answer"} => off[p] <= 1
        /\ fd[p] # Absent /\ ~fifo[fd[p]] => off[p] <= Len(data[fd[p]])

(* A pipe nobody has open holds nothing. *)
PipeInv == \A i \in Inodes : fifo[i] /\ data[i] # <<>> => \E p \in Procs : fd[p] = i

(* Type correctness and what it rests on. *)
TypeInv == TypeOK /\ OpenInv /\ OffInv /\ PipeInv

(* Two names and two open files leave an inode free. *)
LEMMA FreeInode ==
  ASSUME path \in [Names -> Inodes \union {Absent}], fd \in [Procs -> Inodes \union {Absent}]
  PROVE  /\ NewInode \in Inodes /\ NewInode # Absent
         /\ \A n \in Names : path[n] # NewInode
         /\ \A p \in Procs : fd[p] # NewInode
  <1>1. \E i \in Inodes : (\A n \in Names : path[n] # i) /\ (\A p \in Procs : fd[p] # i)
    <2> SUFFICES ASSUME \A i \in Inodes : \/ i = path["IN"] \/ i = path["OUT"]
                                          \/ i = fd["ctl"] \/ i = fd["slv"]
                 PROVE  FALSE
      BY DEF Names, Procs
    <2>1. {1, 2, 3, 4, 5} \subseteq Inodes
      BY DEF Inodes
    <2> QED
      BY <2>1
  <1>2. /\ NewInode \in Inodes /\ \A n \in Names : path[n] # NewInode
        /\ \A p \in Procs : fd[p] # NewInode
    BY <1>1 DEF NewInode
  <1> QED
    BY <1>2 DEF Inodes, Absent

(* The other process. *)
LEMMA Others ==
  /\ "ctl" \in Procs /\ "slv" \in Procs /\ "IN" \in Names /\ "OUT" \in Names
  /\ Other("ctl") = "slv" /\ Other("slv") = "ctl"
  /\ Own("ctl") = "OUT" /\ Own("slv") = "IN"
  /\ \A p \in Procs : /\ Other(p) \in Procs /\ Other(p) # p /\ Own(p) \in Names
                      /\ \A q \in Procs : q = p \/ q = Other(p)
  BY DEF Procs, Names, Other, Own

(* A new inode is empty and known under one name. *)
LEMMA CreateType ==
  ASSUME TypeInv, NEW n \in Names, NEW b \in BOOLEAN, Create(n, b)
  PROVE  /\ path' \in [Names -> Inodes \union {Absent}] /\ fifo' \in [Inodes -> BOOLEAN]
         /\ data' \in [Inodes -> Seq(Part)]
         /\ path'[n] \in Inodes /\ path'[n] # Absent /\ fifo'[path'[n]] = b /\ data'[path'[n]] = <<>>
         /\ \A m \in Names : m # n => path'[m] = path[m]
         /\ \A m \in Names : path[m] # path'[n]
         /\ \A p \in Procs : fd[p] # path'[n]
         /\ \A i \in Inodes : i # path'[n] => fifo'[i] = fifo[i] /\ data'[i] = data[i]
  <1>1. /\ NewInode \in Inodes /\ NewInode # Absent
        /\ \A m \in Names : path[m] # NewInode
        /\ \A p \in Procs : fd[p] # NewInode
    BY FreeInode DEF TypeInv, TypeOK
  <1>2. /\ path \in [Names -> Inodes \union {Absent}] /\ fifo \in [Inodes -> BOOLEAN]
        /\ data \in [Inodes -> Seq(Part)] /\ <<>> \in Seq(Part)
    BY EmptySeq DEF TypeInv, TypeOK
  <1> QED
    BY <1>1, <1>2 DEF Create

(* Opening by name gives an inode that has the name; what others have open   *)
(* stays as it is.                                                           *)
LEMMA OpenType ==
  ASSUME TypeInv, NEW p \in Procs, NEW n \in Names, fd[p] = Absent, Open(p, n)
  PROVE  /\ path' \in [Names -> Inodes \union {Absent}] /\ fifo' \in [Inodes -> BOOLEAN]
         /\ data' \in [Inodes -> Seq(Part)] /\ fd' \in [Procs -> Inodes \union {Absent}]
         /\ off' \in [Procs -> 0 .. 2] /\ met' \in [Procs -> BOOLEAN]
         /\ fd'[p] = path'[n] /\ path'[n] \in Inodes /\ path'[n] # Absent /\ off'[p] = 0
         /\ \A q \in Procs : q # p => fd'[q] = fd[q] /\ off'[q] = off[q]
         /\ \A q \in Procs : fd[q] # Absent => /\ fifo'[fd[q]] = fifo[fd[q]]
                                               /\ data'[fd[q]] = data[fd[q]]
         /\ PipeInv'
  <1>1. /\ path \in [Names -> Inodes \union {Absent}] /\ fifo \in [Inodes -> BOOLEAN]
        /\ data \in [Inodes -> Seq(Part)] /\ fd \in [Procs -> Inodes \union {Absent}]
        /\ off \in [Procs -> 0 .. 2] /\ met \in [Procs -> BOOLEAN] /\ PipeInv
    BY DEF TypeInv, TypeOK
  <1>2. /\ fd' = [fd EXCEPT ![p] = path'[n]] /\ off' = [off EXCEPT ![p] = 0]
        /\ met' = [met EXCEPT ![p] = ~fifo'[path'[n]] \/ fd[Other(p)] = path'[n],
                              ![Other(p)] = @ \/ fd[Other(p)] = path'[n]]
        /\ Other(p) \in Procs /\ Other(p) # p
    BY Others DEF Open
  <1>3. path[n] = Absent => Create(n, FALSE)
    BY DEF Open
  <1>4. path[n] # Absent => path' = path /\ fifo' = fifo /\ data' = data
    BY DEF Open, fsvars
  <1>5. /\ path' \in [Names -> Inodes \union {Absent}] /\ fifo' \in [Inodes -> BOOLEAN]
        /\ data' \in [Inodes -> Seq(Part)] /\ path'[n] \in Inodes /\ path'[n] # Absent
        /\ \A q \in Procs : fd[q] # Absent => /\ fifo'[fd[q]] = fifo[fd[q]]
                                              /\ data'[fd[q]] = data[fd[q]]
        /\ \A i \in Inodes : fifo'[i] /\ data'[i] # <<>> => fifo[i] /\ data[i] # <<>>
    <2>1. CASE path[n] = Absent
      <3>1. FALSE \in BOOLEAN
        OBVIOUS
      <3>2. Create(n, FALSE)
        BY <1>3, <2>1
      <3>3. /\ path' \in [Names -> Inodes \union {Absent}] /\ fifo' \in [Inodes -> BOOLEAN]
            /\ data' \in [Inodes -> Seq(Part)]
            /\ path'[n] \in Inodes /\ path'[n] # Absent /\ data'[path'[n]] = <<>>
            /\ \A q \in Procs : fd[q] # path'[n]
            /\ \A i \in Inodes : i # path'[n] => fifo'[i] = fifo[i] /\ data'[i] = data[i]
        BY <3>1, <3>2, CreateType
      <3>4. \A q \in Procs : fd[q] # Absent => fd[q] \in Inodes
        BY <1>1
      <3> QED
        BY <3>3, <3>4
    <2>2. CASE path[n] # Absent
      BY <1>1, <1>4, <2>2 DEF Inodes, Absent
    <2> QED
      BY <2>1, <2>2
  <1>6. fd' \in [Procs -> Inodes \union {Absent}] /\ off' \in [Procs -> 0 .. 2]
    BY <1>1, <1>2, <1>5
  <1>7. /\ fd'[p] = path'[n] /\ off'[p] = 0
        /\ \A q \in Procs : q # p => fd'[q] = fd[q] /\ off'[q] = off[q]
    BY <1>1, <1>2
  <1>8. met' \in [Procs -> BOOLEAN]
    <2> DEFINE a == ~fifo'[path'[n]] \/ fd[Other(p)] = path'[n]
               b == met[Other(p)] \/ fd[Other(p)] = path'[n]
    <2>1. a \in BOOLEAN /\ b \in BOOLEAN
      BY Zenon
    <2>2. met' = [met EXCEPT ![p] = a, ![Other(p)] = b]
      BY <1>1, <1>2
    <2> HIDE DEF a, b
    <2> QED
      BY <1>1, <1>2, <2>1, <2>2
  <1>9. PipeInv'
    <2> SUFFICES ASSUME NEW i \in Inodes, fifo'[i], data'[i] # <<>>
                 PROVE  \E q \in Procs : fd'[q] = i
      BY DEF PipeInv
    <2>1. PICK q \in Procs : fd[q] = i
      BY <1>1, <1>5 DEF PipeInv
    <2>2. q # p
      BY <2>1 DEF Inodes, Absent
    <2> QED
      BY <1>7, <2>1, <2>2
  <1> QED
    BY <1>5, <1>6, <1>7, <1>8, <1>9

(* Closing leaves a pipe that nobody has open empty. *)
LEMMA CloseType ==
  ASSUME TypeInv, NEW p \in Procs, Close(p)
  PROVE  /\ data' \in [Inodes -> Seq(Part)] /\ fd' \in [Procs -> Inodes \union {Absent}]
         /\ off' \in [Procs -> 0 .. 2] /\ met' \in [Procs -> BOOLEAN]
         /\ fd'[p] = Absent /\ off' = off
         /\ \A q \in Procs : q # p => fd'[q] = fd[q] /\ met'[q] = met[q]
         /\ \A i \in Inodes : ~fifo[i] => data'[i] = data[i]
         /\ \A i \in Inodes : fd[p] # i \/ fd[Other(p)] = i => data'[i] = data[i]
         /\ fifo' = fifo => PipeInv'
  <1>1. /\ fifo \in [Inodes -> BOOLEAN]
        /\ data \in [Inodes -> Seq(Part)] /\ fd \in [Procs -> Inodes \union {Absent}]
        /\ off \in [Procs -> 0 .. 2] /\ met \in [Procs -> BOOLEAN] /\ PipeInv
    BY DEF TypeInv, TypeOK
  <1>2. /\ fd' = [fd EXCEPT ![p] = Absent] /\ met' = [met EXCEPT ![p] = FALSE] /\ off' = off
        /\ data' = IF fd[p] # Absent /\ fifo[fd[p]] /\ fd[Other(p)] # fd[p]
                   THEN [data EXCEPT ![fd[p]] = <<>>] ELSE data
    BY DEF Close, Paired
  <1>3. Other(p) \in Procs /\ Other(p) # p /\ \A q \in Procs : q = p \/ q = Other(p)
    BY Others
  <1>4. <<>> \in Seq(Part)
    BY EmptySeq
  <1>5. /\ data' \in [Inodes -> Seq(Part)] /\ fd' \in [Procs -> Inodes \union {Absent}]
        /\ fd'[p] = Absent
        /\ \A q \in Procs : q # p => fd'[q] = fd[q] /\ met'[q] = met[q]
        /\ \A i \in Inodes : ~fifo[i] => data'[i] = data[i]
        /\ \A i \in Inodes : fd[p] # i \/ fd[Other(p)] = i => data'[i] = data[i]
    BY <1>1, <1>2, <1>3, <1>4
  <1>6. off' \in [Procs -> 0 .. 2] /\ met' \in [Procs -> BOOLEAN]
    BY <1>1, <1>2
  <1>7. ASSUME fifo' = fifo PROVE PipeInv'
    <2> SUFFICES ASSUME NEW i \in Inodes, fifo[i], data'[i] # <<>>
                 PROVE  \E q \in Procs : fd'[q] = i
      BY <1>7 DEF PipeInv
    <2>1. i # Absent
      BY DEF Inodes, Absent
    <2>2. data[i] # <<>> /\ (fd[p] # i \/ fd[Other(p)] = i)
      BY <1>1, <1>2, <2>1
    <2>3. \E q \in Procs : fd[q] = i
      BY <1>1, <2>2 DEF PipeInv
    <2>4. fd[Other(p)] = i
      BY <1>3, <2>2, <2>3
    <2> QED
      BY <1>3, <1>5, <2>4
  <1> QED
    BY <1>2, <1>5, <1>6, <1>7

(* Reading moves the pipe or the offset on by one part. *)
LEMMA ConsumeType ==
  ASSUME TypeInv, NEW p \in Procs, fd[p] # Absent, off[p] <= 1, HasData(p), Consume(p)
  PROVE  /\ data' \in [Inodes -> Seq(Part)] /\ off' \in [Procs -> 0 .. 2]
         /\ NextPart(p) \in Part
         /\ off'[p] \in {off[p], off[p] + 1}
         /\ \A q \in Procs : q # p => off'[q] = off[q]
         /\ \A i \in Inodes : ~fifo[i] \/ i # fd[p] => data'[i] = data[i]
         /\ ~fifo[fd[p]] => off'[p] <= Len(data[fd[p]])
  <1>1. /\ fifo \in [Inodes -> BOOLEAN]
        /\ data \in [Inodes -> Seq(Part)] /\ fd[p] \in Inodes
        /\ off \in [Procs -> 0 .. 2]
    BY DEF TypeInv, TypeOK
  <1> DEFINE d == data[fd[p]]
  <1>2. d \in Seq(Part)
    BY <1>1
  <1>3. CASE fifo[fd[p]]
    <2>1. /\ data' = [data EXCEPT ![fd[p]] = Tail(d)] /\ off' = off /\ d # <<>>
          /\ NextPart(p) = d[1]
      BY <1>1, <1>3 DEF Consume, HasData, NextPart
    <2> HIDE DEF d
    <2>2. Tail(d) \in Seq(Part) /\ d[1] \in Part
      BY <1>2, <2>1
    <2> QED
      BY <1>1, <1>3, <2>1, <2>2
  <1>4. CASE ~fifo[fd[p]]
    <2>1. /\ data' = data /\ off' = [off EXCEPT ![p] = off[p] + 1] /\ off[p] < Len(d)
          /\ NextPart(p) = d[off[p] + 1] /\ off[p] \in 0 .. 2
      BY <1>1, <1>4 DEF Consume, HasData, NextPart
    <2>2. off[p] + 1 \in 0 .. 2 /\ off[p] + 1 \in 1 .. Len(d)
      BY <1>2, <2>1
    <2>3. d[off[p] + 1] \in Part
      BY <1>2, <2>2
    <2> HIDE DEF d
    <2>4. off'[p] = off[p] + 1 /\ off' \in [Procs -> 0 .. 2]
      BY <1>1, <2>1, <2>2
    <2>5. \A q \in Procs : q # p => off'[q] = off[q]
      BY <1>1, <2>1
    <2>6. off'[p] <= Len(d)
      BY <2>2, <2>4
    <2> QED
      BY <1>1, <1>4, <2>1, <2>3, <2>4, <2>5, <2>6 DEF d
  <1> QED
    BY <1>3, <1>4

(* Writing adds a part to the pipe, or puts it at the offset. *)
LEMMA WriteType ==
  ASSUME TypeInv, NEW p \in Procs, NEW part \in Part, fd[p] # Absent, off[p] <= 1, Write(p, part)
  PROVE  /\ data' \in [Inodes -> Seq(Part)] /\ off' \in [Procs -> 0 .. 2]
         /\ off'[p] \in {off[p], off[p] + 1}
         /\ \A q \in Procs : q # p => off'[q] = off[q]
         /\ \A i \in Inodes : Len(data'[i]) >= Len(data[i])
         /\ \A i \in Inodes : i # fd[p] => data'[i] = data[i]
         /\ ~fifo[fd[p]] => off'[p] <= Len(data'[fd[p]])
         /\ fifo' = fifo /\ fd' = fd => PipeInv'
  <1>1. /\ fifo \in [Inodes -> BOOLEAN]
        /\ data \in [Inodes -> Seq(Part)] /\ fd[p] \in Inodes
        /\ off \in [Procs -> 0 .. 2] /\ PipeInv
    BY DEF TypeInv, TypeOK
  <1> DEFINE d == data[fd[p]]
  <1>2. d \in Seq(Part) /\ \A i \in Inodes : Len(data[i]) \in Nat
    BY <1>1
  <1>3. CASE fifo[fd[p]]
    <2>1. /\ data' = data \/ data' = [data EXCEPT ![fd[p]] = Append(d, part)]
          /\ off' = off
      BY <1>1, <1>3 DEF Write
    <2> HIDE DEF d
    <2>2. Append(d, part) \in Seq(Part) /\ Len(Append(d, part)) = Len(d) + 1 /\ Len(d) \in Nat
      BY <1>2
    <2>3. /\ data' \in [Inodes -> Seq(Part)]
          /\ \A i \in Inodes : i # fd[p] => data'[i] = data[i]
      BY <1>1, <2>1, <2>2
    <2>4. data'[fd[p]] = d \/ data'[fd[p]] = Append(d, part)
      BY <1>1, <2>1 DEF d
    <2>5. Len(data'[fd[p]]) >= Len(d)
      BY <2>2, <2>4
    <2>6. \A i \in Inodes : Len(data'[i]) >= Len(data[i])
      <3> TAKE i \in Inodes
      <3>1. CASE i = fd[p]
        BY <2>5, <3>1 DEF d
      <3>2. CASE i # fd[p]
        <4>1. data'[i] = data[i]
          BY <2>3, <3>2
        <4> QED
          BY <1>2, <4>1
      <3> QED
        BY <3>1, <3>2
    <2>7. ASSUME fifo' = fifo, fd' = fd PROVE PipeInv'
      BY <1>1, <2>3, <2>7 DEF PipeInv
    <2> QED
      BY <1>1, <1>3, <2>1, <2>3, <2>6, <2>7
  <1>4. CASE ~fifo[fd[p]]
    <2> DEFINE k == off[p] + 1
               m == IF k > Len(d) THEN k ELSE Len(d)
               e == [j \in 1 .. m |-> IF j = k THEN part ELSE d[j]]
    <2>1. data' = [data EXCEPT ![fd[p]] = e] /\ off' = [off EXCEPT ![p] = k]
      BY <1>1, <1>4 DEF Write
    <2>2. k \in 1 .. 2 /\ k - 1 <= Len(d) /\ Len(d) \in Nat
      BY <1>1, <1>2, <1>4 DEF TypeInv, OffInv
    <2>3. m \in Nat /\ m >= Len(d) /\ m >= k
      BY <2>2
    <2>4. \A j \in 1 .. m : j # k => j \in 1 .. Len(d)
      <3> HIDE DEF d, k
      <3> QED
        BY <2>2
    <2>5. DOMAIN d = 1 .. Len(d) /\ \A j \in 1 .. Len(d) : d[j] \in Part
      BY <1>2
    <2>6. e \in Seq(Part) /\ Len(e) = m
      <3> HIDE DEF m, k, d
      <3>1. e \in [1 .. m -> Part]
        BY <2>4, <2>5
      <3> QED
        BY <2>3, <3>1
    <2> HIDE DEF e, m, d
    <2>7. /\ data' \in [Inodes -> Seq(Part)] /\ data'[fd[p]] = e
          /\ \A i \in Inodes : i # fd[p] => data'[i] = data[i]
      BY <1>1, <2>1, <2>6
    <2>8. off' \in [Procs -> 0 .. 2] /\ off'[p] = k /\ \A q \in Procs : q # p => off'[q] = off[q]
      BY <1>1, <2>1, <2>2
    <2>9. \A i \in Inodes : Len(data'[i]) >= Len(data[i])
      BY <1>2, <2>3, <2>6, <2>7 DEF d
    <2>10. off'[p] <= Len(data'[fd[p]])
      BY <2>2, <2>3, <2>6, <2>7, <2>8
    <2>11. ASSUME fifo' = fifo, fd' = fd PROVE PipeInv'
      BY <1>1, <1>4, <2>7, <2>11 DEF PipeInv
    <2> QED
      BY <2>7, <2>8, <2>9, <2>10, <2>11
  <1> QED
    BY <1>3, <1>4

(* The part of the type invariant about files, and how the steps of a        *)
(* process keep it.                                                          *)
FilesInv ==
    /\ path \in [Names -> Inodes \union {Absent}]
    /\ fifo \in [Inodes -> BOOLEAN]
    /\ data \in [Inodes -> Seq(Part)]
    /\ fd \in [Procs -> Inodes \union {Absent}]
    /\ off \in [Procs -> 0 .. 2] /\ met \in [Procs -> BOOLEAN]
    /\ pc \in [Procs -> Labels]
    /\ OpenInv /\ OffInv /\ PipeInv

(* A process goes from "ready" or "wait" into an open. *)
LEMMA OpenStep ==
  ASSUME TypeInv, NEW p \in Procs, NEW n \in Names, NEW l \in {"openIN", "openOUT"},
         pc[p] \in {"ready", "wait"}, Open(p, n), Goto(p, l)
  PROVE  FilesInv'
  <1>1. fd[p] = Absent
    BY DEF TypeInv, OpenInv, OnIn, OnOut
  <1>2. /\ path' \in [Names -> Inodes \union {Absent}] /\ fifo' \in [Inodes -> BOOLEAN]
        /\ data' \in [Inodes -> Seq(Part)] /\ fd' \in [Procs -> Inodes \union {Absent}]
        /\ off' \in [Procs -> 0 .. 2] /\ met' \in [Procs -> BOOLEAN]
        /\ fd'[p] = path'[n] /\ path'[n] \in Inodes /\ path'[n] # Absent /\ off'[p] = 0
        /\ \A q \in Procs : q # p => fd'[q] = fd[q] /\ off'[q] = off[q]
        /\ \A q \in Procs : fd[q] # Absent => /\ fifo'[fd[q]] = fifo[fd[q]]
                                              /\ data'[fd[q]] = data[fd[q]]
        /\ PipeInv'
    BY <1>1, OpenType
  <1>3. /\ pc \in [Procs -> Labels] /\ pc' = [pc EXCEPT ![p] = l] /\ l \in Labels
    BY DEF Goto, TypeInv, TypeOK, Labels
  <1>4. pc' \in [Procs -> Labels] /\ pc'[p] = l /\ \A q \in Procs : q # p => pc'[q] = pc[q]
    BY <1>3
  <1>5. OpenInv'
    BY <1>2, <1>4 DEF TypeInv, OpenInv, OnIn, OnOut
  <1>6. OffInv'
    <2> SUFFICES ASSUME NEW q \in Procs
                 PROVE  /\ pc'[q] \in {"openIN", "mode", "openOUT", "value"} => off'[q] = 0
                        /\ pc'[q] \in {"rest", "answer"} => off'[q] <= 1
                        /\ fd'[q] # Absent /\ ~fifo'[fd'[q]] => off'[q] <= Len(data'[fd'[q]])
      BY DEF OffInv
    <2>1. CASE q = p
      <3>1. Len(data'[fd'[p]]) \in Nat
        BY <1>2
      <3> QED
        BY <1>2, <1>4, <2>1, <3>1
    <2>2. CASE q # p
      BY <1>2, <1>4, <2>2 DEF TypeInv, OffInv
    <2> QED
      BY <2>1, <2>2
  <1> QED
    BY <1>2, <1>4, <1>5, <1>6 DEF FilesInv

(* A process closes what it has open, or is killed. *)
LEMMA CloseStep ==
  ASSUME TypeInv, NEW p \in Procs, NEW l \in {"down", "wait", "solve", "ready"},
         Close(p), Goto(p, l), path' = path, fifo' = fifo
  PROVE  FilesInv'
  <1>1. /\ data' \in [Inodes -> Seq(Part)] /\ fd' \in [Procs -> Inodes \union {Absent}]
        /\ off' \in [Procs -> 0 .. 2] /\ met' \in [Procs -> BOOLEAN]
        /\ fd'[p] = Absent /\ off' = off
        /\ \A q \in Procs : q # p => fd'[q] = fd[q] /\ met'[q] = met[q]
        /\ \A i \in Inodes : ~fifo[i] => data'[i] = data[i]
        /\ PipeInv'
    BY CloseType
  <1>2. /\ pc \in [Procs -> Labels] /\ pc' = [pc EXCEPT ![p] = l] /\ l \in Labels
    BY DEF Goto, TypeInv, TypeOK, Labels
  <1>3. pc' \in [Procs -> Labels] /\ pc'[p] = l /\ \A q \in Procs : q # p => pc'[q] = pc[q]
    BY <1>2
  <1>4. OpenInv'
    BY <1>1, <1>3 DEF TypeInv, OpenInv, OnIn, OnOut
  <1>5. fd \in [Procs -> Inodes \union {Absent}]
    BY DEF TypeInv, TypeOK
  <1>6. OffInv'
    BY <1>1, <1>3, <1>5 DEF TypeInv, OffInv
  <1> QED
    BY <1>1, <1>3, <1>4, <1>6 DEF FilesInv, TypeInv, TypeOK

(* From a label to the next within a message. *)
Along(a, b) ==
    \/ a \in {"mode", "value"} /\ b \in {"rest", "answer", "closeOUT"}
    \/ a \in {"rest", "answer"} /\ b \in {"closeIN", "closeOUT"}

(* A process reads a part, finds the end, or writes a part. *)
LEMMA AlongStep ==
  ASSUME TypeInv, NEW p \in Procs, NEW l, Along(pc[p], l), Goto(p, l),
         path' = path, fifo' = fifo, fd' = fd, met' = met,
         \/ HasData(p) /\ Consume(p)
         \/ UNCHANGED <<data, off>>
         \/ \E part \in Part : Write(p, part)
  PROVE  FilesInv'
  <1>1. fd[p] # Absent /\ off[p] <= 1
    BY DEF TypeInv, TypeOK, OpenInv, OffInv, Along, OnIn, OnOut
  <1>2. /\ pc \in [Procs -> Labels] /\ pc' = [pc EXCEPT ![p] = l] /\ l \in Labels
        /\ fd \in [Procs -> Inodes \union {Absent}] /\ data \in [Inodes -> Seq(Part)]
        /\ off \in [Procs -> 0 .. 2] /\ OpenInv /\ OffInv /\ PipeInv
    BY DEF Goto, TypeInv, TypeOK, Labels, Along
  <1>3. pc' \in [Procs -> Labels] /\ pc'[p] = l /\ \A q \in Procs : q # p => pc'[q] = pc[q]
    BY <1>2
  <1>4. OpenInv'
    BY <1>2, <1>3 DEF OpenInv, OnIn, OnOut, Along
  <1>5. /\ data' \in [Inodes -> Seq(Part)] /\ off' \in [Procs -> 0 .. 2] /\ PipeInv'
        /\ off'[p] \in {off[p], off[p] + 1}
        /\ \A q \in Procs : q # p => off'[q] = off[q]
        /\ \A i \in Inodes : ~fifo[i] => Len(data'[i]) >= Len(data[i])
        /\ ~fifo[fd[p]] => off'[p] <= Len(data'[fd[p]])
    <2>0. \A i \in Inodes : Len(data[i]) \in Nat
      BY <1>2
    <2>1. CASE HasData(p) /\ Consume(p)
      <3>1. /\ data' \in [Inodes -> Seq(Part)] /\ off' \in [Procs -> 0 .. 2]
            /\ off'[p] \in {off[p], off[p] + 1}
            /\ \A q \in Procs : q # p => off'[q] = off[q]
            /\ \A i \in Inodes : ~fifo[i] \/ i # fd[p] => data'[i] = data[i]
            /\ ~fifo[fd[p]] => off'[p] <= Len(data[fd[p]])
        BY <1>1, <2>1, ConsumeType
      <3>2. PipeInv'
        BY <1>2, <3>1 DEF PipeInv
      <3>3. \A i \in Inodes : ~fifo[i] => Len(data'[i]) >= Len(data[i])
        BY <2>0, <3>1
      <3>4. fd[p] \in Inodes
        BY <1>1, <1>2
      <3>5. ~fifo[fd[p]] => off'[p] <= Len(data'[fd[p]])
        BY <3>1, <3>4
      <3> QED
        BY <3>1, <3>2, <3>3, <3>5
    <2>2. CASE UNCHANGED <<data, off>>
      <3>1. data' = data /\ off' = off
        BY <2>2
      <3>2. PipeInv'
        BY <1>2, <3>1 DEF PipeInv
      <3>3. \A i \in Inodes : Len(data'[i]) >= Len(data[i])
        BY <2>0, <3>1
      <3> QED
        BY <1>1, <1>2, <3>1, <3>2, <3>3 DEF OffInv
    <2>3. CASE \E part \in Part : Write(p, part)
      <3>1. PICK part \in Part : Write(p, part)
        BY <2>3
      <3> QED
        BY <1>1, <3>1, WriteType
    <2> QED
      BY <2>1, <2>2, <2>3
  <1>6. OffInv'
    <2> SUFFICES ASSUME NEW q \in Procs
                 PROVE  /\ pc'[q] \in {"openIN", "mode", "openOUT", "value"} => off'[q] = 0
                        /\ pc'[q] \in {"rest", "answer"} => off'[q] <= 1
                        /\ fd[q] # Absent /\ ~fifo[fd[q]] => off'[q] <= Len(data'[fd[q]])
      BY DEF OffInv
    <2>1. CASE q = p
      <3>1. pc[p] \in {"mode", "value"} => off[p] = 0
        BY <1>2 DEF OffInv
      <3>2. off'[p] \in 0 .. 2 /\ l \notin {"openIN", "mode", "openOUT", "value"}
        BY <1>5 DEF Along
      <3>3. l \in {"rest", "answer"} => pc[p] \in {"mode", "value"}
        BY DEF Along
      <3>4. l \in {"rest", "answer"} => off'[p] <= 1
        BY <1>5, <3>1, <3>3
      <3> QED
        BY <1>3, <1>5, <2>1, <3>2, <3>4
    <2>2. CASE q # p
      <3>1. /\ pc[q] \in {"openIN", "mode", "openOUT", "value"} => off[q] = 0
            /\ pc[q] \in {"rest", "answer"} => off[q] <= 1
            /\ fd[q] # Absent /\ ~fifo[fd[q]] => off[q] <= Len(data[fd[q]])
            /\ off'[q] = off[q] /\ pc'[q] = pc[q]
        BY <1>2, <1>3, <1>5, <2>2 DEF OffInv
      <3>2. ASSUME fd[q] # Absent, ~fifo[fd[q]] PROVE off[q] <= Len(data'[fd[q]])
        <4>1. /\ fd[q] \in Inodes
              /\ off[q] \in 0 .. 2 /\ Len(data[fd[q]]) \in Nat /\ Len(data'[fd[q]]) \in Nat
          BY <1>2, <1>5, <3>2
        <4> QED
          BY <1>5, <3>1, <3>2, <4>1
      <3> QED
        BY <3>1, <3>2
    <2> QED
      BY <2>1, <2>2
  <1> QED
    BY <1>3, <1>4, <1>5, <1>6 DEF FilesInv, TypeInv, TypeOK

(* A process makes its pipe, or removes what is in the way. *)
LEMMA MakeStep ==
  ASSUME TypeInv, NEW p \in Procs, NEW n \in Names, NEW l \in {"remake", "ready"},
         pc[p] \in {"down", "remake"}, Goto(p, l), UNCHANGED fdvars,
         \/ Create(n, TRUE)
         \/ path' = [path EXCEPT ![n] = Absent] /\ UNCHANGED <<fifo, data>>
         \/ UNCHANGED fsvars
  PROVE  FilesInv'
  <1>1. /\ fd' = fd /\ off' = off /\ met' = met
    BY DEF fdvars
  <1>2. /\ pc \in [Procs -> Labels] /\ pc' = [pc EXCEPT ![p] = l] /\ l \in Labels
        /\ path \in [Names -> Inodes \union {Absent}] /\ fifo \in [Inodes -> BOOLEAN]
        /\ fd \in [Procs -> Inodes \union {Absent}] /\ data \in [Inodes -> Seq(Part)]
        /\ off \in [Procs -> 0 .. 2] /\ OpenInv /\ OffInv /\ PipeInv
    BY DEF Goto, TypeInv, TypeOK, Labels
  <1>3. pc' \in [Procs -> Labels] /\ pc'[p] = l /\ \A q \in Procs : q # p => pc'[q] = pc[q]
    BY <1>2
  <1>4. OpenInv'
    BY <1>1, <1>2, <1>3 DEF OpenInv, OnIn, OnOut
  <1>5. /\ path' \in [Names -> Inodes \union {Absent}] /\ fifo' \in [Inodes -> BOOLEAN]
        /\ data' \in [Inodes -> Seq(Part)]
        /\ \A q \in Procs : fd[q] # Absent => /\ fifo'[fd[q]] = fifo[fd[q]]
                                              /\ data'[fd[q]] = data[fd[q]]
        /\ \A i \in Inodes : fifo'[i] /\ data'[i] # <<>> => fifo[i] /\ data[i] # <<>>
    <2>1. CASE Create(n, TRUE)
      <3>1. TRUE \in BOOLEAN
        OBVIOUS
      <3>2. /\ path' \in [Names -> Inodes \union {Absent}] /\ fifo' \in [Inodes -> BOOLEAN]
            /\ data' \in [Inodes -> Seq(Part)]
            /\ path'[n] \in Inodes /\ path'[n] # Absent /\ data'[path'[n]] = <<>>
            /\ \A q \in Procs : fd[q] # path'[n]
            /\ \A i \in Inodes : i # path'[n] => fifo'[i] = fifo[i] /\ data'[i] = data[i]
        BY <2>1, <3>1, CreateType
      <3>3. \A q \in Procs : fd[q] # Absent => fd[q] \in Inodes
        BY <1>2
      <3> QED
        BY <3>2, <3>3
    <2>2. CASE path' = [path EXCEPT ![n] = Absent] /\ UNCHANGED <<fifo, data>>
      BY <1>2, <2>2
    <2>3. CASE UNCHANGED fsvars
      BY <1>2, <2>3 DEF fsvars
    <2> QED
      BY <2>1, <2>2, <2>3
  <1>6. OffInv'
    <2> SUFFICES ASSUME NEW q \in Procs
                 PROVE  /\ pc'[q] \in {"openIN", "mode", "openOUT", "value"} => off[q] = 0
                        /\ pc'[q] \in {"rest", "answer"} => off[q] <= 1
                        /\ fd[q] # Absent /\ ~fifo'[fd[q]] => off[q] <= Len(data'[fd[q]])
      BY <1>1 DEF OffInv
    <2> QED
      BY <1>2, <1>3, <1>5 DEF OffInv
  <1>7. PipeInv'
    BY <1>1, <1>2, <1>5 DEF PipeInv
  <1> QED
    BY <1>1, <1>2, <1>3, <1>4, <1>5, <1>6, <1>7 DEF FilesInv, TypeInv, TypeOK

(* Nothing but the label changes, and the label keeps the file open or not. *)
LEMMA LabelStep ==
  ASSUME TypeInv, NEW p \in Procs, NEW l \in Labels, Goto(p, l),
         \/ pc[p] = "openIN" /\ l = "mode"
         \/ pc[p] = "openOUT" /\ l = "value"
         \/ pc[p] = "solve" /\ l \in {"wait", "ready"},
         UNCHANGED fsvars, UNCHANGED fdvars
  PROVE  FilesInv'
  <1>1. /\ fd' = fd /\ off' = off /\ met' = met /\ path' = path /\ fifo' = fifo /\ data' = data
    BY DEF fdvars, fsvars
  <1>2. /\ pc \in [Procs -> Labels] /\ pc' = [pc EXCEPT ![p] = l]
    BY DEF Goto, TypeInv, TypeOK, Labels
  <1>3. pc' \in [Procs -> Labels] /\ pc'[p] = l /\ \A q \in Procs : q # p => pc'[q] = pc[q]
    BY <1>2
  <1>4. OpenInv' /\ PipeInv'
    BY <1>1, <1>3 DEF TypeInv, OpenInv, PipeInv, OnIn, OnOut
  <1>5. OffInv'
    BY <1>1, <1>3 DEF TypeInv, OffInv
  <1> QED
    BY <1>1, <1>3, <1>4, <1>5 DEF FilesInv, TypeInv, TypeOK

(* The rest of the type invariant. *)
RestOK ==
    /\ req \in 0 .. MaxReq /\ answer \in Int /\ used \in Int
    /\ job \in Int /\ good \in BOOLEAN
    /\ crashes \in 0 .. MaxCrash /\ killed \subseteq Procs
    /\ threw \in BOOLEAN /\ eof \in BOOLEAN /\ early \in BOOLEAN

(* The two parts are the whole. *)
LEMMA TypeSplit ==
  TypeInv <=> FilesInv /\ RestOK
  BY DEF TypeInv, TypeOK, FilesInv, RestOK

(* Files and pipes: one lemma above per kind of step. *)
LEMMA FilesStep ==
  ASSUME TypeInv, [Next]_vars
  PROVE  FilesInv'
  <1>0. FilesInv /\ RestOK
    BY TypeSplit
  <1>1. ASSUME NEW p \in Procs, Start(p) PROVE FilesInv'
    <2>1. Own(p) \in Names /\ pc[p] = "down" /\ UNCHANGED fdvars
      BY <1>1, Others DEF Start
    <2>2. CASE path[Own(p)] = Absent
      <3>1. Create(Own(p), TRUE) /\ Goto(p, "ready")
        BY <1>1, <2>2 DEF Start
      <3> QED
        BY <2>1, <3>1, MakeStep
    <2>3. CASE path[Own(p)] # Absent
      <3>1. path' = [path EXCEPT ![Own(p)] = Absent] /\ UNCHANGED <<fifo, data>> /\ Goto(p, "remake")
        BY <1>1, <2>3 DEF Start
      <3> QED
        BY <2>1, <3>1, MakeStep
    <2> QED
      BY <2>2, <2>3
  <1>2. ASSUME NEW p \in Procs, Remake(p) PROVE FilesInv'
    <2>1. /\ Own(p) \in Names /\ pc[p] = "remake" /\ UNCHANGED fdvars /\ Goto(p, "ready")
          /\ Create(Own(p), TRUE) \/ UNCHANGED fsvars
      BY <1>2, Others DEF Remake
    <2> QED
      BY <2>1, MakeStep
  <1>3. ASSUME NEW p \in Procs, Crash(p) PROVE FilesInv'
    <2>1. Close(p) /\ Goto(p, "down") /\ path' = path /\ fifo' = fifo
      BY <1>3 DEF Crash
    <2> QED
      BY <2>1, CloseStep
  <1>4. ASSUME CtlRequest PROVE FilesInv'
    <2>1. /\ "ctl" \in Procs /\ "IN" \in Names /\ pc["ctl"] \in {"ready", "wait"}
          /\ Open("ctl", "IN") /\ Goto("ctl", "openIN") /\ "openIN" \in {"openIN", "openOUT"}
      BY <1>4, Others DEF CtlRequest
    <2> QED
      BY <2>1, OpenStep
  <1>5. ASSUME NEW p \in Procs, Opened(p) PROVE FilesInv'
    <2>1. /\ UNCHANGED fsvars /\ UNCHANGED fdvars /\ "mode" \in Labels /\ "value" \in Labels
          /\ \/ pc[p] = "openIN" /\ Goto(p, "mode")
             \/ pc[p] = "openOUT" /\ Goto(p, "value")
      BY <1>5 DEF Opened, Labels
    <2> QED
      BY <2>1, LabelStep
  <1>6. ASSUME CtlWrite PROVE FilesInv'
    <2>1. /\ "ctl" \in Procs /\ path' = path /\ fifo' = fifo /\ fd' = fd /\ met' = met
          /\ Write("ctl", [id |-> req, ok |-> TRUE])
          /\ [id |-> req, ok |-> TRUE] \in Part
      BY <1>0, <1>6, Others DEF CtlWrite, Part, RestOK
    <2>2. \/ pc["ctl"] = "mode" /\ Goto("ctl", "rest")
          \/ pc["ctl"] = "rest" /\ Goto("ctl", "closeIN")
      BY <1>6 DEF CtlWrite
    <2>3. \E part \in Part : Write("ctl", part)
      BY <2>1
    <2>4. CASE pc["ctl"] = "mode" /\ Goto("ctl", "rest")
      <3>1. Along(pc["ctl"], "rest")
        BY <2>4 DEF Along
      <3> QED
        BY <2>1, <2>3, <2>4, <3>1, AlongStep
    <2>5. CASE pc["ctl"] = "rest" /\ Goto("ctl", "closeIN")
      <3>1. Along(pc["ctl"], "closeIN")
        BY <2>5 DEF Along
      <3> QED
        BY <2>1, <2>3, <2>5, <3>1, AlongStep
    <2> QED
      BY <2>2, <2>4, <2>5
  <1>7. ASSUME CtlCloseIn \/ CtlCloseOut PROVE FilesInv'
    <2>1. /\ "ctl" \in Procs /\ Close("ctl") /\ path' = path /\ fifo' = fifo
          /\ Goto("ctl", "wait") \/ Goto("ctl", "ready")
      BY <1>7, Others DEF CtlCloseIn, CtlCloseOut
    <2> QED
      BY <2>1, CloseStep
  <1>8. ASSUME CtlOpenOut PROVE FilesInv'
    <2>1. /\ "ctl" \in Procs /\ "OUT" \in Names /\ pc["ctl"] \in {"ready", "wait"}
          /\ Open("ctl", "OUT") /\ Goto("ctl", "openOUT") /\ "openOUT" \in {"openIN", "openOUT"}
      BY <1>8, Others DEF CtlOpenOut
    <2> QED
      BY <2>1, OpenStep
  <1>9. ASSUME CtlReadValue PROVE FilesInv'
    <2>1. /\ "ctl" \in Procs /\ path' = path /\ fifo' = fifo /\ fd' = fd /\ met' = met
          /\ (HasData("ctl") /\ Consume("ctl")) \/ UNCHANGED <<data, off>>
      BY <1>9, Others DEF CtlReadValue
    <2>2. PICK l \in {"answer", "closeOUT"} : Goto("ctl", l)
      BY <1>9 DEF CtlReadValue
    <2>3. Along(pc["ctl"], l)
      BY <1>9, <2>2 DEF CtlReadValue, Along
    <2> QED
      BY <2>1, <2>2, <2>3, AlongStep
  <1>10. ASSUME CtlReadAnswer PROVE FilesInv'
    <2>1. /\ "ctl" \in Procs /\ path' = path /\ fifo' = fifo /\ fd' = fd /\ met' = met
          /\ (HasData("ctl") /\ Consume("ctl")) \/ UNCHANGED <<data, off>>
          /\ Goto("ctl", "closeOUT")
      BY <1>10, Others DEF CtlReadAnswer
    <2>2. Along(pc["ctl"], "closeOUT")
      BY <1>10 DEF CtlReadAnswer, Along
    <2> QED
      BY <2>1, <2>2, AlongStep
  <1>11. ASSUME SlvOpenIn PROVE FilesInv'
    <2>1. /\ "slv" \in Procs /\ "IN" \in Names /\ pc["slv"] \in {"ready", "wait"}
          /\ Open("slv", "IN") /\ Goto("slv", "openIN") /\ "openIN" \in {"openIN", "openOUT"}
      BY <1>11, Others DEF SlvOpenIn
    <2> QED
      BY <2>1, OpenStep
  <1>12. ASSUME SlvRead PROVE FilesInv'
    <2>1. /\ "slv" \in Procs /\ path' = path /\ fifo' = fifo /\ fd' = fd /\ met' = met
          /\ (HasData("slv") /\ Consume("slv")) \/ UNCHANGED <<data, off>>
      BY <1>12, Others DEF SlvRead
    <2>2. PICK l \in {"rest", "closeIN"} : /\ Goto("slv", l)
                                           /\ l = IF pc["slv"] = "mode" THEN "rest" ELSE "closeIN"
      BY <1>12 DEF SlvRead
    <2>3. Along(pc["slv"], l)
      BY <1>12, <2>2 DEF SlvRead, Along
    <2> QED
      BY <2>1, <2>2, <2>3, AlongStep
  <1>13. ASSUME SlvCloseIn \/ SlvBroken \/ SlvCloseOut PROVE FilesInv'
    <2>1. /\ "slv" \in Procs /\ Close("slv") /\ path' = path /\ fifo' = fifo
          /\ Goto("slv", "solve") \/ Goto("slv", "down") \/ Goto("slv", "ready")
      BY <1>13, Others DEF SlvCloseIn, SlvBroken, SlvCloseOut
    <2> QED
      BY <2>1, CloseStep
  <1>14. ASSUME SlvSolve PROVE FilesInv'
    <2>1. /\ "slv" \in Procs /\ UNCHANGED fsvars /\ UNCHANGED fdvars /\ pc["slv"] = "solve"
          /\ "wait" \in Labels /\ "ready" \in Labels
          /\ Goto("slv", "wait") \/ Goto("slv", "ready")
      BY <1>14, Others DEF SlvSolve, Labels
    <2> QED
      BY <2>1, LabelStep
  <1>15. ASSUME SlvOpenOut PROVE FilesInv'
    <2>1. /\ "slv" \in Procs /\ "OUT" \in Names /\ pc["slv"] \in {"ready", "wait"}
          /\ Open("slv", "OUT") /\ Goto("slv", "openOUT") /\ "openOUT" \in {"openIN", "openOUT"}
      BY <1>15, Others DEF SlvOpenOut
    <2> QED
      BY <2>1, OpenStep
  <1>16. ASSUME SlvWriteValue PROVE FilesInv'
    <2>1. /\ "slv" \in Procs /\ path' = path /\ fifo' = fifo /\ fd' = fd /\ met' = met
          /\ Write("slv", [id |-> job, ok |-> good])
          /\ [id |-> job, ok |-> good] \in Part
      BY <1>0, <1>16, Others DEF SlvWriteValue, Part, RestOK
    <2>2. PICK l \in {"answer", "closeOUT"} : Goto("slv", l)
      BY <1>16 DEF SlvWriteValue
    <2>3. Along(pc["slv"], l)
      BY <1>16, <2>2 DEF SlvWriteValue, Along
    <2>4. \E part \in Part : Write("slv", part)
      BY <2>1
    <2> QED
      BY <2>1, <2>2, <2>3, <2>4, AlongStep
  <1>17. ASSUME SlvWriteAnswer PROVE FilesInv'
    <2>1. /\ "slv" \in Procs /\ path' = path /\ fifo' = fifo /\ fd' = fd /\ met' = met
          /\ Write("slv", [id |-> job, ok |-> TRUE]) /\ Goto("slv", "closeOUT")
          /\ [id |-> job, ok |-> TRUE] \in Part
      BY <1>0, <1>17, Others DEF SlvWriteAnswer, Part, RestOK
    <2>2. Along(pc["slv"], "closeOUT")
      BY <1>17 DEF SlvWriteAnswer, Along
    <2>3. \E part \in Part : Write("slv", part)
      BY <2>1
    <2> QED
      BY <2>1, <2>2, <2>3, AlongStep
  <1>18. CASE UNCHANGED vars
    <2>1. UNCHANGED <<path, fifo, data, fd, off, met, pc>>
      BY <1>18 DEF vars, fsvars, fdvars
    <2> QED
      BY <1>0, <2>1 DEF FilesInv, OpenInv, OffInv, PipeInv
  <1>19. "ctl" \in Procs /\ "slv" \in Procs
    BY Others
  <1> QED
    BY <1>1, <1>2, <1>3, <1>4, <1>5, <1>6, <1>7, <1>8, <1>9, <1>10, <1>11, <1>12, <1>13,
       <1>14, <1>15, <1>16, <1>17, <1>18, <1>19 DEF Next, Controller, Solver

(* The counters and histories. *)
LEMMA RestStep ==
  ASSUME TypeInv, [Next]_vars
  PROVE  RestOK'
  <1>0. FilesInv /\ RestOK /\ TypeInv
    BY TypeSplit
  <1> USE BoundsAssumption DEF RestOK, cvars, svars, hvars, vars
  <1>1. ASSUME NEW p \in Procs, Start(p) \/ Remake(p) \/ Opened(p) PROVE RestOK'
    BY <1>0, <1>1 DEF Start, Remake, Opened
  <1>2. ASSUME NEW p \in Procs, Crash(p) PROVE RestOK'
    BY <1>0, <1>2 DEF Crash
  <1>3. ASSUME CtlRequest PROVE RestOK'
    <2>1. (early \/ pc["slv"] \in {"down", "remake"}) \in BOOLEAN
      BY Zenon
    <2>2. early' \in BOOLEAN
      BY <1>3, <2>1, Zenon DEF CtlRequest
    <2> QED
      BY <1>0, <1>3, <2>2 DEF CtlRequest, None
  <1>4. ASSUME CtlWrite \/ CtlCloseIn \/ CtlOpenOut PROVE RestOK'
    BY <1>0, <1>4 DEF CtlWrite, CtlCloseIn, CtlOpenOut
  <1>5. ASSUME NEW p \in Procs, HasData(p), pc[p] \in {"mode", "rest", "value", "answer"}, Consume(p)
        PROVE  NextPart(p).id \in Int
    <2>1. fd[p] # Absent /\ off[p] <= 1
      BY <1>0, <1>5 DEF TypeInv, TypeOK, OpenInv, OffInv, OnIn, OnOut
    <2>2. NextPart(p) \in Part
      BY <1>0, <1>5, <2>1, ConsumeType
    <2> QED
      BY <2>2 DEF Part
  <1>6. ASSUME CtlReadValue PROVE RestOK'
    <2>1. answer' \in Int
      <3>1. CASE HasData("ctl") /\ answer' = NextPart("ctl").id /\ Consume("ctl")
        BY <1>5, <1>6, <3>1, Others DEF CtlReadValue
      <3>2. CASE answer' = Bad
        BY <3>2 DEF Bad
      <3> QED
        BY <1>6, <3>1, <3>2 DEF CtlReadValue
    <2> QED
      BY <1>0, <1>6, <2>1 DEF CtlReadValue
  <1>7. ASSUME CtlReadAnswer PROVE RestOK'
    BY <1>0, <1>7 DEF CtlReadAnswer, Bad
  <1>8. ASSUME CtlCloseOut PROVE RestOK'
    BY <1>0, <1>8 DEF CtlCloseOut, Bad
  <1>9. ASSUME SlvRead PROVE RestOK'
    <2>1. job' \in Int
      <3>1. CASE HasData("slv") /\ job' \in {NextPart("slv").id, Bad} /\ Consume("slv")
        BY <1>5, <1>9, <3>1, Others DEF SlvRead, Bad
      <3>2. CASE job' = Bad
        BY <3>2 DEF Bad
      <3> QED
        BY <1>9, <3>1, <3>2 DEF SlvRead
    <2> QED
      BY <1>0, <1>9, <2>1 DEF SlvRead
  <1>10. ASSUME SlvSolve PROVE RestOK'
    BY <1>0, <1>10 DEF SlvSolve
  <1>11. ASSUME SlvOpenIn \/ SlvCloseIn \/ SlvOpenOut \/ SlvWriteValue PROVE RestOK'
    BY <1>0, <1>11 DEF SlvOpenIn, SlvCloseIn, SlvOpenOut, SlvWriteValue
  <1>12. ASSUME SlvWriteAnswer \/ SlvBroken \/ SlvCloseOut PROVE RestOK'
    BY <1>0, <1>12 DEF SlvWriteAnswer, SlvBroken, SlvCloseOut
  <1>13. CASE UNCHANGED vars
    BY <1>0, <1>13
  <1>14. "ctl" \in Procs /\ "slv" \in Procs
    BY Others
  <1> QED
    BY <1>1, <1>2, <1>3, <1>4, <1>6, <1>7, <1>8, <1>9, <1>10, <1>11, <1>12, <1>13, <1>14
    DEF Next, Controller, Solver

(* The directory an earlier run left has its type. *)
LEMMA TypeInit == Init => TypeInv
  <1> SUFFICES ASSUME Init PROVE TypeInv
    OBVIOUS
  <1>1. PICK left \in [Names -> {"none", "fifo", "file"}] :
          /\ path = [n \in Names |-> IF left[n] = "none" THEN Absent
                                     ELSE IF n = "IN" THEN 1 ELSE 2]
          /\ fifo = [i \in Inodes |-> \A n \in Names : path[n] = i => left[n] = "fifo"]
    BY DEF Init
  <1>2. path \in [Names -> Inodes \union {Absent}]
    BY <1>1 DEF Inodes
  <1>3. fifo \in [Inodes -> BOOLEAN]
    BY <1>1
  <1> DEFINE e == [id |-> Stale, ok |-> TRUE]
  <1>4. e \in Part
    BY DEF Part, Stale
  <1>5. <<e, e>> \in Seq(Part) /\ <<>> \in Seq(Part)
    <2> HIDE DEF e
    <2> QED
      BY <1>4
  <1>6. data = [i \in Inodes |-> IF fifo[i] THEN <<>> ELSE <<e, e>>]
    BY DEF Init
  <1> HIDE DEF e
  <1>7. data \in [Inodes -> Seq(Part)]
    BY <1>5, <1>6
  <1>8. /\ fd = [p \in Procs |-> Absent] /\ off = [p \in Procs |-> 0]
        /\ met = [p \in Procs |-> FALSE] /\ pc = [p \in Procs |-> "down"]
    BY DEF Init
  <1>9. FilesInv
    <2>1. /\ fd \in [Procs -> Inodes \union {Absent}] /\ off \in [Procs -> 0 .. 2]
          /\ met \in [Procs -> BOOLEAN] /\ pc \in [Procs -> Labels]
      BY <1>8 DEF Labels
    <2>2. OpenInv /\ OffInv
      BY <1>8 DEF OpenInv, OffInv, OnIn, OnOut
    <2>3. PipeInv
      BY <1>6 DEF PipeInv
    <2> QED
      BY <1>2, <1>3, <1>7, <2>1, <2>2, <2>3 DEF FilesInv
  <1>10. RestOK
    <2>1. 0 \in 0 .. MaxReq /\ 0 \in 0 .. MaxCrash
      BY BoundsAssumption
    <2>2. /\ req = 0 /\ answer = Bad /\ used = None /\ job = Bad /\ good = FALSE
          /\ crashes = 0 /\ killed = {} /\ threw = FALSE /\ eof = FALSE /\ early = FALSE
      BY DEF Init
    <2>3. /\ good \in BOOLEAN /\ threw \in BOOLEAN /\ eof \in BOOLEAN /\ early \in BOOLEAN
          /\ killed \subseteq Procs
      BY <2>2, Zenon
    <2>4. Bad \in Int /\ None \in Int
      BY DEF Bad, None
    <2> QED
      BY <2>1, <2>2, <2>3, <2>4, Zenon DEF RestOK
  <1> QED
    BY <1>9, <1>10, TypeSplit

(* Every step keeps the type invariant. *)
LEMMA TypeStep ==
  ASSUME TypeInv, [Next]_vars
  PROVE  TypeInv'
  <1>1. FilesInv' /\ RestOK'
    BY FilesStep, RestStep
  <1> QED
    BY <1>1 DEF TypeInv, TypeOK, FilesInv, RestOK

(* Every variable of SolverPipe keeps its type: an offset into a file stays  *)
(* within a message of two parts, and no file is used that is not open.      *)
THEOREM TypeCorrect == Spec => []TypeOK
  <1>1. TypeInv /\ [Next]_vars => TypeInv'
    BY TypeStep
  <1>2. TypeInv => TypeOK
    BY DEF TypeInv
  <1> QED
    BY TypeInit, <1>1, <1>2, PTL DEF Spec

-----------------------------------------------------------------------------
(* The answer applied is the answer to the request sent.  The invariant says *)
(* where the two processes can be at the same time, which inodes they have   *)
(* open there and what the pipes hold, as long as the controller was not     *)
(* started too early or killed and the solver has not read past the end of a *)
(* request.  The solver may be killed and started again at any time.         *)

Usable == ~early /\ ~eof /\ "ctl" \notin killed

Down    == {"down", "remake"}
Waiting == {"down", "remake", "ready", "openIN"}

(* The controller has sent the request, or is about to, and nobody is at the *)
(* other end of solver_OUT; somebody is, or was.                             *)
Asking  == \/ pc["ctl"] \in {"mode", "rest", "closeIN", "wait"}
           \/ pc["ctl"] = "openOUT" /\ ~met["ctl"]
Reading == \/ pc["ctl"] = "value"
           \/ pc["ctl"] = "openOUT" /\ met["ctl"]

(* The directory and the files open. *)
DirInv ==
    /\ pc["ctl"] = "remake" => path["OUT"] = Absent
    /\ pc["slv"] = "remake" => path["IN"] = Absent
    /\ pc["ctl"] \notin Down => path["OUT"] # Absent /\ fifo[path["OUT"]]
    /\ pc["slv"] \notin Down => path["IN"] # Absent /\ fifo[path["IN"]]
    /\ path["IN"] # Absent => path["IN"] # path["OUT"]
    /\ pc["ctl"] \in OnIn => fd["ctl"] # path["OUT"] /\ fifo[fd["ctl"]]
    /\ pc["ctl"] \in OnOut => fd["ctl"] = path["OUT"]
    /\ pc["slv"] \in OnIn => fd["slv"] = path["IN"]
    /\ pc["slv"] \in OnOut => fd["slv"] = path["OUT"]

(* Where the solver can be, given where the controller is. *)
PhaseInv ==
    /\ pc["ctl"] # "solve"
    /\ pc["ctl"] \in Down => pc["slv"] \in Waiting
    /\ pc["ctl"] = "ready" => pc["slv"] \in Waiting \union {"closeOUT"}
    /\ pc["ctl"] = "openIN" /\ ~met["ctl"] => pc["slv"] \in Waiting \union {"closeOUT"}
    /\ pc["ctl"] = "openIN" /\ met["ctl"] => pc["slv"] \in Waiting \union {"mode"}
    /\ Asking => pc["slv"] \in Waiting \union {"mode", "rest", "closeIN", "solve", "wait", "openOUT"}
    /\ Reading => pc["slv"] \in Waiting \union OnOut
    /\ pc["ctl"] = "answer" => pc["slv"] \in Waiting \union {"answer", "closeOUT"}
    /\ pc["ctl"] = "closeOUT" => pc["slv"] \in Waiting \union {"closeOUT"}

(* An open that may return has met the other process; an open that may not   *)
(* has found the pipe empty.                                                 *)
MetInv ==
    /\ pc["slv"] = "openIN" /\ met["slv"] => Asking \/ (pc["ctl"] = "openIN" /\ met["ctl"])
    /\ pc["slv"] = "openIN" /\ ~met["slv"] => fd["ctl"] # path["IN"] /\ data[path["IN"]] = <<>>
    /\ pc["slv"] = "openOUT" /\ met["slv"] => Reading
    /\ pc["ctl"] = "openOUT" /\ pc["slv"] \in OnOut => met["ctl"]
    /\ pc["ctl"] = "openIN" /\ path["IN"] # Absent /\ fifo[path["IN"]] => data[path["IN"]] = <<>>

(* All parts of a message belong to request r. *)
AllOf(m, r) == \A k \in DOMAIN m : m[k].id = r

(* What is in solver_IN, and what the solver works on, is this request. *)
AskedInv ==
    /\ path["IN"] # Absent /\ fifo[path["IN"]] => AllOf(data[path["IN"]], req)
    /\ pc["slv"] \in {"rest", "closeIN", "solve", "wait", "openOUT", "value", "answer"} => job = req

(* The contents solver_OUT can have: "no", the first part of a "yes", and    *)
(* a whole "yes".                                                            *)
No   == <<[id |-> req, ok |-> FALSE]>>
Yes1 == <<[id |-> req, ok |-> TRUE]>>
Yes2 == <<[id |-> req, ok |-> TRUE], [id |-> req, ok |-> TRUE]>>

(* Without a reader solver_OUT is empty; otherwise it holds what the solver  *)
(* has written and the controller has not read, cut short if the solver was  *)
(* killed.                                                                   *)
AnsweredInv ==
    pc["ctl"] \notin Down =>
        /\ ~Reading /\ pc["ctl"] # "answer" => data[path["OUT"]] = <<>>
        /\ Reading =>
              /\ pc["slv"] \in {"openOUT", "value"} => data[path["OUT"]] = <<>>
              /\ pc["slv"] = "answer" => data[path["OUT"]] = Yes1 /\ good
              /\ pc["slv"] = "closeOUT" /\ good => data[path["OUT"]] = Yes2
              /\ pc["slv"] = "closeOUT" /\ ~good => data[path["OUT"]] = No
              /\ pc["slv"] \in Waiting =>
                    \/ data[path["OUT"]] \in {No, Yes2}
                    \/ "slv" \in killed /\ data[path["OUT"]] \in {<<>>, Yes1}
        /\ pc["ctl"] = "answer" =>
              /\ pc["slv"] = "answer" => data[path["OUT"]] = <<>>
              /\ pc["slv"] = "closeOUT" => data[path["OUT"]] = Yes1
              /\ pc["slv"] \in Waiting =>
                    \/ data[path["OUT"]] = Yes1
                    \/ data[path["OUT"]] = <<>> /\ "slv" \in killed
              /\ answer = req \/ (data[path["OUT"]] = <<>> /\ pc["slv"] \in Waiting)

(* What was applied. *)
UsedInv == used \in {None, req} \/ ("slv" \in killed /\ used = Bad)

Mine == DirInv /\ PhaseInv /\ MetInv /\ AskedInv /\ AnsweredInv /\ UsedInv

MineInv == Usable => Mine

(* As long as nothing breaks the call, the solver also finds in solver_IN    *)
(* what of the request was sent and not read yet, so it does not take the    *)
(* end of the pipe for a request.                                            *)
Clean ==
    /\ pc["slv"] \in Down => pc["ctl"] \in Down \union {"ready"}
    /\ pc["ctl"] \in OnIn => fd["ctl"] = path["IN"]
    /\ Asking \/ (pc["ctl"] = "openIN" /\ met["ctl"]) =>
          pc["slv"] \notin Waiting \/ (pc["slv"] = "openIN" /\ met["slv"])
    /\ pc["slv"] = "mode" \/ (pc["slv"] = "openIN" /\ met["slv"]) =>
          /\ pc["ctl"] \in {"openIN", "mode"} => Len(data[path["IN"]]) = 0
          /\ pc["ctl"] = "rest" => Len(data[path["IN"]]) = 1
          /\ pc["ctl"] \in {"closeIN", "wait", "openOUT"} => Len(data[path["IN"]]) = 2
    /\ pc["slv"] = "rest" =>
          /\ pc["ctl"] \notin {"openIN", "mode"}
          /\ pc["ctl"] = "rest" => Len(data[path["IN"]]) = 0
          /\ pc["ctl"] \in {"closeIN", "wait", "openOUT"} => Len(data[path["IN"]]) = 1

CleanInv == ~Broken => ~eof /\ Clean

(* Where things are. *)
LEMMA Scalars ==
  ASSUME TypeInv
  PROVE  /\ path["IN"] \in Inodes \union {Absent} /\ path["OUT"] \in Inodes \union {Absent}
         /\ fd["ctl"] \in Inodes \union {Absent} /\ fd["slv"] \in Inodes \union {Absent}
         /\ pc["ctl"] \in Labels /\ pc["slv"] \in Labels /\ Absent \notin Inodes
         /\ fd["ctl"] # Absent <=> pc["ctl"] \in OnIn \union OnOut
         /\ fd["slv"] # Absent <=> pc["slv"] \in OnIn \union OnOut
         /\ \A i \in Inodes : fifo[i] /\ data[i] # <<>> => fd["ctl"] = i \/ fd["slv"] = i
  <1>1. /\ path \in [Names -> Inodes \union {Absent}] /\ fd \in [Procs -> Inodes \union {Absent}]
        /\ pc \in [Procs -> Labels] /\ OpenInv /\ PipeInv
    BY DEF TypeInv, TypeOK
  <1>2. "ctl" \in Procs /\ "slv" \in Procs /\ "IN" \in Names /\ "OUT" \in Names
    BY Others
  <1>3. \A i \in Inodes : fifo[i] /\ data[i] # <<>> => fd["ctl"] = i \/ fd["slv"] = i
    BY <1>1 DEF PipeInv, Procs
  <1>4. Absent \notin Inodes
    BY DEF Absent, Inodes
  <1>5. /\ fd["ctl"] # Absent <=> pc["ctl"] \in OnIn \union OnOut
        /\ fd["slv"] # Absent <=> pc["slv"] \in OnIn \union OnOut
    BY <1>1, <1>2 DEF OpenInv
  <1> QED
    BY <1>1, <1>2, <1>3, <1>4, <1>5

(* The two processes' labels. *)
LEMMA Goes ==
  ASSUME TypeInv
  PROVE  /\ \A l : Goto("ctl", l) => pc'["ctl"] = l /\ pc'["slv"] = pc["slv"]
         /\ \A l : Goto("slv", l) => pc'["slv"] = l /\ pc'["ctl"] = pc["ctl"]
  <1>1. pc \in [Procs -> Labels]
    BY DEF TypeInv, TypeOK
  <1> QED
    BY <1>1, Others DEF Goto

(* Opening a pipe that is there. *)
LEMMA Opens ==
  ASSUME TypeInv, NEW p \in Procs, NEW n \in Names, path[n] # Absent, fifo[path[n]], Open(p, n)
  PROVE  /\ path' = path /\ fifo' = fifo /\ data' = data
         /\ fd'[p] = path[n] /\ fd'[Other(p)] = fd[Other(p)]
         /\ met'[p] <=> fd[Other(p)] = path[n]
         /\ met'[Other(p)] <=> met[Other(p)] \/ fd[Other(p)] = path[n]
  <1>1. /\ path \in [Names -> Inodes \union {Absent}] /\ fd \in [Procs -> Inodes \union {Absent}]
        /\ met \in [Procs -> BOOLEAN]
    BY DEF TypeInv, TypeOK
  <1>2. Other(p) \in Procs /\ Other(p) # p
    BY Others
  <1>3. path' = path /\ fifo' = fifo /\ data' = data
    BY DEF Open, fsvars
  <1>4. fd' = [fd EXCEPT ![p] = path[n]]
    BY <1>3 DEF Open
  <1> DEFINE a == ~fifo[path[n]] \/ fd[Other(p)] = path[n]
             b == met[Other(p)] \/ fd[Other(p)] = path[n]
  <1>5. met' = [met EXCEPT ![p] = a, ![Other(p)] = b]
    BY <1>1, <1>2, <1>3 DEF Open
  <1> HIDE DEF a, b
  <1>6. met'[p] = a /\ met'[Other(p)] = b
    BY <1>1, <1>2, <1>5
  <1>7. /\ met'[p] <=> fd[Other(p)] = path[n]
        /\ met'[Other(p)] <=> met[Other(p)] \/ fd[Other(p)] = path[n]
    BY <1>6, Zenon DEF a, b
  <1> QED
    BY <1>1, <1>2, <1>3, <1>4, <1>7

(* Closing. *)
LEMMA Closes ==
  ASSUME TypeInv, NEW p \in Procs, Close(p)
  PROVE  /\ fd'[p] = Absent /\ fd'[Other(p)] = fd[Other(p)]
         /\ ~met'[p] /\ (met'[Other(p)] <=> met[Other(p)])
         /\ \A i \in Inodes : data'[i] = data[i] \/ data'[i] = <<>>
         /\ \A i \in Inodes : fd[p] # i \/ fd[Other(p)] = i => data'[i] = data[i]
  <1>1. /\ data \in [Inodes -> Seq(Part)] /\ fd \in [Procs -> Inodes \union {Absent}]
        /\ met \in [Procs -> BOOLEAN]
    BY DEF TypeInv, TypeOK
  <1>2. Other(p) \in Procs /\ Other(p) # p
    BY Others
  <1>3. /\ fd' = [fd EXCEPT ![p] = Absent] /\ met' = [met EXCEPT ![p] = FALSE]
        /\ data' = data \/ data' = [data EXCEPT ![fd[p]] = <<>>]
    BY DEF Close
  <1>4. \A i \in Inodes : fd[p] # i \/ fd[Other(p)] = i => data'[i] = data[i]
    BY CloseType
  <1> QED
    BY <1>1, <1>2, <1>3, <1>4

(* Reading from a pipe. *)
LEMMA Reads ==
  ASSUME TypeInv, NEW p \in Procs, fd[p] # Absent, fifo[fd[p]], HasData(p), Consume(p)
  PROVE  /\ data[fd[p]] \in Seq(Part) /\ data[fd[p]] # <<>>
         /\ NextPart(p) = data[fd[p]][1] /\ data'[fd[p]] = Tail(data[fd[p]])
         /\ \A i \in Inodes : i # fd[p] => data'[i] = data[i]
  <1>1. data \in [Inodes -> Seq(Part)] /\ fd[p] \in Inodes
    BY DEF TypeInv, TypeOK
  <1>2. /\ data[fd[p]] # <<>> /\ NextPart(p) = data[fd[p]][1]
        /\ data' = [data EXCEPT ![fd[p]] = Tail(data[fd[p]])]
    BY DEF HasData, Consume, NextPart
  <1> QED
    BY <1>1, <1>2

(* At the end of a pipe. *)
LEMMA Ends ==
  ASSUME NEW p \in Procs, fifo[fd[p]], AtEnd(p)
  PROVE  data[fd[p]] = <<>> /\ fd[Other(p)] # fd[p]
  BY DEF AtEnd, HasData, Paired

(* Writing to a pipe. *)
LEMMA Writes ==
  ASSUME TypeInv, NEW p \in Procs, NEW part, fd[p] # Absent, fifo[fd[p]], Write(p, part)
  PROVE  /\ data[fd[p]] \in Seq(Part)
         /\ fd[Other(p)] = fd[p] => data'[fd[p]] = Append(data[fd[p]], part)
         /\ fd[Other(p)] # fd[p] => data' = data
         /\ \A i \in Inodes : i # fd[p] => data'[i] = data[i]
  <1>1. data \in [Inodes -> Seq(Part)] /\ fd[p] \in Inodes
    BY DEF TypeInv, TypeOK
  <1>2. data' = IF fd[Other(p)] = fd[p] THEN [data EXCEPT ![fd[p]] = Append(data[fd[p]], part)]
                ELSE data
    BY <1>1 DEF Write, Paired
  <1> QED
    BY <1>1, <1>2

(* Parts of a message. *)
LEMMA AllOfs ==
  ASSUME NEW m \in Seq(Part), NEW r
  PROVE  /\ AllOf(<<>>, r)
         /\ AllOf(m, r) /\ m # <<>> => AllOf(Tail(m), r) /\ m[1].id = r
         /\ \A b \in Part : AllOf(m, r) /\ b.id = r => AllOf(Append(m, b), r)
  <1>1. AllOf(<<>>, r)
    BY DEF AllOf
  <1>2. ASSUME AllOf(m, r), m # <<>> PROVE AllOf(Tail(m), r) /\ m[1].id = r
    <2>1. /\ Len(m) \in Nat /\ Len(m) >= 1 /\ DOMAIN m = 1 .. Len(m)
          /\ Tail(m) \in Seq(Part) /\ Len(Tail(m)) = Len(m) - 1
          /\ \A k \in 1 .. Len(m) - 1 : Tail(m)[k] = m[k + 1]
      BY <1>2
    <2>2. DOMAIN Tail(m) = 1 .. Len(m) - 1
      BY <2>1
    <2>3. \A k \in 1 .. Len(m) - 1 : k + 1 \in 1 .. Len(m)
      BY <2>1
    <2>4. 1 \in 1 .. Len(m)
      BY <2>1
    <2> QED
      BY <1>2, <2>1, <2>2, <2>3, <2>4 DEF AllOf
  <1>3. ASSUME NEW b \in Part, AllOf(m, r), b.id = r PROVE AllOf(Append(m, b), r)
    <2>1. /\ Len(m) \in Nat /\ DOMAIN m = 1 .. Len(m)
          /\ Append(m, b) \in Seq(Part) /\ Len(Append(m, b)) = Len(m) + 1
          /\ \A k \in 1 .. Len(m) : Append(m, b)[k] = m[k]
          /\ Append(m, b)[Len(m) + 1] = b
      OBVIOUS
    <2>2. DOMAIN Append(m, b) = 1 .. Len(m) + 1
      BY <2>1
    <2>3. \A k \in 1 .. Len(m) + 1 : k \in 1 .. Len(m) \/ k = Len(m) + 1
      BY <2>1
    <2> QED
      BY <1>3, <2>1, <2>2, <2>3 DEF AllOf
  <1> QED
    BY <1>1, <1>2, <1>3

(* Sequences of one and two parts. *)
LEMMA Grows ==
  ASSUME NEW u \in Seq(Part), NEW b \in Part
  PROVE  /\ Append(u, b) \in Seq(Part) /\ Len(Append(u, b)) = Len(u) + 1
         /\ \A i \in 1 .. Len(u) : Append(u, b)[i] = u[i]
         /\ Append(u, b)[Len(u) + 1] = b
  OBVIOUS

(* A part appended to one part makes two. *)
LEMMA Grown ==
  ASSUME NEW u \in Seq(Part), NEW a \in Part, NEW b \in Part, Len(u) = 1, u[1] = a
  PROVE  Append(u, b) = <<a, b>>
  <1>1. Append(u, b) \in Seq(Part) /\ Len(Append(u, b)) = Len(u) + 1
    BY Grows, Zenon
  <1>2. \A i \in 1 .. Len(u) : Append(u, b)[i] = u[i]
    BY Grows, Zenon
  <1>3. Append(u, b)[Len(u) + 1] = b
    BY Grows, Zenon
  <1>4. Len(u) + 1 = 2 /\ 1 \in 1 .. Len(u)
    OBVIOUS
  <1>5. /\ <<a, b>> \in Seq(Part) /\ Len(<<a, b>>) = 2
        /\ <<a, b>>[1] = a /\ <<a, b>>[2] = b
    OBVIOUS
  <1>6. Len(Append(u, b)) = 2 /\ Append(u, b)[1] = a /\ Append(u, b)[2] = b
    BY <1>1, <1>2, <1>3, <1>4
  <1>7. \A i \in 1 .. 2 : Append(u, b)[i] = <<a, b>>[i]
    BY <1>5, <1>6
  <1> QED
    BY <1>1, <1>5, <1>6, <1>7, SeqEqual

(* Heads, tails and extensions of short messages. *)
LEMMA Short ==
  ASSUME NEW a \in Part, NEW b \in Part
  PROVE  /\ <<a>> # <<>> /\ <<a, b>> # <<>> /\ <<a>>[1] = a /\ <<a, b>>[1] = a
         /\ Append(<<>>, a) = <<a>> /\ Append(<<a>>, b) = <<a, b>>
         /\ Tail(<<a>>) = <<>> /\ Tail(<<a, b>>) = <<b>>
  <1>1. <<a>> # <<>> /\ <<a, b>> # <<>>
    OBVIOUS
  <1>2. <<a>>[1] = a /\ <<a, b>>[1] = a
    OBVIOUS
  <1>3. Append(<<>>, a) = <<a>>
    OBVIOUS
  <1>4. Append(<<a>>, b) = <<a, b>>
    <2>1. <<a>> \in Seq(Part) /\ Len(<<a>>) = 1
      OBVIOUS
    <2> QED
      BY <1>2, <2>1, Grown, Zenon
  <1>5. Tail(<<a>>) = <<>>
    OBVIOUS
  <1>6. Tail(<<a, b>>) = <<b>>
    OBVIOUS
  <1> QED
    BY <1>1, <1>2, <1>3, <1>4, <1>5, <1>6

(* The three contents of solver_OUT are not empty, and how one becomes another. *)
LEMMA Contents ==
  ASSUME TypeInv
  PROVE  /\ No # <<>> /\ Yes1 # <<>> /\ Yes2 # <<>>
         /\ No[1].id = req /\ Yes1[1].id = req /\ Yes2[1].id = req
         /\ ~No[1].ok /\ Yes1[1].ok /\ Yes2[1].ok
         /\ Tail(No) = <<>> /\ Tail(Yes1) = <<>> /\ Tail(Yes2) = Yes1
         /\ Append(<<>>, [id |-> req, ok |-> FALSE]) = No
         /\ Append(<<>>, [id |-> req, ok |-> TRUE]) = Yes1
         /\ Append(Yes1, [id |-> req, ok |-> TRUE]) = Yes2
  <1> DEFINE a == [id |-> req, ok |-> FALSE]
             b == [id |-> req, ok |-> TRUE]
  <1>1. a \in Part /\ b \in Part
    BY DEF TypeInv, TypeOK, Part
  <1>2. a.id = req /\ b.id = req /\ ~a.ok /\ b.ok
    OBVIOUS
  <1>3. No = <<a>> /\ Yes1 = <<b>> /\ Yes2 = <<b, b>>
    BY DEF No, Yes1, Yes2
  <1> HIDE DEF a, b
  <1>4. /\ <<a>> # <<>> /\ <<a>>[1] = a /\ Append(<<>>, a) = <<a>> /\ Tail(<<a>>) = <<>>
        /\ <<b>> # <<>> /\ <<b>>[1] = b /\ Append(<<>>, b) = <<b>> /\ Tail(<<b>>) = <<>>
        /\ <<b, b>> # <<>> /\ <<b, b>>[1] = b /\ Append(<<b>>, b) = <<b, b>> /\ Tail(<<b, b>>) = <<b>>
    BY <1>1, Short
  <1>5. /\ No # <<>> /\ Yes1 # <<>> /\ Yes2 # <<>>
        /\ No[1].id = req /\ Yes1[1].id = req /\ Yes2[1].id = req
        /\ ~No[1].ok /\ Yes1[1].ok /\ Yes2[1].ok
        /\ Tail(No) = <<>> /\ Tail(Yes1) = <<>> /\ Tail(Yes2) = Yes1
        /\ Append(<<>>, a) = No /\ Append(<<>>, b) = Yes1 /\ Append(Yes1, b) = Yes2
    BY <1>2, <1>3, <1>4
  <1> QED
    BY <1>5 DEF a, b

(* They depend on the number of the request only. *)
LEMMA SameContents ==
  ASSUME req' = req
  PROVE  No' = No /\ Yes1' = Yes1 /\ Yes2' = Yes2
  BY DEF No, Yes1, Yes2

(* One lemma per action: it keeps all parts of the invariant. *)

(* The controller's open returns. *)
LEMMA MineCtlOpened ==
  ASSUME TypeInv, Mine, Usable', Opened("ctl")
  PROVE  Mine' /\ (Clean /\ ~Broken' => Clean')
  <1>0. /\ DirInv /\ PhaseInv /\ MetInv /\ AskedInv /\ AnsweredInv /\ UsedInv
        /\ path["IN"] \in Inodes \union {Absent} /\ path["OUT"] \in Inodes \union {Absent}
        /\ fd["ctl"] \in Inodes \union {Absent} /\ fd["slv"] \in Inodes \union {Absent}
        /\ Absent \notin Inodes
        /\ fd["ctl"] # Absent <=> pc["ctl"] \in OnIn \union OnOut
        /\ fd["slv"] # Absent <=> pc["slv"] \in OnIn \union OnOut
    BY Scalars DEF Mine
  <1>1. /\ path' = path /\ fifo' = fifo /\ data' = data
        /\ fd' = fd /\ met' = met
        /\ req' = req /\ answer' = answer /\ used' = used
        /\ job' = job /\ good' = good
        /\ killed' = killed
    BY DEF Opened, fsvars, fdvars, cvars, svars, hvars
  <1>2. /\ met["ctl"]
        /\ \/ pc["ctl"] = "openIN" /\ pc'["ctl"] = "mode"
           \/ pc["ctl"] = "openOUT" /\ pc'["ctl"] = "value"
        /\ pc'["slv"] = pc["slv"]
    BY Goes DEF Opened
  <1>3. No' = No /\ Yes1' = Yes1 /\ Yes2' = Yes2
    BY <1>1, SameContents
  <1>4. DirInv'
    BY <1>0, <1>1, <1>2, <1>3 DEF DirInv, PhaseInv, Down, Waiting, OnIn, OnOut
  <1>5. PhaseInv'
    BY <1>0, <1>1, <1>2, <1>3
    DEF DirInv, PhaseInv, MetInv, Asking, Reading, Down, Waiting, OnIn, OnOut
  <1>6. MetInv'
    BY <1>0, <1>1, <1>2, <1>3
    DEF DirInv, PhaseInv, MetInv, Asking, Reading, Down, Waiting, OnIn, OnOut
  <1>7. AskedInv'
    BY <1>0, <1>1, <1>2, <1>3 DEF DirInv, PhaseInv, AskedInv, Down, Waiting, OnIn, OnOut
  <1>8. AnsweredInv'
    BY <1>0, <1>1, <1>2, <1>3
    DEF DirInv, PhaseInv, MetInv, AnsweredInv, Asking, Reading, Down, Waiting, OnIn, OnOut
  <1>9. UsedInv'
    BY <1>0, <1>1, <1>2, <1>3 DEF UsedInv
  <1>10. ASSUME Clean, ~Broken' PROVE Clean'
    BY <1>0, <1>1, <1>2, <1>3, <1>10
    DEF Clean, Broken, DirInv, PhaseInv, MetInv, Asking, Reading, Down, Waiting, OnIn, OnOut
  <1> QED
    BY <1>4, <1>5, <1>6, <1>7, <1>8, <1>9, <1>10 DEF Mine

(* The solver's open returns: the controller is where MetInv says. *)
LEMMA MineSlvOpened ==
  ASSUME TypeInv, Mine, Usable', Opened("slv")
  PROVE  Mine' /\ (Clean /\ ~Broken' => Clean')
  <1>0. /\ DirInv /\ PhaseInv /\ MetInv /\ AskedInv /\ AnsweredInv /\ UsedInv
        /\ path["IN"] \in Inodes \union {Absent} /\ path["OUT"] \in Inodes \union {Absent}
        /\ fd["ctl"] \in Inodes \union {Absent} /\ fd["slv"] \in Inodes \union {Absent}
        /\ Absent \notin Inodes
        /\ fd["ctl"] # Absent <=> pc["ctl"] \in OnIn \union OnOut
        /\ fd["slv"] # Absent <=> pc["slv"] \in OnIn \union OnOut
    BY Scalars DEF Mine
  <1>1. /\ path' = path /\ fifo' = fifo /\ data' = data
        /\ fd' = fd /\ met' = met
        /\ req' = req /\ answer' = answer /\ used' = used
        /\ job' = job /\ good' = good
        /\ killed' = killed
    BY DEF Opened, fsvars, fdvars, cvars, svars, hvars
  <1>2. /\ met["slv"]
        /\ \/ pc["slv"] = "openIN" /\ pc'["slv"] = "mode"
           \/ pc["slv"] = "openOUT" /\ pc'["slv"] = "value"
        /\ pc'["ctl"] = pc["ctl"]
    BY Goes DEF Opened
  <1>3. No' = No /\ Yes1' = Yes1 /\ Yes2' = Yes2
    BY <1>1, SameContents
  <1>4. DirInv'
    BY <1>0, <1>1, <1>2, <1>3 DEF DirInv, PhaseInv, Down, Waiting, OnIn, OnOut
  <1>5. PhaseInv'
    BY <1>0, <1>1, <1>2, <1>3
    DEF DirInv, PhaseInv, MetInv, Asking, Reading, Down, Waiting, OnIn, OnOut
  <1>6. MetInv'
    BY <1>0, <1>1, <1>2, <1>3
    DEF DirInv, PhaseInv, MetInv, Asking, Reading, Down, Waiting, OnIn, OnOut
  <1>7. AskedInv'
    BY <1>0, <1>1, <1>2, <1>3 DEF DirInv, PhaseInv, AskedInv, Down, Waiting, OnIn, OnOut
  <1>8. AnsweredInv'
    BY <1>0, <1>1, <1>2, <1>3
    DEF DirInv, PhaseInv, MetInv, AnsweredInv, Asking, Reading, Down, Waiting, OnIn, OnOut
  <1>9. UsedInv'
    BY <1>0, <1>1, <1>2, <1>3 DEF UsedInv
  <1>10. ASSUME Clean, ~Broken' PROVE Clean'
    BY <1>0, <1>1, <1>2, <1>3, <1>10
    DEF Clean, Broken, DirInv, PhaseInv, MetInv, Asking, Reading, Down, Waiting, OnIn, OnOut
  <1> QED
    BY <1>4, <1>5, <1>6, <1>7, <1>8, <1>9, <1>10 DEF Mine

(* The solver has an answer, or none, or threw. *)
LEMMA MineSlvSolve ==
  ASSUME TypeInv, Mine, Usable', SlvSolve
  PROVE  Mine' /\ (Clean /\ ~Broken' => Clean')
  <1>0. /\ DirInv /\ PhaseInv /\ MetInv /\ AskedInv /\ AnsweredInv /\ UsedInv
        /\ path["IN"] \in Inodes \union {Absent} /\ path["OUT"] \in Inodes \union {Absent}
        /\ fd["ctl"] \in Inodes \union {Absent} /\ fd["slv"] \in Inodes \union {Absent}
        /\ Absent \notin Inodes
        /\ fd["ctl"] # Absent <=> pc["ctl"] \in OnIn \union OnOut
        /\ fd["slv"] # Absent <=> pc["slv"] \in OnIn \union OnOut
    BY Scalars DEF Mine
  <1>1. /\ path' = path /\ fifo' = fifo /\ data' = data
        /\ fd' = fd /\ met' = met
        /\ req' = req /\ answer' = answer /\ used' = used
        /\ job' = job
        /\ killed' = killed
    BY DEF SlvSolve, fsvars, fdvars, cvars
  <1>2. /\ pc["slv"] = "solve"
        /\ pc'["slv"] = "wait" \/ (pc'["slv"] = "ready" /\ threw')
        /\ pc'["ctl"] = pc["ctl"]
    BY Goes DEF SlvSolve
  <1>3. No' = No /\ Yes1' = Yes1 /\ Yes2' = Yes2
    BY <1>1, SameContents
  <1>4. DirInv'
    BY <1>0, <1>1, <1>2, <1>3 DEF DirInv, PhaseInv, Down, Waiting, OnIn, OnOut
  <1>5. PhaseInv'
    BY <1>0, <1>1, <1>2, <1>3
    DEF DirInv, PhaseInv, MetInv, Asking, Reading, Down, Waiting, OnIn, OnOut
  <1>6. MetInv'
    BY <1>0, <1>1, <1>2, <1>3
    DEF DirInv, PhaseInv, MetInv, Asking, Reading, Down, Waiting, OnIn, OnOut
  <1>7. AskedInv'
    BY <1>0, <1>1, <1>2, <1>3 DEF DirInv, PhaseInv, AskedInv, Down, Waiting, OnIn, OnOut
  <1>8. AnsweredInv'
    BY <1>0, <1>1, <1>2, <1>3
    DEF DirInv, PhaseInv, MetInv, AnsweredInv, Asking, Reading, Down, Waiting, OnIn, OnOut
  <1>9. UsedInv'
    BY <1>0, <1>1, <1>2, <1>3 DEF UsedInv
  <1>10. ASSUME Clean, ~Broken' PROVE Clean'
    BY <1>0, <1>1, <1>2, <1>3, <1>10
    DEF Clean, Broken, DirInv, PhaseInv, MetInv, Asking, Reading, Down, Waiting, OnIn, OnOut
  <1> QED
    BY <1>4, <1>5, <1>6, <1>7, <1>8, <1>9, <1>10 DEF Mine

(* The controller starts; the solver is not yet past solver_IN. *)
LEMMA MineCtlMake ==
  ASSUME TypeInv, Mine, Usable', Start("ctl") \/ Remake("ctl")
  PROVE  Mine' /\ (Clean /\ ~Broken' => Clean')
  <1>0. /\ DirInv /\ PhaseInv /\ MetInv /\ AskedInv /\ AnsweredInv /\ UsedInv
        /\ path["IN"] \in Inodes \union {Absent} /\ path["OUT"] \in Inodes \union {Absent}
        /\ fd["ctl"] \in Inodes \union {Absent} /\ fd["slv"] \in Inodes \union {Absent}
        /\ Absent \notin Inodes
        /\ fd["ctl"] # Absent <=> pc["ctl"] \in OnIn \union OnOut
        /\ fd["slv"] # Absent <=> pc["slv"] \in OnIn \union OnOut
    BY Scalars DEF Mine
  <1>1. /\ fd' = fd /\ met' = met
        /\ req' = req /\ answer' = answer /\ used' = used
        /\ job' = job /\ good' = good
        /\ killed' = killed
    BY DEF Start, Remake, fdvars, cvars, svars, hvars
  <1>2. /\ pc["ctl"] \in {"down", "remake"}
        /\ pc'["slv"] = pc["slv"]
        /\ \/ /\ Create("OUT", TRUE) /\ pc'["ctl"] = "ready"
           \/ /\ path' = [path EXCEPT !["OUT"] = Absent] /\ fifo' = fifo /\ data' = data
              /\ pc'["ctl"] = "remake"
    BY <1>0, Goes, Others DEF Start, Remake, DirInv
  <1>3. /\ path'["IN"] = path["IN"]
        /\ \A i \in Inodes : i # path'["OUT"] => fifo'[i] = fifo[i] /\ data'[i] = data[i]
        /\ \/ /\ path'["OUT"] \in Inodes /\ fifo'[path'["OUT"]] /\ data'[path'["OUT"]] = <<>>
              /\ path["IN"] # path'["OUT"] /\ fd["slv"] # path'["OUT"] /\ pc'["ctl"] = "ready"
           \/ path'["OUT"] = Absent /\ fifo' = fifo /\ data' = data /\ pc'["ctl"] = "remake"
    <2>1. CASE Create("OUT", TRUE) /\ pc'["ctl"] = "ready"
      <3>1. TRUE \in BOOLEAN /\ "OUT" \in Names /\ "IN" \in Names /\ "IN" # "OUT" /\ "slv" \in Procs
        BY Others
      <3>2. /\ path'["OUT"] \in Inodes /\ fifo'[path'["OUT"]] = TRUE /\ data'[path'["OUT"]] = <<>>
            /\ \A m \in Names : m # "OUT" => path'[m] = path[m]
            /\ \A m \in Names : path[m] # path'["OUT"]
            /\ \A p \in Procs : fd[p] # path'["OUT"]
            /\ \A i \in Inodes : i # path'["OUT"] => fifo'[i] = fifo[i] /\ data'[i] = data[i]
        BY <2>1, <3>1, CreateType
      <3> QED
        BY <2>1, <3>1, <3>2
    <2>2. CASE /\ path' = [path EXCEPT !["OUT"] = Absent] /\ fifo' = fifo /\ data' = data
               /\ pc'["ctl"] = "remake"
      <3>1. path \in [Names -> Inodes \union {Absent}] /\ "OUT" \in Names /\ "IN" \in Names
        BY Others DEF TypeInv, TypeOK
      <3> QED
        BY <2>2, <3>1
    <2> QED
      BY <1>2, <2>1, <2>2
  <1>4. No' = No /\ Yes1' = Yes1 /\ Yes2' = Yes2
    BY <1>1, SameContents
  <1>5. DirInv'
    BY <1>0, <1>1, <1>2, <1>3, <1>4 DEF DirInv, PhaseInv, Down, Waiting, OnIn, OnOut
  <1>6. PhaseInv'
    BY <1>0, <1>1, <1>2, <1>3, <1>4
    DEF DirInv, PhaseInv, MetInv, Asking, Reading, Down, Waiting, OnIn, OnOut
  <1>7. MetInv'
    BY <1>0, <1>1, <1>2, <1>3, <1>4
    DEF DirInv, PhaseInv, MetInv, Asking, Reading, Down, Waiting, OnIn, OnOut
  <1>8. AskedInv'
    BY <1>0, <1>1, <1>2, <1>3, <1>4 DEF DirInv, PhaseInv, AskedInv, Down, Waiting, OnIn, OnOut
  <1>9. AnsweredInv'
    BY <1>0, <1>1, <1>2, <1>3, <1>4
    DEF DirInv, PhaseInv, MetInv, AnsweredInv, Asking, Reading, Down, Waiting, OnIn, OnOut
  <1>10. UsedInv'
    BY <1>0, <1>1, <1>2, <1>3, <1>4 DEF UsedInv
  <1>11. ASSUME Clean, ~Broken' PROVE Clean'
    BY <1>0, <1>1, <1>2, <1>3, <1>4, <1>11
    DEF Clean, Broken, DirInv, PhaseInv, MetInv, Asking, Reading, Down, Waiting, OnIn, OnOut
  <1> QED
    BY <1>5, <1>6, <1>7, <1>8, <1>9, <1>10, <1>11 DEF Mine

(* The solver starts, also again, while the controller may be anywhere. *)
LEMMA MineSlvMake ==
  ASSUME TypeInv, Mine, Usable', Start("slv") \/ Remake("slv")
  PROVE  Mine' /\ (Clean /\ ~Broken' => Clean')
  <1>0. /\ DirInv /\ PhaseInv /\ MetInv /\ AskedInv /\ AnsweredInv /\ UsedInv
        /\ path["IN"] \in Inodes \union {Absent} /\ path["OUT"] \in Inodes \union {Absent}
        /\ fd["ctl"] \in Inodes \union {Absent} /\ fd["slv"] \in Inodes \union {Absent}
        /\ Absent \notin Inodes
        /\ fd["ctl"] # Absent <=> pc["ctl"] \in OnIn \union OnOut
        /\ fd["slv"] # Absent <=> pc["slv"] \in OnIn \union OnOut
    BY Scalars DEF Mine
  <1>1. /\ fd' = fd /\ met' = met
        /\ req' = req /\ answer' = answer /\ used' = used
        /\ job' = job /\ good' = good
        /\ killed' = killed
    BY DEF Start, Remake, fdvars, cvars, svars, hvars
  <1>2. /\ pc["slv"] \in {"down", "remake"}
        /\ pc'["ctl"] = pc["ctl"]
        /\ \/ /\ Create("IN", TRUE) /\ pc'["slv"] = "ready"
           \/ /\ path' = [path EXCEPT !["IN"] = Absent] /\ fifo' = fifo /\ data' = data
              /\ pc'["slv"] = "remake"
    BY <1>0, Goes, Others DEF Start, Remake, DirInv
  <1>3. /\ path'["OUT"] = path["OUT"]
        /\ \A i \in Inodes : i # path'["IN"] => fifo'[i] = fifo[i] /\ data'[i] = data[i]
        /\ \/ /\ path'["IN"] \in Inodes /\ fifo'[path'["IN"]] /\ data'[path'["IN"]] = <<>>
              /\ path["OUT"] # path'["IN"] /\ fd["ctl"] # path'["IN"] /\ pc'["slv"] = "ready"
           \/ path'["IN"] = Absent /\ fifo' = fifo /\ data' = data /\ pc'["slv"] = "remake"
    <2>1. CASE Create("IN", TRUE) /\ pc'["slv"] = "ready"
      <3>1. TRUE \in BOOLEAN /\ "OUT" \in Names /\ "IN" \in Names /\ "IN" # "OUT" /\ "ctl" \in Procs
        BY Others
      <3>2. /\ path'["IN"] \in Inodes /\ fifo'[path'["IN"]] = TRUE /\ data'[path'["IN"]] = <<>>
            /\ \A m \in Names : m # "IN" => path'[m] = path[m]
            /\ \A m \in Names : path[m] # path'["IN"]
            /\ \A p \in Procs : fd[p] # path'["IN"]
            /\ \A i \in Inodes : i # path'["IN"] => fifo'[i] = fifo[i] /\ data'[i] = data[i]
        BY <2>1, <3>1, CreateType
      <3> QED
        BY <2>1, <3>1, <3>2
    <2>2. CASE /\ path' = [path EXCEPT !["IN"] = Absent] /\ fifo' = fifo /\ data' = data
               /\ pc'["slv"] = "remake"
      <3>1. path \in [Names -> Inodes \union {Absent}] /\ "OUT" \in Names /\ "IN" \in Names
        BY Others DEF TypeInv, TypeOK
      <3> QED
        BY <2>2, <3>1
    <2> QED
      BY <1>2, <2>1, <2>2
  <1>4. No' = No /\ Yes1' = Yes1 /\ Yes2' = Yes2
    BY <1>1, SameContents
  <1>5. AllOf(<<>>, req)
    BY DEF AllOf
  <1>6. DirInv'
    BY <1>0, <1>1, <1>2, <1>3, <1>4, <1>5 DEF DirInv, PhaseInv, Down, Waiting, OnIn, OnOut
  <1>7. PhaseInv'
    BY <1>0, <1>1, <1>2, <1>3, <1>4, <1>5
    DEF DirInv, PhaseInv, MetInv, Asking, Reading, Down, Waiting, OnIn, OnOut
  <1>8. MetInv'
    BY <1>0, <1>1, <1>2, <1>3, <1>4, <1>5
    DEF DirInv, PhaseInv, MetInv, Asking, Reading, Down, Waiting, OnIn, OnOut
  <1>9. AskedInv'
    BY <1>0, <1>1, <1>2, <1>3, <1>4, <1>5 DEF DirInv, PhaseInv, AskedInv, Down, Waiting, OnIn, OnOut
  <1>10. AnsweredInv'
    BY <1>0, <1>1, <1>2, <1>3, <1>4, <1>5
    DEF DirInv, PhaseInv, MetInv, AnsweredInv, Asking, Reading, Down, Waiting, OnIn, OnOut
  <1>11. UsedInv'
    BY <1>0, <1>1, <1>2, <1>3, <1>4, <1>5 DEF UsedInv
  <1>12. ASSUME Clean, ~Broken' PROVE Clean'
    BY <1>0, <1>1, <1>2, <1>3, <1>4, <1>5, <1>12
    DEF Clean, Broken, DirInv, PhaseInv, MetInv, Asking, Reading, Down, Waiting, OnIn, OnOut
  <1> QED
    BY <1>6, <1>7, <1>8, <1>9, <1>10, <1>11, <1>12 DEF Mine

(* The solver is killed: what it has written stays, cut short. *)
LEMMA MineSlvCrash ==
  ASSUME TypeInv, Mine, Usable', Crash("slv")
  PROVE  Mine' /\ (Clean /\ ~Broken' => Clean')
  <1>0. /\ DirInv /\ PhaseInv /\ MetInv /\ AskedInv /\ AnsweredInv /\ UsedInv
        /\ path["IN"] \in Inodes \union {Absent} /\ path["OUT"] \in Inodes \union {Absent}
        /\ fd["ctl"] \in Inodes \union {Absent} /\ fd["slv"] \in Inodes \union {Absent}
        /\ Absent \notin Inodes
        /\ fd["ctl"] # Absent <=> pc["ctl"] \in OnIn \union OnOut
        /\ fd["slv"] # Absent <=> pc["slv"] \in OnIn \union OnOut
    BY Scalars DEF Mine
  <1>1. /\ path' = path /\ fifo' = fifo
        /\ req' = req /\ answer' = answer /\ used' = used
        /\ job' = job /\ good' = good
        /\ killed' = killed \union {"slv"}
    BY DEF Crash, cvars, svars
  <1>2. /\ pc'["slv"] = "down"
        /\ pc'["ctl"] = pc["ctl"]
    BY Goes DEF Crash
  <1>3. /\ fd'["slv"] = Absent /\ fd'["ctl"] = fd["ctl"]
        /\ ~met'["slv"] /\ (met'["ctl"] <=> met["ctl"])
        /\ \A i \in Inodes : data'[i] = data[i] \/ data'[i] = <<>>
        /\ \A i \in Inodes : fd["slv"] # i \/ fd["ctl"] = i => data'[i] = data[i]
    <2>1. Close("slv")
      BY DEF Crash
    <2> QED
      BY <2>1, Closes, Others
  <1>4. No' = No /\ Yes1' = Yes1 /\ Yes2' = Yes2
    BY <1>1, SameContents
  <1>5. AllOf(<<>>, req)
    BY DEF AllOf
  <1>6. DirInv'
    BY <1>0, <1>1, <1>2, <1>3, <1>4, <1>5 DEF DirInv, PhaseInv, Down, Waiting, OnIn, OnOut
  <1>7. PhaseInv'
    BY <1>0, <1>1, <1>2, <1>3, <1>4, <1>5
    DEF DirInv, PhaseInv, MetInv, Asking, Reading, Down, Waiting, OnIn, OnOut
  <1>8. MetInv'
    BY <1>0, <1>1, <1>2, <1>3, <1>4, <1>5
    DEF DirInv, PhaseInv, MetInv, Asking, Reading, Down, Waiting, OnIn, OnOut
  <1>9. AskedInv'
    BY <1>0, <1>1, <1>2, <1>3, <1>4, <1>5 DEF DirInv, PhaseInv, AskedInv, Down, Waiting, OnIn, OnOut
  <1>10. AnsweredInv'
    BY <1>0, <1>1, <1>2, <1>3, <1>4, <1>5
    DEF DirInv, PhaseInv, MetInv, AnsweredInv, Asking, Reading, Down, Waiting, OnIn, OnOut
  <1>11. UsedInv'
    BY <1>0, <1>1, <1>2, <1>3, <1>4, <1>5 DEF UsedInv
  <1>12. ASSUME Clean, ~Broken' PROVE Clean'
    BY <1>0, <1>1, <1>2, <1>3, <1>4, <1>5, <1>12
    DEF Clean, Broken, DirInv, PhaseInv, MetInv, Asking, Reading, Down, Waiting, OnIn, OnOut
  <1> QED
    BY <1>6, <1>7, <1>8, <1>9, <1>10, <1>11, <1>12 DEF Mine

(* The controller closes solver_IN; what the solver has not read stays. *)
LEMMA MineCtlCloseIn ==
  ASSUME TypeInv, Mine, Usable', CtlCloseIn
  PROVE  Mine' /\ (Clean /\ ~Broken' => Clean')
  <1>0. /\ DirInv /\ PhaseInv /\ MetInv /\ AskedInv /\ AnsweredInv /\ UsedInv
        /\ path["IN"] \in Inodes \union {Absent} /\ path["OUT"] \in Inodes \union {Absent}
        /\ fd["ctl"] \in Inodes \union {Absent} /\ fd["slv"] \in Inodes \union {Absent}
        /\ Absent \notin Inodes
        /\ fd["ctl"] # Absent <=> pc["ctl"] \in OnIn \union OnOut
        /\ fd["slv"] # Absent <=> pc["slv"] \in OnIn \union OnOut
    BY Scalars DEF Mine
  <1>1. /\ path' = path /\ fifo' = fifo
        /\ req' = req /\ answer' = answer /\ used' = used
        /\ job' = job /\ good' = good
        /\ killed' = killed
    BY DEF CtlCloseIn, cvars, svars, hvars
  <1>2. /\ pc["ctl"] = "closeIN"
        /\ pc'["ctl"] = "wait"
        /\ pc'["slv"] = pc["slv"]
    BY Goes DEF CtlCloseIn
  <1>3. /\ fd'["ctl"] = Absent /\ fd'["slv"] = fd["slv"]
        /\ ~met'["ctl"] /\ (met'["slv"] <=> met["slv"])
        /\ \A i \in Inodes : data'[i] = data[i] \/ data'[i] = <<>>
        /\ \A i \in Inodes : fd["ctl"] # i \/ fd["slv"] = i => data'[i] = data[i]
    <2>1. Close("ctl")
      BY DEF CtlCloseIn
    <2> QED
      BY <2>1, Closes, Others
  <1>4. No' = No /\ Yes1' = Yes1 /\ Yes2' = Yes2
    BY <1>1, SameContents
  <1>5. AllOf(<<>>, req)
    BY DEF AllOf
  <1>6. DirInv'
    BY <1>0, <1>1, <1>2, <1>3, <1>4, <1>5 DEF DirInv, PhaseInv, Down, Waiting, OnIn, OnOut
  <1>7. PhaseInv'
    BY <1>0, <1>1, <1>2, <1>3, <1>4, <1>5
    DEF DirInv, PhaseInv, MetInv, Asking, Reading, Down, Waiting, OnIn, OnOut
  <1>8. MetInv'
    BY <1>0, <1>1, <1>2, <1>3, <1>4, <1>5
    DEF DirInv, PhaseInv, MetInv, Asking, Reading, Down, Waiting, OnIn, OnOut
  <1>9. AskedInv'
    BY <1>0, <1>1, <1>2, <1>3, <1>4, <1>5 DEF DirInv, PhaseInv, AskedInv, Down, Waiting, OnIn, OnOut
  <1>10. AnsweredInv'
    BY <1>0, <1>1, <1>2, <1>3, <1>4, <1>5
    DEF DirInv, PhaseInv, MetInv, AnsweredInv, Asking, Reading, Down, Waiting, OnIn, OnOut
  <1>11. UsedInv'
    BY <1>0, <1>1, <1>2, <1>3, <1>4, <1>5 DEF UsedInv
  <1>12. ASSUME Clean, ~Broken' PROVE Clean'
    BY <1>0, <1>1, <1>2, <1>3, <1>4, <1>5, <1>12
    DEF Clean, Broken, DirInv, PhaseInv, MetInv, Asking, Reading, Down, Waiting, OnIn, OnOut
  <1> QED
    BY <1>6, <1>7, <1>8, <1>9, <1>10, <1>11, <1>12 DEF Mine

(* The controller closes solver_OUT, which is empty. *)
LEMMA MineCtlCloseOut ==
  ASSUME TypeInv, Mine, Usable', CtlCloseOut
  PROVE  Mine' /\ (Clean /\ ~Broken' => Clean')
  <1>0. /\ DirInv /\ PhaseInv /\ MetInv /\ AskedInv /\ AnsweredInv /\ UsedInv
        /\ path["IN"] \in Inodes \union {Absent} /\ path["OUT"] \in Inodes \union {Absent}
        /\ fd["ctl"] \in Inodes \union {Absent} /\ fd["slv"] \in Inodes \union {Absent}
        /\ Absent \notin Inodes
        /\ fd["ctl"] # Absent <=> pc["ctl"] \in OnIn \union OnOut
        /\ fd["slv"] # Absent <=> pc["slv"] \in OnIn \union OnOut
    BY Scalars DEF Mine
  <1>1. /\ path' = path /\ fifo' = fifo
        /\ req' = req /\ used' = used
        /\ job' = job /\ good' = good
        /\ killed' = killed
    BY DEF CtlCloseOut, svars, hvars
  <1>2. /\ pc["ctl"] = "closeOUT"
        /\ pc'["ctl"] = "ready"
        /\ pc'["slv"] = pc["slv"]
    BY Goes DEF CtlCloseOut
  <1>3. /\ fd'["ctl"] = Absent /\ fd'["slv"] = fd["slv"]
        /\ ~met'["ctl"] /\ (met'["slv"] <=> met["slv"])
        /\ \A i \in Inodes : data'[i] = data[i] \/ data'[i] = <<>>
        /\ \A i \in Inodes : fd["ctl"] # i \/ fd["slv"] = i => data'[i] = data[i]
    <2>1. Close("ctl")
      BY DEF CtlCloseOut
    <2> QED
      BY <2>1, Closes, Others
  <1>4. No' = No /\ Yes1' = Yes1 /\ Yes2' = Yes2
    BY <1>1, SameContents
  <1>5. AllOf(<<>>, req)
    BY DEF AllOf
  <1>6. DirInv'
    BY <1>0, <1>1, <1>2, <1>3, <1>4, <1>5 DEF DirInv, PhaseInv, Down, Waiting, OnIn, OnOut
  <1>7. PhaseInv'
    BY <1>0, <1>1, <1>2, <1>3, <1>4, <1>5
    DEF DirInv, PhaseInv, MetInv, Asking, Reading, Down, Waiting, OnIn, OnOut
  <1>8. MetInv'
    BY <1>0, <1>1, <1>2, <1>3, <1>4, <1>5
    DEF DirInv, PhaseInv, MetInv, Asking, Reading, Down, Waiting, OnIn, OnOut
  <1>9. AskedInv'
    BY <1>0, <1>1, <1>2, <1>3, <1>4, <1>5 DEF DirInv, PhaseInv, AskedInv, Down, Waiting, OnIn, OnOut
  <1>10. AnsweredInv'
    BY <1>0, <1>1, <1>2, <1>3, <1>4, <1>5
    DEF DirInv, PhaseInv, MetInv, AnsweredInv, Asking, Reading, Down, Waiting, OnIn, OnOut
  <1>11. UsedInv'
    BY <1>0, <1>1, <1>2, <1>3, <1>4, <1>5 DEF UsedInv
  <1>12. ASSUME Clean, ~Broken' PROVE Clean'
    BY <1>0, <1>1, <1>2, <1>3, <1>4, <1>5, <1>12
    DEF Clean, Broken, DirInv, PhaseInv, MetInv, Asking, Reading, Down, Waiting, OnIn, OnOut
  <1> QED
    BY <1>6, <1>7, <1>8, <1>9, <1>10, <1>11, <1>12 DEF Mine

(* The solver closes solver_IN. *)
LEMMA MineSlvCloseIn ==
  ASSUME TypeInv, Mine, Usable', SlvCloseIn
  PROVE  Mine' /\ (Clean /\ ~Broken' => Clean')
  <1>0. /\ DirInv /\ PhaseInv /\ MetInv /\ AskedInv /\ AnsweredInv /\ UsedInv
        /\ path["IN"] \in Inodes \union {Absent} /\ path["OUT"] \in Inodes \union {Absent}
        /\ fd["ctl"] \in Inodes \union {Absent} /\ fd["slv"] \in Inodes \union {Absent}
        /\ Absent \notin Inodes
        /\ fd["ctl"] # Absent <=> pc["ctl"] \in OnIn \union OnOut
        /\ fd["slv"] # Absent <=> pc["slv"] \in OnIn \union OnOut
    BY Scalars DEF Mine
  <1>1. /\ path' = path /\ fifo' = fifo
        /\ req' = req /\ answer' = answer /\ used' = used
        /\ job' = job /\ good' = good
        /\ killed' = killed
    BY DEF SlvCloseIn, cvars, svars, hvars
  <1>2. /\ pc["slv"] = "closeIN"
        /\ pc'["slv"] = "solve"
        /\ pc'["ctl"] = pc["ctl"]
    BY Goes DEF SlvCloseIn
  <1>3. /\ fd'["slv"] = Absent /\ fd'["ctl"] = fd["ctl"]
        /\ ~met'["slv"] /\ (met'["ctl"] <=> met["ctl"])
        /\ \A i \in Inodes : data'[i] = data[i] \/ data'[i] = <<>>
        /\ \A i \in Inodes : fd["slv"] # i \/ fd["ctl"] = i => data'[i] = data[i]
    <2>1. Close("slv")
      BY DEF SlvCloseIn
    <2> QED
      BY <2>1, Closes, Others
  <1>4. No' = No /\ Yes1' = Yes1 /\ Yes2' = Yes2
    BY <1>1, SameContents
  <1>5. AllOf(<<>>, req)
    BY DEF AllOf
  <1>6. DirInv'
    BY <1>0, <1>1, <1>2, <1>3, <1>4, <1>5 DEF DirInv, PhaseInv, Down, Waiting, OnIn, OnOut
  <1>7. PhaseInv'
    BY <1>0, <1>1, <1>2, <1>3, <1>4, <1>5
    DEF DirInv, PhaseInv, MetInv, Asking, Reading, Down, Waiting, OnIn, OnOut
  <1>8. MetInv'
    BY <1>0, <1>1, <1>2, <1>3, <1>4, <1>5
    DEF DirInv, PhaseInv, MetInv, Asking, Reading, Down, Waiting, OnIn, OnOut
  <1>9. AskedInv'
    BY <1>0, <1>1, <1>2, <1>3, <1>4, <1>5 DEF DirInv, PhaseInv, AskedInv, Down, Waiting, OnIn, OnOut
  <1>10. AnsweredInv'
    BY <1>0, <1>1, <1>2, <1>3, <1>4, <1>5
    DEF DirInv, PhaseInv, MetInv, AnsweredInv, Asking, Reading, Down, Waiting, OnIn, OnOut
  <1>11. UsedInv'
    BY <1>0, <1>1, <1>2, <1>3, <1>4, <1>5 DEF UsedInv
  <1>12. ASSUME Clean, ~Broken' PROVE Clean'
    BY <1>0, <1>1, <1>2, <1>3, <1>4, <1>5, <1>12
    DEF Clean, Broken, DirInv, PhaseInv, MetInv, Asking, Reading, Down, Waiting, OnIn, OnOut
  <1> QED
    BY <1>6, <1>7, <1>8, <1>9, <1>10, <1>11, <1>12 DEF Mine

(* The solver closes solver_OUT; what the controller has not read stays. *)
LEMMA MineSlvCloseOut ==
  ASSUME TypeInv, Mine, Usable', SlvCloseOut
  PROVE  Mine' /\ (Clean /\ ~Broken' => Clean')
  <1>0. /\ DirInv /\ PhaseInv /\ MetInv /\ AskedInv /\ AnsweredInv /\ UsedInv
        /\ path["IN"] \in Inodes \union {Absent} /\ path["OUT"] \in Inodes \union {Absent}
        /\ fd["ctl"] \in Inodes \union {Absent} /\ fd["slv"] \in Inodes \union {Absent}
        /\ Absent \notin Inodes
        /\ fd["ctl"] # Absent <=> pc["ctl"] \in OnIn \union OnOut
        /\ fd["slv"] # Absent <=> pc["slv"] \in OnIn \union OnOut
    BY Scalars DEF Mine
  <1>1. /\ path' = path /\ fifo' = fifo
        /\ req' = req /\ answer' = answer /\ used' = used
        /\ job' = job /\ good' = good
        /\ killed' = killed
    BY DEF SlvCloseOut, cvars, svars, hvars
  <1>2. /\ pc["slv"] = "closeOUT"
        /\ pc'["slv"] = "ready"
        /\ pc'["ctl"] = pc["ctl"]
    BY Goes DEF SlvCloseOut
  <1>3. /\ fd'["slv"] = Absent /\ fd'["ctl"] = fd["ctl"]
        /\ ~met'["slv"] /\ (met'["ctl"] <=> met["ctl"])
        /\ \A i \in Inodes : data'[i] = data[i] \/ data'[i] = <<>>
        /\ \A i \in Inodes : fd["slv"] # i \/ fd["ctl"] = i => data'[i] = data[i]
    <2>1. Close("slv")
      BY DEF SlvCloseOut
    <2> QED
      BY <2>1, Closes, Others
  <1>4. No' = No /\ Yes1' = Yes1 /\ Yes2' = Yes2
    BY <1>1, SameContents
  <1>5. AllOf(<<>>, req)
    BY DEF AllOf
  <1>6. DirInv'
    BY <1>0, <1>1, <1>2, <1>3, <1>4, <1>5 DEF DirInv, PhaseInv, Down, Waiting, OnIn, OnOut
  <1>7. PhaseInv'
    BY <1>0, <1>1, <1>2, <1>3, <1>4, <1>5
    DEF DirInv, PhaseInv, MetInv, Asking, Reading, Down, Waiting, OnIn, OnOut
  <1>8. MetInv'
    BY <1>0, <1>1, <1>2, <1>3, <1>4, <1>5
    DEF DirInv, PhaseInv, MetInv, Asking, Reading, Down, Waiting, OnIn, OnOut
  <1>9. AskedInv'
    BY <1>0, <1>1, <1>2, <1>3, <1>4, <1>5 DEF DirInv, PhaseInv, AskedInv, Down, Waiting, OnIn, OnOut
  <1>10. AnsweredInv'
    BY <1>0, <1>1, <1>2, <1>3, <1>4, <1>5
    DEF DirInv, PhaseInv, MetInv, AnsweredInv, Asking, Reading, Down, Waiting, OnIn, OnOut
  <1>11. UsedInv'
    BY <1>0, <1>1, <1>2, <1>3, <1>4, <1>5 DEF UsedInv
  <1>12. ASSUME Clean, ~Broken' PROVE Clean'
    BY <1>0, <1>1, <1>2, <1>3, <1>4, <1>5, <1>12
    DEF Clean, Broken, DirInv, PhaseInv, MetInv, Asking, Reading, Down, Waiting, OnIn, OnOut
  <1> QED
    BY <1>6, <1>7, <1>8, <1>9, <1>10, <1>11, <1>12 DEF Mine

(* A new request: solver_IN is empty, and nobody works on the old one. *)
LEMMA MineCtlRequest ==
  ASSUME TypeInv, Mine, Usable', CtlRequest
  PROVE  Mine' /\ (Clean /\ ~Broken' => Clean')
  <1>0. /\ DirInv /\ PhaseInv /\ MetInv /\ AskedInv /\ AnsweredInv /\ UsedInv
        /\ path["IN"] \in Inodes \union {Absent} /\ path["OUT"] \in Inodes \union {Absent}
        /\ fd["ctl"] \in Inodes \union {Absent} /\ fd["slv"] \in Inodes \union {Absent}
        /\ Absent \notin Inodes
        /\ fd["ctl"] # Absent <=> pc["ctl"] \in OnIn \union OnOut
        /\ fd["slv"] # Absent <=> pc["slv"] \in OnIn \union OnOut
    BY Scalars DEF Mine
  <1>1. /\ used' = None
        /\ job' = job /\ good' = good
        /\ killed' = killed
        /\ pc["slv"] \notin Down
    BY DEF CtlRequest, svars, Usable, Down
  <1>2. /\ pc["ctl"] = "ready"
        /\ pc'["ctl"] = "openIN"
        /\ pc'["slv"] = pc["slv"]
    BY Goes DEF CtlRequest
  <1>3. /\ path' = path /\ fifo' = fifo /\ data' = data
        /\ fd'["ctl"] = path["IN"] /\ fd'["slv"] = fd["slv"]
        /\ met'["ctl"] <=> fd["slv"] = path["IN"]
        /\ met'["slv"] <=> met["slv"] \/ fd["slv"] = path["IN"]
    <2>1. Open("ctl", "IN") /\ path["IN"] # Absent /\ fifo[path["IN"]]
      BY <1>0, <1>1, <1>2 DEF CtlRequest, DirInv, PhaseInv, Asking, Down, Waiting
    <2> QED
      BY <2>1, Opens, Others
  <1>4. data[path["IN"]] = <<>>
    <2>1. path["IN"] \in Inodes /\ fifo[path["IN"]]
      BY <1>0, <1>1, <1>2 DEF DirInv, PhaseInv, Down, Waiting
    <2>2. CASE data[path["IN"]] # <<>>
      <3>1. fd["ctl"] = path["IN"] \/ fd["slv"] = path["IN"]
        BY <2>1, <2>2, Scalars
      <3> QED
        BY <1>0, <1>1, <1>2, <2>1, <2>2, <3>1
        DEF DirInv, PhaseInv, MetInv, Asking, Down, Waiting, OnIn, OnOut
    <2> QED
      BY <2>2
  <1>5. AllOf(<<>>, req')
    BY DEF AllOf
  <1>6. DirInv'
    BY <1>0, <1>1, <1>2, <1>3, <1>4, <1>5 DEF DirInv, PhaseInv, Down, Waiting, OnIn, OnOut
  <1>7. PhaseInv'
    BY <1>0, <1>1, <1>2, <1>3, <1>4, <1>5
    DEF DirInv, PhaseInv, MetInv, Asking, Reading, Down, Waiting, OnIn, OnOut
  <1>8. MetInv'
    BY <1>0, <1>1, <1>2, <1>3, <1>4, <1>5
    DEF DirInv, PhaseInv, MetInv, Asking, Reading, Down, Waiting, OnIn, OnOut
  <1>9. AskedInv'
    BY <1>0, <1>1, <1>2, <1>3, <1>4, <1>5 DEF DirInv, PhaseInv, AskedInv, Down, Waiting, OnIn, OnOut
  <1>10. AnsweredInv'
    BY <1>0, <1>1, <1>2, <1>3, <1>4, <1>5
    DEF DirInv, PhaseInv, MetInv, AnsweredInv, Asking, Reading, Down, Waiting, OnIn, OnOut
  <1>11. UsedInv'
    BY <1>0, <1>1, <1>2, <1>3, <1>4, <1>5 DEF UsedInv
  <1>12. ASSUME Clean, ~Broken' PROVE Clean'
    BY <1>0, <1>1, <1>2, <1>3, <1>4, <1>5, <1>12
    DEF Clean, Broken, DirInv, PhaseInv, MetInv, Asking, Reading, Down, Waiting, OnIn, OnOut
  <1> QED
    BY <1>6, <1>7, <1>8, <1>9, <1>10, <1>11, <1>12 DEF Mine

(* The controller opens solver_OUT and meets the solver, or waits. *)
LEMMA MineCtlOpenOut ==
  ASSUME TypeInv, Mine, Usable', CtlOpenOut
  PROVE  Mine' /\ (Clean /\ ~Broken' => Clean')
  <1>0. /\ DirInv /\ PhaseInv /\ MetInv /\ AskedInv /\ AnsweredInv /\ UsedInv
        /\ path["IN"] \in Inodes \union {Absent} /\ path["OUT"] \in Inodes \union {Absent}
        /\ fd["ctl"] \in Inodes \union {Absent} /\ fd["slv"] \in Inodes \union {Absent}
        /\ Absent \notin Inodes
        /\ fd["ctl"] # Absent <=> pc["ctl"] \in OnIn \union OnOut
        /\ fd["slv"] # Absent <=> pc["slv"] \in OnIn \union OnOut
    BY Scalars DEF Mine
  <1>1. /\ req' = req /\ answer' = answer /\ used' = used
        /\ job' = job /\ good' = good
        /\ killed' = killed
    BY DEF CtlOpenOut, cvars, svars, hvars
  <1>2. /\ pc["ctl"] = "wait"
        /\ pc'["ctl"] = "openOUT"
        /\ pc'["slv"] = pc["slv"]
    BY Goes DEF CtlOpenOut
  <1>3. /\ path' = path /\ fifo' = fifo /\ data' = data
        /\ fd'["ctl"] = path["OUT"] /\ fd'["slv"] = fd["slv"]
        /\ met'["ctl"] <=> fd["slv"] = path["OUT"]
        /\ met'["slv"] <=> met["slv"] \/ fd["slv"] = path["OUT"]
    <2>1. Open("ctl", "OUT") /\ path["OUT"] # Absent /\ fifo[path["OUT"]]
      BY <1>0, <1>1, <1>2 DEF CtlOpenOut, DirInv, PhaseInv, Asking, Down, Waiting
    <2> QED
      BY <2>1, Opens, Others
  <1>4. No' = No /\ Yes1' = Yes1 /\ Yes2' = Yes2
    BY <1>1, SameContents
  <1>5. DirInv'
    BY <1>0, <1>1, <1>2, <1>3, <1>4 DEF DirInv, PhaseInv, Down, Waiting, OnIn, OnOut
  <1>6. PhaseInv'
    BY <1>0, <1>1, <1>2, <1>3, <1>4
    DEF DirInv, PhaseInv, MetInv, Asking, Reading, Down, Waiting, OnIn, OnOut
  <1>7. MetInv'
    BY <1>0, <1>1, <1>2, <1>3, <1>4
    DEF DirInv, PhaseInv, MetInv, Asking, Reading, Down, Waiting, OnIn, OnOut
  <1>8. AskedInv'
    BY <1>0, <1>1, <1>2, <1>3, <1>4 DEF DirInv, PhaseInv, AskedInv, Down, Waiting, OnIn, OnOut
  <1>9. AnsweredInv'
    BY <1>0, <1>1, <1>2, <1>3, <1>4
    DEF DirInv, PhaseInv, MetInv, AnsweredInv, Asking, Reading, Down, Waiting, OnIn, OnOut
  <1>10. UsedInv'
    BY <1>0, <1>1, <1>2, <1>3, <1>4 DEF UsedInv
  <1>11. ASSUME Clean, ~Broken' PROVE Clean'
    BY <1>0, <1>1, <1>2, <1>3, <1>4, <1>11
    DEF Clean, Broken, DirInv, PhaseInv, MetInv, Asking, Reading, Down, Waiting, OnIn, OnOut
  <1> QED
    BY <1>5, <1>6, <1>7, <1>8, <1>9, <1>10, <1>11 DEF Mine

(* The solver opens solver_IN and meets the controller, or waits. *)
LEMMA MineSlvOpenIn ==
  ASSUME TypeInv, Mine, Usable', SlvOpenIn
  PROVE  Mine' /\ (Clean /\ ~Broken' => Clean')
  <1>0. /\ DirInv /\ PhaseInv /\ MetInv /\ AskedInv /\ AnsweredInv /\ UsedInv
        /\ path["IN"] \in Inodes \union {Absent} /\ path["OUT"] \in Inodes \union {Absent}
        /\ fd["ctl"] \in Inodes \union {Absent} /\ fd["slv"] \in Inodes \union {Absent}
        /\ Absent \notin Inodes
        /\ fd["ctl"] # Absent <=> pc["ctl"] \in OnIn \union OnOut
        /\ fd["slv"] # Absent <=> pc["slv"] \in OnIn \union OnOut
    BY Scalars DEF Mine
  <1>1. /\ req' = req /\ answer' = answer /\ used' = used
        /\ job' = job /\ good' = good
        /\ killed' = killed
    BY DEF SlvOpenIn, cvars, svars, hvars
  <1>2. /\ pc["slv"] = "ready"
        /\ pc'["slv"] = "openIN"
        /\ pc'["ctl"] = pc["ctl"]
    BY Goes DEF SlvOpenIn
  <1>3. /\ path' = path /\ fifo' = fifo /\ data' = data
        /\ fd'["slv"] = path["IN"] /\ fd'["ctl"] = fd["ctl"]
        /\ met'["slv"] <=> fd["ctl"] = path["IN"]
        /\ met'["ctl"] <=> met["ctl"] \/ fd["ctl"] = path["IN"]
    <2>1. Open("slv", "IN") /\ path["IN"] # Absent /\ fifo[path["IN"]]
      BY <1>0, <1>1, <1>2 DEF SlvOpenIn, DirInv, PhaseInv, Asking, Down, Waiting
    <2> QED
      BY <2>1, Opens, Others
  <1>4. No' = No /\ Yes1' = Yes1 /\ Yes2' = Yes2
    BY <1>1, SameContents
  <1>5. fd["ctl"] # path["IN"] => data[path["IN"]] = <<>>
    <2>1. path["IN"] \in Inodes /\ fifo[path["IN"]]
      BY <1>0, <1>2 DEF DirInv, Down
    <2>2. fd["slv"] # path["IN"]
      BY <1>0, <1>2, <2>1 DEF OnIn, OnOut
    <2> QED
      BY <2>1, <2>2, Scalars
  <1>6. DirInv'
    BY <1>0, <1>1, <1>2, <1>3, <1>4, <1>5 DEF DirInv, PhaseInv, Down, Waiting, OnIn, OnOut
  <1>7. PhaseInv'
    BY <1>0, <1>1, <1>2, <1>3, <1>4, <1>5
    DEF DirInv, PhaseInv, MetInv, Asking, Reading, Down, Waiting, OnIn, OnOut
  <1>8. MetInv'
    BY <1>0, <1>1, <1>2, <1>3, <1>4, <1>5
    DEF DirInv, PhaseInv, MetInv, Asking, Reading, Down, Waiting, OnIn, OnOut
  <1>9. AskedInv'
    BY <1>0, <1>1, <1>2, <1>3, <1>4, <1>5 DEF DirInv, PhaseInv, AskedInv, Down, Waiting, OnIn, OnOut
  <1>10. AnsweredInv'
    BY <1>0, <1>1, <1>2, <1>3, <1>4, <1>5
    DEF DirInv, PhaseInv, MetInv, AnsweredInv, Asking, Reading, Down, Waiting, OnIn, OnOut
  <1>11. UsedInv'
    BY <1>0, <1>1, <1>2, <1>3, <1>4, <1>5 DEF UsedInv
  <1>12. ASSUME Clean, ~Broken' PROVE Clean'
    BY <1>0, <1>1, <1>2, <1>3, <1>4, <1>5, <1>12
    DEF Clean, Broken, DirInv, PhaseInv, MetInv, Asking, Reading, Down, Waiting, OnIn, OnOut
  <1> QED
    BY <1>6, <1>7, <1>8, <1>9, <1>10, <1>11, <1>12 DEF Mine

(* The solver opens solver_OUT and meets the controller, or waits. *)
LEMMA MineSlvOpenOut ==
  ASSUME TypeInv, Mine, Usable', SlvOpenOut
  PROVE  Mine' /\ (Clean /\ ~Broken' => Clean')
  <1>0. /\ DirInv /\ PhaseInv /\ MetInv /\ AskedInv /\ AnsweredInv /\ UsedInv
        /\ path["IN"] \in Inodes \union {Absent} /\ path["OUT"] \in Inodes \union {Absent}
        /\ fd["ctl"] \in Inodes \union {Absent} /\ fd["slv"] \in Inodes \union {Absent}
        /\ Absent \notin Inodes
        /\ fd["ctl"] # Absent <=> pc["ctl"] \in OnIn \union OnOut
        /\ fd["slv"] # Absent <=> pc["slv"] \in OnIn \union OnOut
    BY Scalars DEF Mine
  <1>1. /\ req' = req /\ answer' = answer /\ used' = used
        /\ job' = job /\ good' = good
        /\ killed' = killed
    BY DEF SlvOpenOut, cvars, svars, hvars
  <1>2. /\ pc["slv"] = "wait"
        /\ pc'["slv"] = "openOUT"
        /\ pc'["ctl"] = pc["ctl"]
    BY Goes DEF SlvOpenOut
  <1>3. /\ path' = path /\ fifo' = fifo /\ data' = data
        /\ fd'["slv"] = path["OUT"] /\ fd'["ctl"] = fd["ctl"]
        /\ met'["slv"] <=> fd["ctl"] = path["OUT"]
        /\ met'["ctl"] <=> met["ctl"] \/ fd["ctl"] = path["OUT"]
    <2>1. Open("slv", "OUT") /\ path["OUT"] # Absent /\ fifo[path["OUT"]]
      BY <1>0, <1>1, <1>2 DEF SlvOpenOut, DirInv, PhaseInv, Asking, Down, Waiting
    <2> QED
      BY <2>1, Opens, Others
  <1>4. No' = No /\ Yes1' = Yes1 /\ Yes2' = Yes2
    BY <1>1, SameContents
  <1>5. DirInv'
    BY <1>0, <1>1, <1>2, <1>3, <1>4 DEF DirInv, PhaseInv, Down, Waiting, OnIn, OnOut
  <1>6. PhaseInv'
    BY <1>0, <1>1, <1>2, <1>3, <1>4
    DEF DirInv, PhaseInv, MetInv, Asking, Reading, Down, Waiting, OnIn, OnOut
  <1>7. MetInv'
    BY <1>0, <1>1, <1>2, <1>3, <1>4
    DEF DirInv, PhaseInv, MetInv, Asking, Reading, Down, Waiting, OnIn, OnOut
  <1>8. AskedInv'
    BY <1>0, <1>1, <1>2, <1>3, <1>4 DEF DirInv, PhaseInv, AskedInv, Down, Waiting, OnIn, OnOut
  <1>9. AnsweredInv'
    BY <1>0, <1>1, <1>2, <1>3, <1>4
    DEF DirInv, PhaseInv, MetInv, AnsweredInv, Asking, Reading, Down, Waiting, OnIn, OnOut
  <1>10. UsedInv'
    BY <1>0, <1>1, <1>2, <1>3, <1>4 DEF UsedInv
  <1>11. ASSUME Clean, ~Broken' PROVE Clean'
    BY <1>0, <1>1, <1>2, <1>3, <1>4, <1>11
    DEF Clean, Broken, DirInv, PhaseInv, MetInv, Asking, Reading, Down, Waiting, OnIn, OnOut
  <1> QED
    BY <1>5, <1>6, <1>7, <1>8, <1>9, <1>10, <1>11 DEF Mine

(* The controller writes a part of this request. *)
LEMMA MineCtlWrite ==
  ASSUME TypeInv, Mine, Usable', CtlWrite
  PROVE  Mine' /\ (Clean /\ ~Broken' => Clean')
  <1>0. /\ DirInv /\ PhaseInv /\ MetInv /\ AskedInv /\ AnsweredInv /\ UsedInv
        /\ path["IN"] \in Inodes \union {Absent} /\ path["OUT"] \in Inodes \union {Absent}
        /\ fd["ctl"] \in Inodes \union {Absent} /\ fd["slv"] \in Inodes \union {Absent}
        /\ Absent \notin Inodes
        /\ fd["ctl"] # Absent <=> pc["ctl"] \in OnIn \union OnOut
        /\ fd["slv"] # Absent <=> pc["slv"] \in OnIn \union OnOut
    BY Scalars DEF Mine
  <1>1. /\ path' = path /\ fifo' = fifo
        /\ fd' = fd /\ met' = met
        /\ req' = req /\ answer' = answer /\ used' = used
        /\ job' = job /\ good' = good
        /\ killed' = killed
    BY DEF CtlWrite, cvars, svars, hvars
  <1>2. /\ \/ pc["ctl"] = "mode" /\ pc'["ctl"] = "rest"
           \/ pc["ctl"] = "rest" /\ pc'["ctl"] = "closeIN"
        /\ pc'["slv"] = pc["slv"]
    BY Goes DEF CtlWrite
  <1>3. /\ data[fd["ctl"]] \in Seq(Part)
        /\ fd["slv"] = fd["ctl"] =>
              data'[fd["ctl"]] = Append(data[fd["ctl"]], [id |-> req, ok |-> TRUE])
        /\ fd["slv"] # fd["ctl"] => data' = data
        /\ \A i \in Inodes : i # fd["ctl"] => data'[i] = data[i]
    <2>1. /\ Write("ctl", [id |-> req, ok |-> TRUE])
          /\ fd["ctl"] # Absent /\ fifo[fd["ctl"]]
      BY <1>0, <1>2 DEF CtlWrite, DirInv, OnIn
    <2> QED
      BY <2>1, Writes, Others
  <1>4. No' = No /\ Yes1' = Yes1 /\ Yes2' = Yes2
    BY <1>1, SameContents
  <1>5. AllOf(data[fd["ctl"]], req) => AllOf(Append(data[fd["ctl"]], [id |-> req, ok |-> TRUE]), req)
    <2> DEFINE b == [id |-> req, ok |-> TRUE]
    <2>1. b \in Part /\ b.id = req
      BY DEF TypeInv, TypeOK, Part
    <2> HIDE DEF b
    <2>2. AllOf(data[fd["ctl"]], req) => AllOf(Append(data[fd["ctl"]], b), req)
      BY <1>3, <2>1, AllOfs
    <2> QED
      BY <2>2 DEF b
  <1>6. /\ Len(data[fd["ctl"]]) \in Nat
        /\ Len(Append(data[fd["ctl"]], [id |-> req, ok |-> TRUE])) = Len(data[fd["ctl"]]) + 1
    BY <1>3
  <1>7. DirInv'
    BY <1>0, <1>1, <1>2, <1>3, <1>4, <1>5, <1>6 DEF DirInv, PhaseInv, Down, Waiting, OnIn, OnOut
  <1>8. PhaseInv'
    BY <1>0, <1>1, <1>2, <1>3, <1>4, <1>5, <1>6
    DEF DirInv, PhaseInv, MetInv, Asking, Reading, Down, Waiting, OnIn, OnOut
  <1>9. MetInv'
    BY <1>0, <1>1, <1>2, <1>3, <1>4, <1>5, <1>6
    DEF DirInv, PhaseInv, MetInv, Asking, Reading, Down, Waiting, OnIn, OnOut
  <1>10. AskedInv'
    BY <1>0, <1>1, <1>2, <1>3, <1>4, <1>5, <1>6
    DEF DirInv, PhaseInv, AskedInv, Down, Waiting, OnIn, OnOut
  <1>11. AnsweredInv'
    BY <1>0, <1>1, <1>2, <1>3, <1>4, <1>5, <1>6
    DEF DirInv, PhaseInv, MetInv, AnsweredInv, Asking, Reading, Down, Waiting, OnIn, OnOut
  <1>12. UsedInv'
    BY <1>0, <1>1, <1>2, <1>3, <1>4, <1>5, <1>6 DEF UsedInv
  <1>13. ASSUME Clean, ~Broken' PROVE Clean'
    <2>1. /\ fd["ctl"] = path["IN"] /\ path["IN"] # Absent
          /\ pc["slv"] \in OnIn => fd["slv"] = path["IN"]
      BY <1>0, <1>2, <1>13 DEF Clean, DirInv, OnIn, OnOut
    <2> DEFINE m == Len(data[path["IN"]])
               n == Len(data'[path["IN"]])
    <2>2. pc["slv"] \in OnIn => n = m + 1
      BY <1>3, <1>6, <2>1
    <2>3. pc["slv"] = "mode" \/ (pc["slv"] = "openIN" /\ met["slv"]) =>
            /\ pc["ctl"] = "mode" => n = 1
            /\ pc["ctl"] = "rest" => n = 2
      <3>1. pc["slv"] = "mode" \/ (pc["slv"] = "openIN" /\ met["slv"]) =>
              /\ pc["ctl"] = "mode" => m = 0
              /\ pc["ctl"] = "rest" => m = 1
        BY <1>13 DEF Clean
      <3>2. pc["slv"] = "mode" \/ pc["slv"] = "openIN" => pc["slv"] \in OnIn
        BY DEF OnIn
      <3> HIDE DEF m, n
      <3> QED
        BY <2>2, <3>1, <3>2
    <2>4. pc["slv"] = "rest" => pc["ctl"] = "rest" /\ n = 1
      <3>1. pc["slv"] = "rest" => pc["ctl"] = "rest" /\ m = 0
        BY <1>2, <1>13 DEF Clean
      <3>2. pc["slv"] = "rest" => pc["slv"] \in OnIn
        BY DEF OnIn
      <3> HIDE DEF m, n
      <3> QED
        BY <2>2, <3>1, <3>2
    <2> QED
      BY <1>0, <1>1, <1>2, <1>13, <2>1, <2>3, <2>4
      DEF Clean, PhaseInv, Asking, Down, Waiting, OnIn, OnOut
  <1> QED
    BY <1>7, <1>8, <1>9, <1>10, <1>11, <1>12, <1>13 DEF Mine

(* The solver reads a part of this request. *)
LEMMA MineSlvRead ==
  ASSUME TypeInv, Mine, Usable', SlvRead
  PROVE  Mine' /\ (Clean /\ ~Broken' => Clean')
  <1>0. /\ DirInv /\ PhaseInv /\ MetInv /\ AskedInv /\ AnsweredInv /\ UsedInv
        /\ path["IN"] \in Inodes \union {Absent} /\ path["OUT"] \in Inodes \union {Absent}
        /\ fd["ctl"] \in Inodes \union {Absent} /\ fd["slv"] \in Inodes \union {Absent}
        /\ Absent \notin Inodes
        /\ fd["ctl"] # Absent <=> pc["ctl"] \in OnIn \union OnOut
        /\ fd["slv"] # Absent <=> pc["slv"] \in OnIn \union OnOut
    BY Scalars DEF Mine
  <1>1. /\ path' = path /\ fifo' = fifo
        /\ fd' = fd /\ met' = met
        /\ req' = req /\ answer' = answer /\ used' = used
        /\ good' = good
        /\ killed' = killed
    BY DEF SlvRead, cvars
  <1>2. /\ \/ pc["slv"] = "mode" /\ pc'["slv"] = "rest"
           \/ pc["slv"] = "rest" /\ pc'["slv"] = "closeIN"
        /\ pc'["ctl"] = pc["ctl"]
    BY Goes DEF SlvRead
  <1>3. fd["slv"] = path["IN"] /\ path["IN"] \in Inodes /\ fifo[path["IN"]]
    BY <1>0, <1>2 DEF DirInv, Down, OnIn
  <1>4. /\ HasData("slv") /\ Consume("slv")
        /\ \/ job' = NextPart("slv").id
           \/ pc["slv"] = "rest" /\ NextPart("slv").id # job
    BY DEF SlvRead, Usable
  <1>5. /\ data[path["IN"]] \in Seq(Part) /\ data[path["IN"]] # <<>>
        /\ NextPart("slv") = data[path["IN"]][1] /\ data'[path["IN"]] = Tail(data[path["IN"]])
        /\ \A i \in Inodes : i # path["IN"] => data'[i] = data[i]
    <2>1. fd["slv"] # Absent /\ fifo[fd["slv"]]
      BY <1>0, <1>3
    <2>2. /\ data[fd["slv"]] \in Seq(Part) /\ data[fd["slv"]] # <<>>
          /\ NextPart("slv") = data[fd["slv"]][1] /\ data'[fd["slv"]] = Tail(data[fd["slv"]])
          /\ \A i \in Inodes : i # fd["slv"] => data'[i] = data[i]
      BY <1>4, <2>1, Reads, Others
    <2> QED
      BY <1>3, <2>2
  <1>6. No' = No /\ Yes1' = Yes1 /\ Yes2' = Yes2
    BY <1>1, SameContents
  <1>7. /\ AllOf(Tail(data[path["IN"]]), req)
        /\ NextPart("slv").id = req
    <2>1. AllOf(data[path["IN"]], req)
      BY <1>0, <1>3 DEF AskedInv
    <2> QED
      BY <1>5, <2>1, AllOfs
  <1>8. DirInv'
    BY <1>0, <1>1, <1>2, <1>3, <1>4, <1>5, <1>6, <1>7
    DEF DirInv, PhaseInv, Down, Waiting, OnIn, OnOut
  <1>9. PhaseInv'
    BY <1>0, <1>1, <1>2, <1>3, <1>4, <1>5, <1>6, <1>7
    DEF DirInv, PhaseInv, MetInv, Asking, Reading, Down, Waiting, OnIn, OnOut
  <1>10. MetInv'
    BY <1>0, <1>1, <1>2, <1>3, <1>4, <1>5, <1>6, <1>7
    DEF DirInv, PhaseInv, MetInv, Asking, Reading, Down, Waiting, OnIn, OnOut
  <1>11. AskedInv'
    BY <1>0, <1>1, <1>2, <1>3, <1>4, <1>5, <1>6, <1>7
    DEF DirInv, PhaseInv, AskedInv, Down, Waiting, OnIn, OnOut
  <1>12. AnsweredInv'
    BY <1>0, <1>1, <1>2, <1>3, <1>4, <1>5, <1>6, <1>7
    DEF DirInv, PhaseInv, MetInv, AnsweredInv, Asking, Reading, Down, Waiting, OnIn, OnOut
  <1>13. UsedInv'
    BY <1>0, <1>1, <1>2, <1>3, <1>4, <1>5, <1>6, <1>7 DEF UsedInv
  <1>14. ASSUME Clean, ~Broken' PROVE Clean'
    BY <1>0, <1>1, <1>2, <1>3, <1>4, <1>5, <1>6, <1>7, <1>14
    DEF Clean, Broken, DirInv, PhaseInv, MetInv, Asking, Reading, Down, Waiting, OnIn, OnOut
  <1> QED
    BY <1>8, <1>9, <1>10, <1>11, <1>12, <1>13, <1>14 DEF Mine

(* The controller reads the value, and what is left is the rest of it. *)
LEMMA MineCtlReadValue ==
  ASSUME TypeInv, Mine, Usable', CtlReadValue
  PROVE  Mine' /\ (Clean /\ ~Broken' => Clean')
  <1>0. /\ DirInv /\ PhaseInv /\ MetInv /\ AskedInv /\ AnsweredInv /\ UsedInv
        /\ path["IN"] \in Inodes \union {Absent} /\ path["OUT"] \in Inodes \union {Absent}
        /\ fd["ctl"] \in Inodes \union {Absent} /\ fd["slv"] \in Inodes \union {Absent}
        /\ Absent \notin Inodes
        /\ fd["ctl"] # Absent <=> pc["ctl"] \in OnIn \union OnOut
        /\ fd["slv"] # Absent <=> pc["slv"] \in OnIn \union OnOut
    BY Scalars DEF Mine
  <1>1. /\ path' = path /\ fifo' = fifo
        /\ fd' = fd /\ met' = met
        /\ req' = req /\ used' = used
        /\ job' = job /\ good' = good
        /\ killed' = killed
    BY DEF CtlReadValue, svars, hvars
  <1>2. /\ pc["ctl"] = "value"
        /\ pc'["ctl"] \in {"answer", "closeOUT"} /\ pc'["slv"] = pc["slv"]
        /\ HasData("ctl") => (pc'["ctl"] = "answer" <=> NextPart("ctl").ok)
        /\ HasData("ctl") => answer' = NextPart("ctl").id
    BY Goes DEF CtlReadValue, AtEnd
  <1>3. /\ fd["ctl"] = path["OUT"] /\ path["OUT"] \in Inodes /\ fifo[path["OUT"]]
        /\ pc["ctl"] \notin Down
    BY <1>0, <1>2 DEF DirInv, Down, OnOut
  <1>4. /\ \/ /\ HasData("ctl") /\ Consume("ctl") /\ data[path["OUT"]] # <<>>
              /\ NextPart("ctl") = data[path["OUT"]][1] /\ data'[path["OUT"]] = Tail(data[path["OUT"]])
           \/ /\ AtEnd("ctl") /\ data' = data /\ data[path["OUT"]] = <<>> /\ fd["slv"] # path["OUT"]
        /\ \A i \in Inodes : i # path["OUT"] => data'[i] = data[i]
    <2>1. "ctl" \in Procs /\ fd["ctl"] # Absent /\ fifo[fd["ctl"]] /\ Other("ctl") = "slv"
      BY <1>0, <1>3, Others
    <2>2. CASE HasData("ctl") /\ Consume("ctl")
      <3>1. /\ data[fd["ctl"]] # <<>>
            /\ NextPart("ctl") = data[fd["ctl"]][1] /\ data'[fd["ctl"]] = Tail(data[fd["ctl"]])
            /\ \A i \in Inodes : i # fd["ctl"] => data'[i] = data[i]
        BY <2>1, <2>2, Reads
      <3> QED
        BY <1>3, <2>2, <3>1
    <2>3. CASE AtEnd("ctl") /\ data' = data
      <3>1. data[fd["ctl"]] = <<>> /\ fd["slv"] # fd["ctl"]
        BY <2>1, <2>3, Ends
      <3> QED
        BY <1>3, <2>3, <3>1
    <2> QED
      BY <2>2, <2>3 DEF CtlReadValue
  <1>5. No' = No /\ Yes1' = Yes1 /\ Yes2' = Yes2
    BY <1>1, SameContents
  <1>6. /\ No # <<>> /\ Yes1 # <<>> /\ Yes2 # <<>>
        /\ No[1].id = req /\ Yes1[1].id = req /\ Yes2[1].id = req
        /\ ~No[1].ok /\ Yes1[1].ok /\ Yes2[1].ok
        /\ Tail(No) = <<>> /\ Tail(Yes1) = <<>> /\ Tail(Yes2) = Yes1
    BY Contents
  <1>7. /\ pc["slv"] \in {"openOUT", "value"} => data[path["OUT"]] = <<>>
        /\ pc["slv"] = "answer" => data[path["OUT"]] = Yes1
        /\ pc["slv"] = "closeOUT" => data[path["OUT"]] \in {No, Yes2}
        /\ pc["slv"] \in Waiting => \/ data[path["OUT"]] \in {No, Yes2}
                                    \/ "slv" \in killed /\ data[path["OUT"]] \in {<<>>, Yes1}
        /\ pc["slv"] \in Waiting \union OnOut
        /\ pc["slv"] \in OnOut => fd["slv"] = path["OUT"]
    <2>1. Reading
      BY <1>2 DEF Reading
    <2>2. pc["slv"] \in Waiting \union OnOut
      BY <1>0, <2>1 DEF PhaseInv
    <2>3. pc["slv"] \in OnOut => fd["slv"] = path["OUT"]
      BY <1>0 DEF DirInv
    <2>4. /\ pc["slv"] \in {"openOUT", "value"} => data[path["OUT"]] = <<>>
          /\ pc["slv"] = "answer" => data[path["OUT"]] = Yes1
          /\ pc["slv"] = "closeOUT" => data[path["OUT"]] \in {No, Yes2}
          /\ pc["slv"] \in Waiting => \/ data[path["OUT"]] \in {No, Yes2}
                                      \/ "slv" \in killed /\ data[path["OUT"]] \in {<<>>, Yes1}
      BY <1>0, <1>3, <2>1 DEF AnsweredInv
    <2> QED
      BY <2>2, <2>3, <2>4
  <1>8. \/ /\ pc'["ctl"] = "answer" /\ answer' = req /\ pc["slv"] = "answer" /\ data'[path["OUT"]] = <<>>
           \/ /\ pc'["ctl"] = "answer" /\ answer' = req /\ pc["slv"] \in Waiting \union {"closeOUT"}
              /\ data'[path["OUT"]] = Yes1
           \/ /\ pc'["ctl"] = "answer" /\ pc["slv"] \in Waiting /\ "slv" \in killed
              /\ data'[path["OUT"]] = <<>>
           \/ /\ pc'["ctl"] = "closeOUT" /\ pc["slv"] \in Waiting \union {"closeOUT"}
              /\ data'[path["OUT"]] = <<>>
    <2>1. CASE data[path["OUT"]] # <<>>
      <3>1. HasData("ctl") /\ data[path["OUT"]] \in {No, Yes1, Yes2}
        BY <1>4, <1>7, <2>1 DEF OnOut
      <3>2. CASE data[path["OUT"]] = No
        <4>1. pc'["ctl"] = "closeOUT" /\ data'[path["OUT"]] = <<>>
          BY <1>2, <1>4, <1>6, <3>1, <3>2
        <4>2. No # Yes1
          BY <1>6
        <4> QED
          BY <1>6, <1>7, <3>2, <4>1, <4>2 DEF Waiting, OnOut
      <3>3. CASE data[path["OUT"]] = Yes1
        <4>1. pc'["ctl"] = "answer" /\ answer' = req /\ data'[path["OUT"]] = <<>>
          BY <1>2, <1>4, <1>6, <3>1, <3>3
        <4>2. No # Yes1 /\ Yes1 # Yes2
          BY <1>6
        <4> QED
          BY <1>6, <1>7, <3>3, <4>1, <4>2 DEF Waiting, OnOut
      <3>4. CASE data[path["OUT"]] = Yes2
        <4>1. pc'["ctl"] = "answer" /\ answer' = req /\ data'[path["OUT"]] = Yes1
          BY <1>2, <1>4, <1>6, <3>1, <3>4
        <4>2. Yes1 # Yes2
          BY <1>6
        <4> QED
          BY <1>6, <1>7, <3>4, <4>1, <4>2 DEF Waiting, OnOut
      <3> QED
        BY <3>1, <3>2, <3>3, <3>4
    <2>2. CASE data[path["OUT"]] = <<>>
      BY <1>2, <1>4, <1>6, <1>7, <2>2 DEF Waiting, OnOut
    <2> QED
      BY <2>1, <2>2
  <1>9. DirInv'
    BY <1>0, <1>1, <1>2, <1>3, <1>4, <1>5, <1>6, <1>7, <1>8
    DEF DirInv, PhaseInv, Down, Waiting, OnIn, OnOut
  <1>10. PhaseInv'
    BY <1>0, <1>1, <1>2, <1>3, <1>4, <1>5, <1>6, <1>7, <1>8
    DEF DirInv, PhaseInv, MetInv, Asking, Reading, Down, Waiting, OnIn, OnOut
  <1>11. MetInv'
    BY <1>0, <1>1, <1>2, <1>3, <1>4, <1>5, <1>6, <1>7, <1>8
    DEF DirInv, PhaseInv, MetInv, Asking, Reading, Down, Waiting, OnIn, OnOut
  <1>12. AskedInv'
    BY <1>0, <1>1, <1>2, <1>3, <1>4, <1>5, <1>6, <1>7, <1>8
    DEF DirInv, PhaseInv, AskedInv, Down, Waiting, OnIn, OnOut
  <1>13. AnsweredInv'
    BY <1>1, <1>2, <1>5, <1>8 DEF AnsweredInv, Reading, Down, Waiting
  <1>14. UsedInv'
    BY <1>0, <1>1, <1>2, <1>3, <1>4, <1>5, <1>6, <1>7, <1>8 DEF UsedInv
  <1>15. ASSUME Clean, ~Broken' PROVE Clean'
    BY <1>0, <1>1, <1>2, <1>3, <1>4, <1>5, <1>6, <1>7, <1>8, <1>15
    DEF Clean, Broken, DirInv, PhaseInv, MetInv, Asking, Reading, Down, Waiting, OnIn, OnOut
  <1> QED
    BY <1>9, <1>10, <1>11, <1>12, <1>13, <1>14, <1>15 DEF Mine

(* The controller reads the rest and applies it. *)
LEMMA MineCtlReadAnswer ==
  ASSUME TypeInv, Mine, Usable', CtlReadAnswer
  PROVE  Mine' /\ (Clean /\ ~Broken' => Clean')
  <1>0. /\ DirInv /\ PhaseInv /\ MetInv /\ AskedInv /\ AnsweredInv /\ UsedInv
        /\ path["IN"] \in Inodes \union {Absent} /\ path["OUT"] \in Inodes \union {Absent}
        /\ fd["ctl"] \in Inodes \union {Absent} /\ fd["slv"] \in Inodes \union {Absent}
        /\ Absent \notin Inodes
        /\ fd["ctl"] # Absent <=> pc["ctl"] \in OnIn \union OnOut
        /\ fd["slv"] # Absent <=> pc["slv"] \in OnIn \union OnOut
    BY Scalars DEF Mine
  <1>1. /\ path' = path /\ fifo' = fifo
        /\ fd' = fd /\ met' = met
        /\ req' = req /\ answer' = answer
        /\ job' = job /\ good' = good
        /\ killed' = killed
    BY DEF CtlReadAnswer, svars, hvars
  <1>2. /\ pc["ctl"] = "answer"
        /\ pc'["ctl"] = "closeOUT" /\ pc'["slv"] = pc["slv"]
        /\ HasData("ctl") => used' = IF NextPart("ctl").id = answer THEN answer ELSE Bad
        /\ AtEnd("ctl") => used' = Bad
    BY Goes DEF CtlReadAnswer, AtEnd
  <1>3. /\ fd["ctl"] = path["OUT"] /\ path["OUT"] \in Inodes /\ fifo[path["OUT"]]
        /\ pc["ctl"] \notin Down
    BY <1>0, <1>2 DEF DirInv, Down, OnOut
  <1>4. /\ \/ /\ HasData("ctl") /\ Consume("ctl") /\ data[path["OUT"]] # <<>>
              /\ NextPart("ctl") = data[path["OUT"]][1] /\ data'[path["OUT"]] = Tail(data[path["OUT"]])
           \/ /\ AtEnd("ctl") /\ data' = data /\ data[path["OUT"]] = <<>> /\ fd["slv"] # path["OUT"]
        /\ \A i \in Inodes : i # path["OUT"] => data'[i] = data[i]
    <2>1. "ctl" \in Procs /\ fd["ctl"] # Absent /\ fifo[fd["ctl"]] /\ Other("ctl") = "slv"
      BY <1>0, <1>3, Others
    <2>2. CASE HasData("ctl") /\ Consume("ctl")
      <3>1. /\ data[fd["ctl"]] # <<>>
            /\ NextPart("ctl") = data[fd["ctl"]][1] /\ data'[fd["ctl"]] = Tail(data[fd["ctl"]])
            /\ \A i \in Inodes : i # fd["ctl"] => data'[i] = data[i]
        BY <2>1, <2>2, Reads
      <3> QED
        BY <1>3, <2>2, <3>1
    <2>3. CASE AtEnd("ctl") /\ data' = data
      <3>1. data[fd["ctl"]] = <<>> /\ fd["slv"] # fd["ctl"]
        BY <2>1, <2>3, Ends
      <3> QED
        BY <1>3, <2>3, <3>1
    <2> QED
      BY <2>2, <2>3 DEF CtlReadAnswer
  <1>5. No' = No /\ Yes1' = Yes1 /\ Yes2' = Yes2
    BY <1>1, SameContents
  <1>6. /\ No # <<>> /\ Yes1 # <<>> /\ Yes2 # <<>>
        /\ No[1].id = req /\ Yes1[1].id = req /\ Yes2[1].id = req
        /\ ~No[1].ok /\ Yes1[1].ok /\ Yes2[1].ok
        /\ Tail(No) = <<>> /\ Tail(Yes1) = <<>> /\ Tail(Yes2) = Yes1
    BY Contents
  <1>7. DirInv'
    BY <1>0, <1>1, <1>2, <1>3, <1>4, <1>5, <1>6 DEF DirInv, PhaseInv, Down, Waiting, OnIn, OnOut
  <1>8. PhaseInv'
    BY <1>0, <1>1, <1>2, <1>3, <1>4, <1>5, <1>6
    DEF DirInv, PhaseInv, MetInv, Asking, Reading, Down, Waiting, OnIn, OnOut, AnsweredInv
  <1>9. MetInv'
    BY <1>0, <1>1, <1>2, <1>3, <1>4, <1>5, <1>6
    DEF DirInv, PhaseInv, MetInv, Asking, Reading, Down, Waiting, OnIn, OnOut
  <1>10. AskedInv'
    BY <1>0, <1>1, <1>2, <1>3, <1>4, <1>5, <1>6
    DEF DirInv, PhaseInv, AskedInv, Down, Waiting, OnIn, OnOut
  <1>11. AnsweredInv'
    BY <1>0, <1>1, <1>2, <1>3, <1>4, <1>5, <1>6
    DEF DirInv, PhaseInv, MetInv, AnsweredInv, Asking, Reading, Down, Waiting, OnIn, OnOut
  <1>12. UsedInv'
    BY <1>0, <1>1, <1>2, <1>3, <1>4, <1>5, <1>6
    DEF UsedInv, AnsweredInv, PhaseInv, DirInv, Waiting, OnOut
  <1>13. ASSUME Clean, ~Broken' PROVE Clean'
    BY <1>0, <1>1, <1>2, <1>3, <1>4, <1>5, <1>6, <1>13
    DEF Clean, Broken, DirInv, PhaseInv, MetInv, Asking, Reading, Down, Waiting, OnIn, OnOut
  <1> QED
    BY <1>7, <1>8, <1>9, <1>10, <1>11, <1>12, <1>13 DEF Mine

(* The solver writes the value into an empty pipe. *)
LEMMA MineSlvWriteValue ==
  ASSUME TypeInv, Mine, Usable', SlvWriteValue
  PROVE  Mine' /\ (Clean /\ ~Broken' => Clean')
  <1>0. /\ DirInv /\ PhaseInv /\ MetInv /\ AskedInv /\ AnsweredInv /\ UsedInv
        /\ path["IN"] \in Inodes \union {Absent} /\ path["OUT"] \in Inodes \union {Absent}
        /\ fd["ctl"] \in Inodes \union {Absent} /\ fd["slv"] \in Inodes \union {Absent}
        /\ Absent \notin Inodes
        /\ fd["ctl"] # Absent <=> pc["ctl"] \in OnIn \union OnOut
        /\ fd["slv"] # Absent <=> pc["slv"] \in OnIn \union OnOut
    BY Scalars DEF Mine
  <1>1. /\ path' = path /\ fifo' = fifo
        /\ fd' = fd /\ met' = met
        /\ req' = req /\ answer' = answer /\ used' = used
        /\ job' = job /\ good' = good
        /\ killed' = killed
    BY DEF SlvWriteValue, cvars, svars, hvars
  <1>2. /\ pc["slv"] = "value"
        /\ pc'["slv"] = (IF good THEN "answer" ELSE "closeOUT") /\ pc'["ctl"] = pc["ctl"]
    BY Goes DEF SlvWriteValue
  <1>3. /\ fd["slv"] = path["OUT"] /\ fd["ctl"] = path["OUT"]
        /\ path["OUT"] \in Inodes /\ fifo[path["OUT"]]
        /\ Reading \/ pc["ctl"] = "answer"
    <2>1. pc["ctl"] \in Labels
      BY Scalars
    <2> QED
      BY <1>0, <1>2, <2>1
      DEF DirInv, PhaseInv, MetInv, Asking, Reading, Down, Waiting, OnIn, OnOut, Labels
  <1>4. /\ data'[path["OUT"]] = Append(data[path["OUT"]], [id |-> job, ok |-> good])
        /\ \A i \in Inodes : i # path["OUT"] => data'[i] = data[i]
    <2>1. Write("slv", [id |-> job, ok |-> good]) /\ fd["slv"] # Absent /\ fifo[fd["slv"]]
      BY <1>0, <1>3 DEF SlvWriteValue
    <2>2. /\ fd[Other("slv")] = fd["slv"] => data'[fd["slv"]] = Append(data[fd["slv"]], [id |-> job, ok |-> good])
          /\ \A i \in Inodes : i # fd["slv"] => data'[i] = data[i]
      BY <2>1, Writes, Others
    <2> QED
      BY <1>3, <2>2, Others
  <1>5. No' = No /\ Yes1' = Yes1 /\ Yes2' = Yes2
    BY <1>1, SameContents
  <1>6. /\ Append(<<>>, [id |-> req, ok |-> FALSE]) = No
        /\ Append(<<>>, [id |-> req, ok |-> TRUE]) = Yes1
        /\ Append(Yes1, [id |-> req, ok |-> TRUE]) = Yes2
    BY Contents
  <1>7. data'[path["OUT"]] = (IF good THEN Yes1 ELSE No)
    <2>1. job = req /\ Reading /\ data[path["OUT"]] = <<>> /\ good \in BOOLEAN
      BY <1>0, <1>2, <1>3
      DEF AskedInv, AnsweredInv, PhaseInv, Reading, Down, Waiting, TypeInv, TypeOK
    <2>2. CASE good = TRUE
      BY <1>4, <1>6, <2>1, <2>2
    <2>3. CASE good = FALSE
      BY <1>4, <1>6, <2>1, <2>3
    <2> QED
      BY <2>1, <2>2, <2>3
  <1>8. DirInv'
    BY <1>0, <1>1, <1>2, <1>3, <1>4, <1>5, <1>6, <1>7
    DEF DirInv, PhaseInv, Down, Waiting, OnIn, OnOut
  <1>9. PhaseInv'
    BY <1>0, <1>1, <1>2, <1>3, <1>4, <1>5, <1>6, <1>7
    DEF DirInv, PhaseInv, MetInv, Asking, Reading, Down, Waiting, OnIn, OnOut
  <1>10. MetInv'
    BY <1>0, <1>1, <1>2, <1>3, <1>4, <1>5, <1>6, <1>7
    DEF DirInv, PhaseInv, MetInv, Asking, Reading, Down, Waiting, OnIn, OnOut
  <1>11. AskedInv'
    BY <1>0, <1>1, <1>2, <1>3, <1>4, <1>5, <1>6, <1>7
    DEF DirInv, PhaseInv, AskedInv, Down, Waiting, OnIn, OnOut
  <1>12. AnsweredInv'
    BY <1>0, <1>1, <1>2, <1>3, <1>4, <1>5, <1>6, <1>7
    DEF DirInv, PhaseInv, MetInv, AnsweredInv, Asking, Reading, Down, Waiting, OnIn, OnOut
  <1>13. UsedInv'
    BY <1>0, <1>1, <1>2, <1>3, <1>4, <1>5, <1>6, <1>7 DEF UsedInv
  <1>14. ASSUME Clean, ~Broken' PROVE Clean'
    BY <1>0, <1>1, <1>2, <1>3, <1>4, <1>5, <1>6, <1>7, <1>14
    DEF Clean, Broken, DirInv, PhaseInv, MetInv, Asking, Reading, Down, Waiting, OnIn, OnOut
  <1> QED
    BY <1>8, <1>9, <1>10, <1>11, <1>12, <1>13, <1>14 DEF Mine

(* The solver writes the rest, before or after the value was read. *)
LEMMA MineSlvWriteAnswer ==
  ASSUME TypeInv, Mine, Usable', SlvWriteAnswer
  PROVE  Mine' /\ (Clean /\ ~Broken' => Clean')
  <1>0. /\ DirInv /\ PhaseInv /\ MetInv /\ AskedInv /\ AnsweredInv /\ UsedInv
        /\ path["IN"] \in Inodes \union {Absent} /\ path["OUT"] \in Inodes \union {Absent}
        /\ fd["ctl"] \in Inodes \union {Absent} /\ fd["slv"] \in Inodes \union {Absent}
        /\ Absent \notin Inodes
        /\ fd["ctl"] # Absent <=> pc["ctl"] \in OnIn \union OnOut
        /\ fd["slv"] # Absent <=> pc["slv"] \in OnIn \union OnOut
    BY Scalars DEF Mine
  <1>1. /\ path' = path /\ fifo' = fifo
        /\ fd' = fd /\ met' = met
        /\ req' = req /\ answer' = answer /\ used' = used
        /\ job' = job /\ good' = good
        /\ killed' = killed
    BY DEF SlvWriteAnswer, cvars, svars, hvars
  <1>2. /\ pc["slv"] = "answer"
        /\ pc'["slv"] = "closeOUT" /\ pc'["ctl"] = pc["ctl"]
    BY Goes DEF SlvWriteAnswer
  <1>3. /\ fd["slv"] = path["OUT"] /\ fd["ctl"] = path["OUT"]
        /\ path["OUT"] \in Inodes /\ fifo[path["OUT"]]
        /\ Reading \/ pc["ctl"] = "answer"
    <2>1. pc["ctl"] \in Labels
      BY Scalars
    <2> QED
      BY <1>0, <1>2, <2>1
      DEF DirInv, PhaseInv, MetInv, Asking, Reading, Down, Waiting, OnIn, OnOut, Labels
  <1>4. /\ data'[path["OUT"]] = Append(data[path["OUT"]], [id |-> job, ok |-> TRUE])
        /\ \A i \in Inodes : i # path["OUT"] => data'[i] = data[i]
    <2>1. Write("slv", [id |-> job, ok |-> TRUE]) /\ fd["slv"] # Absent /\ fifo[fd["slv"]]
      BY <1>0, <1>3 DEF SlvWriteAnswer
    <2>2. /\ fd[Other("slv")] = fd["slv"] => data'[fd["slv"]] = Append(data[fd["slv"]], [id |-> job, ok |-> TRUE])
          /\ \A i \in Inodes : i # fd["slv"] => data'[i] = data[i]
      BY <2>1, Writes, Others
    <2> QED
      BY <1>3, <2>2, Others
  <1>5. No' = No /\ Yes1' = Yes1 /\ Yes2' = Yes2
    BY <1>1, SameContents
  <1>6. /\ Append(<<>>, [id |-> req, ok |-> FALSE]) = No
        /\ Append(<<>>, [id |-> req, ok |-> TRUE]) = Yes1
        /\ Append(Yes1, [id |-> req, ok |-> TRUE]) = Yes2
    BY Contents
  <1>7. job = req
    BY <1>0, <1>2 DEF AskedInv
  <1>8. DirInv'
    BY <1>0, <1>1, <1>2, <1>3, <1>4, <1>5, <1>6, <1>7
    DEF DirInv, PhaseInv, Down, Waiting, OnIn, OnOut
  <1>9. PhaseInv'
    BY <1>0, <1>1, <1>2, <1>3, <1>4, <1>5, <1>6, <1>7
    DEF DirInv, PhaseInv, MetInv, Asking, Reading, Down, Waiting, OnIn, OnOut
  <1>10. MetInv'
    BY <1>0, <1>1, <1>2, <1>3, <1>4, <1>5, <1>6, <1>7
    DEF DirInv, PhaseInv, MetInv, Asking, Reading, Down, Waiting, OnIn, OnOut
  <1>11. AskedInv'
    BY <1>0, <1>1, <1>2, <1>3, <1>4, <1>5, <1>6, <1>7
    DEF DirInv, PhaseInv, AskedInv, Down, Waiting, OnIn, OnOut
  <1>12. AnsweredInv'
    BY <1>0, <1>1, <1>2, <1>3, <1>4, <1>5, <1>6, <1>7
    DEF DirInv, PhaseInv, MetInv, AnsweredInv, Asking, Reading, Down, Waiting, OnIn, OnOut
  <1>13. UsedInv'
    BY <1>0, <1>1, <1>2, <1>3, <1>4, <1>5, <1>6, <1>7 DEF UsedInv
  <1>14. ASSUME Clean, ~Broken' PROVE Clean'
    BY <1>0, <1>1, <1>2, <1>3, <1>4, <1>5, <1>6, <1>7, <1>14
    DEF Clean, Broken, DirInv, PhaseInv, MetInv, Asking, Reading, Down, Waiting, OnIn, OnOut
  <1> QED
    BY <1>8, <1>9, <1>10, <1>11, <1>12, <1>13, <1>14 DEF Mine

(* The solver never meets a broken pipe: the controller is still reading. *)
LEMMA NotBroken ==
  ASSUME TypeInv, Mine
  PROVE  ~SlvBroken
  <1> SUFFICES ASSUME SlvBroken PROVE FALSE
    OBVIOUS
  <1>1. DirInv /\ PhaseInv /\ MetInv /\ pc["ctl"] \in Labels
    BY Scalars DEF Mine
  <1>2. pc["slv"] \in {"value", "answer"} /\ fd["ctl"] # fd["slv"]
    BY Others DEF SlvBroken, Paired
  <1> QED
    BY <1>1, <1>2
    DEF DirInv, PhaseInv, MetInv, Asking, Reading, Down, Waiting, OnIn, OnOut, Labels

(* A step that changes nothing. *)
LEMMA MineStutter ==
  ASSUME Mine, UNCHANGED vars
  PROVE  Mine' /\ (Clean => Clean')
  <1>1. UNCHANGED <<path, fifo, data, fd, met, pc, req, answer, used, job, good, killed>>
    BY DEF vars, fsvars, fdvars, cvars, svars, hvars
  <1> QED
    BY <1>1 DEF Mine, DirInv, PhaseInv, MetInv, AskedInv, AnsweredInv, UsedInv,
                Asking, Reading, No, Yes1, Yes2, AllOf, Clean

(* A history is never forgotten. *)
LEMMA HistoryStep ==
  ASSUME TypeInv, [Next]_vars
  PROVE  (early => early') /\ (eof => eof') /\ (threw => threw') /\ killed \subseteq killed'
  <1> USE DEF hvars, vars
  <1>1. ASSUME NEW p \in Procs, Start(p) \/ Remake(p) \/ Opened(p) \/ Crash(p)
        PROVE  (early => early') /\ (eof => eof') /\ (threw => threw') /\ killed \subseteq killed'
    <2>1. CASE Start(p) \/ Remake(p) \/ Opened(p)
      <3>1. UNCHANGED hvars
        BY <2>1 DEF Start, Remake, Opened
      <3> QED
        BY <3>1
    <2>2. CASE Crash(p)
      BY <2>2 DEF Crash
    <2> QED
      BY <1>1, <2>1, <2>2
  <1>2. ASSUME CtlRequest \/ CtlWrite \/ CtlCloseIn \/ CtlOpenOut
        PROVE  (early => early') /\ (eof => eof') /\ (threw => threw') /\ killed \subseteq killed'
    <2>1. CASE CtlRequest
      <3>1. early => early'
        BY <2>1, Zenon DEF CtlRequest
      <3> QED
        BY <2>1, <3>1 DEF CtlRequest
    <2>2. CASE CtlWrite \/ CtlCloseIn \/ CtlOpenOut
      BY <2>2 DEF CtlWrite, CtlCloseIn, CtlOpenOut
    <2> QED
      BY <1>2, <2>1, <2>2
  <1>3. ASSUME CtlReadValue \/ CtlReadAnswer \/ CtlCloseOut
        PROVE  (early => early') /\ (eof => eof') /\ (threw => threw') /\ killed \subseteq killed'
    BY <1>3 DEF CtlReadValue, CtlReadAnswer, CtlCloseOut
  <1>4. ASSUME SlvOpenIn \/ SlvRead \/ SlvCloseIn \/ SlvSolve \/ SlvOpenOut
        PROVE  (early => early') /\ (eof => eof') /\ (threw => threw') /\ killed \subseteq killed'
    BY <1>4 DEF SlvOpenIn, SlvRead, SlvCloseIn, SlvSolve, SlvOpenOut
  <1>5. ASSUME SlvWriteValue \/ SlvWriteAnswer \/ SlvBroken \/ SlvCloseOut
        PROVE  (early => early') /\ (eof => eof') /\ (threw => threw') /\ killed \subseteq killed'
    BY <1>5 DEF SlvWriteValue, SlvWriteAnswer, SlvBroken, SlvCloseOut
  <1>6. CASE UNCHANGED vars
    BY <1>6
  <1>7. "ctl" \in Procs /\ "slv" \in Procs
    BY Others
  <1> QED
    BY <1>1, <1>2, <1>3, <1>4, <1>5, <1>6, <1>7 DEF Next, Controller, Solver

(* All actions together. *)
LEMMA MineStep ==
  ASSUME TypeInv, Mine, Usable', [Next]_vars
  PROVE  Mine' /\ (Clean /\ ~Broken' => Clean')
  <1> DEFINE Kept == Mine' /\ (Clean /\ ~Broken' => Clean')
  <1>1. SUFFICES Kept
    OBVIOUS
  <1>2. Mine
    OBVIOUS
  <1>3. ASSUME NEW p \in Procs, Start(p) \/ Remake(p) PROVE Kept
    <2>1. CASE p = "ctl"
      BY <1>2, <1>3, <2>1, MineCtlMake
    <2>2. CASE p = "slv"
      BY <1>2, <1>3, <2>2, MineSlvMake
    <2> QED
      BY <2>1, <2>2 DEF Procs
  <1>4. ASSUME NEW p \in Procs, Crash(p) PROVE Kept
    <2>1. p # "ctl"
      BY <1>4 DEF Crash, Usable
    <2>2. p = "slv"
      BY <2>1 DEF Procs
    <2> QED
      BY <1>2, <1>4, <2>2, MineSlvCrash
  <1>5. CASE CtlRequest
    BY <1>2, <1>5, MineCtlRequest
  <1>6. CASE Controller
    <2>1. CASE Opened("ctl")
      BY <1>2, <2>1, MineCtlOpened
    <2>2. CASE CtlWrite
      BY <1>2, <2>2, MineCtlWrite
    <2>3. CASE CtlCloseIn
      BY <1>2, <2>3, MineCtlCloseIn
    <2>4. CASE CtlOpenOut
      BY <1>2, <2>4, MineCtlOpenOut
    <2>5. CASE CtlReadValue
      BY <1>2, <2>5, MineCtlReadValue
    <2>6. CASE CtlReadAnswer
      BY <1>2, <2>6, MineCtlReadAnswer
    <2>7. CASE CtlCloseOut
      BY <1>2, <2>7, MineCtlCloseOut
    <2> QED
      BY <1>6, <2>1, <2>2, <2>3, <2>4, <2>5, <2>6, <2>7 DEF Controller
  <1>7. CASE Solver
    <2>1. CASE SlvOpenIn
      BY <1>2, <2>1, MineSlvOpenIn
    <2>2. CASE Opened("slv")
      BY <1>2, <2>2, MineSlvOpened
    <2>3. CASE SlvRead
      BY <1>2, <2>3, MineSlvRead
    <2>4. CASE SlvCloseIn
      BY <1>2, <2>4, MineSlvCloseIn
    <2>5. CASE SlvSolve
      BY <1>2, <2>5, MineSlvSolve
    <2>6. CASE SlvOpenOut
      BY <1>2, <2>6, MineSlvOpenOut
    <2>7. CASE SlvWriteValue
      BY <1>2, <2>7, MineSlvWriteValue
    <2>8. CASE SlvWriteAnswer
      BY <1>2, <2>8, MineSlvWriteAnswer
    <2>9. CASE SlvBroken
      BY <1>2, <2>9, NotBroken
    <2>10. CASE SlvCloseOut
      BY <1>2, <2>10, MineSlvCloseOut
    <2> QED
      BY <1>7, <2>1, <2>2, <2>3, <2>4, <2>5, <2>6, <2>7, <2>8, <2>9, <2>10 DEF Solver
  <1>8. CASE UNCHANGED vars
    BY <1>2, <1>8, MineStutter
  <1> QED
    BY <1>3, <1>4, <1>5, <1>6, <1>7, <1>8 DEF Next

(* The invariant is inductive. *)
LEMMA MineKept ==
  ASSUME TypeInv, MineInv, [Next]_vars
  PROVE  MineInv'
  <1> SUFFICES ASSUME Usable' PROVE Mine'
    BY DEF MineInv
  <1>1. Usable
    BY HistoryStep DEF Usable
  <1>2. Mine
    BY <1>1 DEF MineInv
  <1> QED
    BY <1>2, MineStep

(* It holds whatever an earlier run left in the directory. *)
LEMMA MineInit == Init => MineInv
  <1> SUFFICES ASSUME Init PROVE Mine
    BY DEF MineInv
  <1>1. PICK left \in [Names -> {"none", "fifo", "file"}] :
          path = [n \in Names |-> IF left[n] = "none" THEN Absent
                                  ELSE IF n = "IN" THEN 1 ELSE 2]
    BY DEF Init
  <1>2. path["IN"] \in {Absent, 1} /\ path["OUT"] \in {Absent, 2}
    BY <1>1 DEF Names
  <1>3. pc["ctl"] = "down" /\ pc["slv"] = "down" /\ used = None
    BY Others DEF Init
  <1>4. path["IN"] # Absent => path["IN"] # path["OUT"]
    BY <1>2 DEF Absent
  <1>5. path["IN"] # Absent /\ fifo[path["IN"]] => data[path["IN"]] = <<>>
    BY <1>2 DEF Init, Inodes
  <1>6. DirInv /\ PhaseInv /\ MetInv /\ AnsweredInv /\ UsedInv
    BY <1>3, <1>4 DEF DirInv, PhaseInv, MetInv, AnsweredInv, UsedInv, Asking, Reading, Down,
                      Waiting, OnIn, OnOut
  <1>7. AskedInv
    <2>1. AllOf(<<>>, req)
      BY DEF AllOf
    <2> QED
      BY <1>3, <1>5, <2>1 DEF AskedInv
  <1> QED
    BY <1>6, <1>7 DEF Mine

(* What the controller applies is the answer to the request it has just      *)
(* sent, unless one of the four things happened that AnswerIsMine names:     *)
(* also when the solver was killed in the middle of anything and started     *)
(* again, any number of times, and when it threw instead of answering.       *)
THEOREM AnswerCorrect == Spec => []AnswerIsMine
  <1>1. Init => TypeInv /\ MineInv
    BY TypeInit, MineInit
  <1>2. (TypeInv /\ MineInv) /\ [Next]_vars => (TypeInv /\ MineInv)'
    BY TypeStep, MineKept
  <1>3. MineInv => AnswerIsMine
    BY DEF MineInv, Mine, UsedInv, Usable, AnswerIsMine
  <1> QED
    BY <1>1, <1>2, <1>3, PTL DEF Spec

-----------------------------------------------------------------------------
(* The end of a pipe.                                                        *)

(* A request of which something is missing is still being written. *)
LEMMA NoEnd ==
  ASSUME TypeInv, Mine, Clean, pc["slv"] \in {"mode", "rest"}
  PROVE  ~AtEnd("slv")
  <1> SUFFICES ASSUME AtEnd("slv") PROVE FALSE
    OBVIOUS
  <1>1. DirInv /\ PhaseInv /\ pc["ctl"] \in Labels
    BY Scalars DEF Mine
  <1>2. fd["slv"] = path["IN"] /\ fifo[path["IN"]]
    BY <1>1 DEF DirInv, Down, OnIn
  <1>3. data[path["IN"]] = <<>> /\ fd["ctl"] # path["IN"]
    BY <1>2, Ends, Others
  <1>4. Len(data[path["IN"]]) = 0
    BY <1>3
  <1>5. pc["ctl"] \notin OnIn
    BY <1>3 DEF Clean
  <1>6. pc["ctl"] \in {"wait", "openOUT"}
    BY <1>1, <1>5 DEF PhaseInv, Reading, Down, Waiting, OnIn, OnOut, Labels
  <1> QED
    BY <1>4, <1>6 DEF Clean

(* Without a broken call, no end is met and the invariant is kept. *)
LEMMA CleanStep ==
  ASSUME TypeInv, MineInv, CleanInv, [Next]_vars
  PROVE  CleanInv'
  <1> SUFFICES ASSUME ~Broken' PROVE ~eof' /\ Clean'
    BY DEF CleanInv
  <1>1. ~Broken
    BY HistoryStep DEF Broken
  <1>2. ~eof /\ Clean /\ Usable
    BY <1>1 DEF CleanInv, Usable, Broken
  <1>3. Mine
    BY <1>2 DEF MineInv
  <1>4. ~eof'
    <2>1. ASSUME NEW p \in Procs, Start(p) \/ Remake(p) \/ Opened(p) \/ Crash(p) PROVE ~eof'
      BY <1>2, <2>1 DEF Start, Remake, Opened, Crash, hvars
    <2>2. ASSUME CtlRequest \/ CtlWrite \/ CtlCloseIn \/ CtlOpenOut PROVE ~eof'
      BY <1>2, <2>2 DEF CtlRequest, CtlWrite, CtlCloseIn, CtlOpenOut, hvars
    <2>3. ASSUME CtlReadValue \/ CtlReadAnswer \/ CtlCloseOut PROVE ~eof'
      BY <1>2, <2>3 DEF CtlReadValue, CtlReadAnswer, CtlCloseOut, hvars
    <2>4. ASSUME SlvOpenIn \/ SlvCloseIn \/ SlvSolve \/ SlvOpenOut PROVE ~eof'
      BY <1>2, <2>4 DEF SlvOpenIn, SlvCloseIn, SlvSolve, SlvOpenOut, hvars
    <2>5. ASSUME SlvRead PROVE ~eof'
      <3>1. ~AtEnd("slv")
        BY <1>2, <1>3, <2>5, NoEnd DEF SlvRead
      <3> QED
        BY <1>2, <2>5, <3>1 DEF SlvRead
    <2>6. ASSUME SlvWriteValue \/ SlvWriteAnswer \/ SlvBroken \/ SlvCloseOut PROVE ~eof'
      BY <1>2, <2>6 DEF SlvWriteValue, SlvWriteAnswer, SlvBroken, SlvCloseOut, hvars
    <2>7. CASE UNCHANGED vars
      BY <1>2, <2>7 DEF vars, hvars
    <2>8. "ctl" \in Procs /\ "slv" \in Procs
      BY Others
    <2> QED
      BY <2>1, <2>2, <2>3, <2>4, <2>5, <2>6, <2>7, <2>8 DEF Next, Controller, Solver
  <1>5. Usable'
    BY <1>4 DEF Usable, Broken
  <1>6. Clean'
    BY <1>2, <1>3, <1>5, MineStep
  <1> QED
    BY <1>4, <1>6

(* It holds at the start. *)
LEMMA CleanInit == Init => CleanInv
  <1> SUFFICES ASSUME Init PROVE ~eof /\ Clean
    BY DEF CleanInv
  <1>1. pc["ctl"] = "down" /\ pc["slv"] = "down" /\ eof = FALSE
    BY Others DEF Init
  <1> QED
    BY <1>1 DEF Clean, Asking, Down, Waiting, OnIn

(* The solver takes the end of solver_IN for a request only after it threw,  *)
(* or somebody was killed, or the controller was there too early.            *)
THEOREM EofCorrect == Spec => []EofNeedsThrow
  <1>1. Init => TypeInv /\ MineInv /\ CleanInv
    BY TypeInit, MineInit, CleanInit
  <1>2. (TypeInv /\ MineInv /\ CleanInv) /\ [Next]_vars => (TypeInv /\ MineInv /\ CleanInv)'
    BY TypeStep, MineKept, CleanStep
  <1>3. CleanInv => EofNeedsThrow
    BY DEF CleanInv, Broken, EofNeedsThrow
  <1> QED
    BY <1>1, <1>2, <1>3, PTL DEF Spec

-----------------------------------------------------------------------------
(* The refinement of SolverCall.                                             *)

(* Nothing is applied before the whole answer was read. *)
FreshInv ==
    pc["ctl"] \in {"openIN", "mode", "rest", "closeIN", "wait", "openOUT", "value", "answer"} =>
        used = None

(* Between two calls. *)
Idle == {"down", "remake", "ready"}

(* What a step of either process means for the call: it is made, answered    *)
(* or over, or it goes on.                                                   *)
LEMMA CallSteps ==
  ASSUME TypeInv, FreshInv, [Next]_vars, ~Broken'
  PROVE  /\ FreshInv'
         /\ \/ /\ pc["ctl"] \in Idle /\ pc'["ctl"] \notin Idle
               /\ req' = req + 1 /\ used' = None
            \/ /\ pc["ctl"] \notin Idle /\ pc'["ctl"] \notin Idle /\ used = None /\ req' = req
            \/ /\ pc["ctl"] \notin Idle /\ pc'["ctl"] \in Idle /\ req' = req /\ used' = used
            \/ /\ pc["ctl"] \in Idle <=> pc'["ctl"] \in Idle
               /\ req' = req /\ used' = used
  <1> USE DEF FreshInv, Idle, cvars
  <1>1. ASSUME Start("ctl") \/ Remake("ctl")
        PROVE  /\ pc["ctl"] \in {"down", "remake"} /\ pc'["ctl"] \in {"remake", "ready"}
               /\ req' = req /\ used' = used
    BY <1>1, Goes DEF Start, Remake
  <1>2. ASSUME NEW p \in Procs, Crash(p) PROVE FALSE
    BY <1>2 DEF Crash, Broken
  <1>3. ASSUME CtlRequest
        PROVE  /\ pc["ctl"] = "ready" /\ pc'["ctl"] = "openIN"
               /\ req' = req + 1 /\ used' = None
    BY <1>3, Goes DEF CtlRequest
  <1>4. ASSUME Opened("ctl") \/ CtlWrite
        PROVE  /\ pc["ctl"] \in {"openIN", "mode", "rest", "openOUT"}
               /\ pc'["ctl"] \in {"mode", "rest", "closeIN", "value"}
               /\ req' = req /\ used' = used
    BY <1>4, Goes DEF Opened, CtlWrite
  <1>5. ASSUME CtlCloseIn \/ CtlOpenOut
        PROVE  /\ pc["ctl"] \in {"closeIN", "wait"} /\ pc'["ctl"] \in {"wait", "openOUT"}
               /\ req' = req /\ used' = used
    BY <1>5, Goes DEF CtlCloseIn, CtlOpenOut
  <1>6. ASSUME CtlReadValue
        PROVE  /\ pc["ctl"] = "value" /\ pc'["ctl"] \in {"answer", "closeOUT"}
               /\ req' = req /\ used' = used
    BY <1>6, Goes DEF CtlReadValue
  <1>7. ASSUME CtlReadAnswer
        PROVE  pc["ctl"] = "answer" /\ pc'["ctl"] = "closeOUT" /\ req' = req
    BY <1>7, Goes DEF CtlReadAnswer
  <1>8. ASSUME CtlCloseOut
        PROVE  /\ pc["ctl"] = "closeOUT" /\ pc'["ctl"] = "ready" /\ req' = req /\ used' = used
    BY <1>8, Goes DEF CtlCloseOut
  <1>9. ASSUME Start("slv") \/ Remake("slv") \/ Solver \/ UNCHANGED vars
        PROVE  pc'["ctl"] = pc["ctl"] /\ req' = req /\ used' = used
    <2>1. CASE Start("slv") \/ Remake("slv") \/ Opened("slv")
      BY <2>1, Goes DEF Start, Remake, Opened
    <2>2. CASE SlvOpenIn \/ SlvRead \/ SlvCloseIn
      BY <2>2, Goes DEF SlvOpenIn, SlvRead, SlvCloseIn
    <2>3. CASE SlvSolve \/ SlvOpenOut \/ SlvWriteValue
      BY <2>3, Goes DEF SlvSolve, SlvOpenOut, SlvWriteValue
    <2>4. CASE SlvWriteAnswer \/ SlvBroken \/ SlvCloseOut
      BY <2>4, Goes DEF SlvWriteAnswer, SlvBroken, SlvCloseOut
    <2>5. CASE UNCHANGED vars
      BY <2>5 DEF vars
    <2> QED
      BY <1>9, <2>1, <2>2, <2>3, <2>4, <2>5 DEF Solver
  <1>10. CASE Start("ctl") \/ Remake("ctl")
    BY <1>1, <1>10
  <1>11. CASE CtlRequest
    BY <1>3, <1>11
  <1>12. CASE Opened("ctl") \/ CtlWrite
    BY <1>4, <1>12
  <1>13. CASE CtlCloseIn \/ CtlOpenOut
    BY <1>5, <1>13
  <1>14. CASE CtlReadValue
    BY <1>6, <1>14
  <1>15. CASE CtlReadAnswer
    BY <1>7, <1>15
  <1>16. CASE CtlCloseOut
    BY <1>8, <1>16
  <1>17. CASE Start("slv") \/ Remake("slv") \/ Solver \/ UNCHANGED vars
    BY <1>9, <1>17
  <1> QED
    BY <1>2, <1>10, <1>11, <1>12, <1>13, <1>14, <1>15, <1>16, <1>17 DEF Next, Controller, Procs

(* Until it is broken, every step of the two processes is a step of the      *)
(* call, or none.                                                            *)
CallInv == TypeInv /\ MineInv /\ CleanInv /\ (~Broken => FreshInv)

(* The initial states map to the initial state of the call. *)
LEMMA CallInit == Init => CallInv /\ Call!Init
  <1> SUFFICES ASSUME Init PROVE CallInv /\ Call!Init
    OBVIOUS
  <1>1. pc["ctl"] = "down" /\ req = 0 /\ used = None
    BY Others DEF Init
  <1>2. ~Broken
    BY DEF Init, Broken
  <1>3. CallState = "idle"
    BY <1>1, <1>2 DEF CallState
  <1>4. Call!Init
    BY <1>1, <1>2, <1>3 DEF Call!Init
  <1> QED
    BY <1>1, <1>4, TypeInit, MineInit, CleanInit DEF CallInv, FreshInv

(* Every step maps to a step of the call, or to none. *)
LEMMA CallStep ==
  ASSUME CallInv, [Next]_vars
  PROVE  CallInv' /\ [Call!Next]_Call!vars
  <1>1. TypeInv /\ MineInv /\ CleanInv /\ TypeInv' /\ MineInv' /\ CleanInv'
    BY TypeStep, MineKept, CleanStep DEF CallInv
  <1>2. CASE Broken
    <2>1. Broken'
      BY <1>1, <1>2, HistoryStep DEF Broken
    <2>2. CallState = "broken" /\ CallState' = "broken"
      BY <1>2, <2>1 DEF CallState
    <2> QED
      BY <1>1, <1>2, <2>1, <2>2 DEF CallInv, Call!vars
  <1>3. CASE ~Broken /\ Broken'
    <2>1. CallState # "broken" /\ CallState' = "broken"
      BY <1>3 DEF CallState
    <2>2. Call!Break
      BY <1>3, <2>1 DEF Call!Break
    <2> QED
      BY <1>1, <1>3, <2>2 DEF CallInv, Call!Next
  <1>4. CASE ~Broken /\ ~Broken'
    <2>1. /\ CallState = (IF pc["ctl"] \in Idle THEN "idle" ELSE "asked")
          /\ CallState' = (IF pc'["ctl"] \in Idle THEN "idle" ELSE "asked")
      BY <1>4 DEF CallState, Idle
    <2>2. FreshInv
      BY <1>4 DEF CallInv
    <2>3. /\ FreshInv'
          /\ \/ /\ pc["ctl"] \in Idle /\ pc'["ctl"] \notin Idle
                /\ req' = req + 1 /\ used' = None
             \/ /\ pc["ctl"] \notin Idle /\ pc'["ctl"] \notin Idle /\ used = None /\ req' = req
             \/ /\ pc["ctl"] \notin Idle /\ pc'["ctl"] \in Idle /\ req' = req /\ used' = used
             \/ /\ pc["ctl"] \in Idle <=> pc'["ctl"] \in Idle
                /\ req' = req /\ used' = used
      BY <1>1, <1>4, <2>2, CallSteps
    <2>4. used' \in {None, req'}
      <3>1. Usable' /\ "slv" \notin killed'
        BY <1>1, <1>4 DEF CleanInv, Usable, Broken
      <3> QED
        BY <1>1, <3>1 DEF MineInv, Mine, UsedInv
    <2>5. [Call!Next]_Call!vars
      <3>1. CASE /\ pc["ctl"] \in Idle /\ pc'["ctl"] \notin Idle
                 /\ req' = req + 1 /\ used' = None
        <4>1. Call!Ask
          BY <1>4, <2>1, <3>1 DEF Call!Ask
        <4> QED
          BY <4>1 DEF Call!Next
      <3>2. CASE /\ pc["ctl"] \notin Idle /\ pc'["ctl"] \notin Idle /\ used = None /\ req' = req
        <4>1. CASE used' = None
          BY <1>4, <2>1, <3>2, <4>1 DEF Call!vars
        <4>2. CASE used' = req
          <5>1. Call!Apply
            BY <1>4, <2>1, <3>2, <4>2 DEF Call!Apply
          <5> QED
            BY <5>1 DEF Call!Next
        <4> QED
          BY <2>4, <3>2, <4>1, <4>2
      <3>3. CASE /\ pc["ctl"] \notin Idle /\ pc'["ctl"] \in Idle /\ req' = req /\ used' = used
        <4>1. Call!Return
          BY <1>4, <2>1, <3>3 DEF Call!Return
        <4> QED
          BY <4>1 DEF Call!Next
      <3>4. CASE /\ pc["ctl"] \in Idle <=> pc'["ctl"] \in Idle
                 /\ req' = req /\ used' = used
        BY <1>4, <2>1, <3>4 DEF Call!vars
      <3> QED
        BY <2>3, <3>1, <3>2, <3>3, <3>4
    <2> QED
      BY <1>1, <2>3, <2>5 DEF CallInv
  <1> QED
    BY <1>2, <1>3, <1>4

(* The two pipes implement the safety part of SolverCall: as long as nothing *)
(* breaks the call, each request is followed by at most one answer, its own, *)
(* before the call returns and the next request is made.                     *)
THEOREM CallRefined == Spec => Call!Init /\ [][Call!Next]_(Call!vars)
  <1>1. CallInv /\ [Next]_vars => CallInv' /\ [Call!Next]_Call!vars
    BY CallStep
  <1> QED
    BY CallInit, <1>1, PTL DEF Spec
=============================================================================
