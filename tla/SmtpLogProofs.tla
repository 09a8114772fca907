--------------------------- MODULE SmtpLogProofs ---------------------------
(***************************************************************************)
(* Proofs about SmtpLog, for any number of threads, lines and calls of       *)
(* init.  Mutual exclusion carries them: whoever writes holds the mutex, so   *)
(* the file and its buffer together are one sequence to which lines are only  *)
(* appended or from which the unwritten end is dropped.                       *)
(***************************************************************************)
EXTENDS SmtpLog, TLAPS

Holding == {"WRITE", "FLUSH", "UNLOCK"}
\* How many lines a thread has written.
Count(t) == IF pc[t] \in {"FLUSH", "UNLOCK"} THEN emitted[t] + 1 ELSE emitted[t]

\* The mutex is held by the thread between lock and unlock, and there is one, and
\* a log, as long as any thread is inside of emit, with a line it may still write.
MutexHeld ==
    /\ \A t \in Threads : pc[t] \in Holding => mutex = t
    /\ \A t \in Threads : pc[t] # "IDLE" => ready /\ emitted[t] < MaxLines

\* The lines in the file and those still to be written.
Whole == disk \o buffer

\* The lines of each thread come in the order of their numbers.
InOrder(lines) ==
    \A i, j \in 1..Len(lines) :
        i < j /\ lines[i][1] = lines[j][1] => lines[i][2] < lines[j][2]

\* No line is there before its thread has written it.
NoLineEarly == \A i \in 1..Len(Whole) : Whole[i][2] <= Count(Whole[i][1])

\* Where the line of a thread is that has written it.
LineKept ==
    /\ \A t \in Threads : \A n \in 1..emitted[t] : OnDisk(<<t, n>>) \/ <<t, n>> \in failed
    /\ \A t \in Threads : pc[t] = "UNLOCK" => OnDisk(Line(t)) \/ Line(t) \in failed
    /\ ~aborted => \A t \in Threads :
        pc[t] = "FLUSH" => \E i \in 1..Len(buffer) : buffer[i] = Line(t)

IInv ==
    /\ TypeOK /\ ReadyMeansUsable /\ MutexHeld
    /\ InOrder(Whole) /\ NoLineEarly /\ LineKept

-----------------------------------------------------------------------------

\* The line a thread is writing is one of the lines.
LEMMA LineIsLine ==
    ASSUME TypeOK, MutexHeld, NEW t \in Threads, pc[t] # "IDLE"
    PROVE  Line(t) \in Lines
<1>1. emitted[t] \in 0..MaxLines /\ emitted[t] < MaxLines
  BY DEF TypeOK, MutexHeld
<1>2. emitted[t] + 1 \in 1..MaxLines
  BY <1>1, LogAssumption
<1> QED
  BY <1>2 DEF Line, Lines

LEMMA WholeIsLines ==
    ASSUME TypeOK
    PROVE  /\ disk \in Seq(Lines) /\ buffer \in Seq(Lines)
           /\ disk \o buffer \in Seq(Lines) /\ <<>> \in Seq(Lines)
<1>1. <<>> \in Seq(Lines)
  OBVIOUS
<1> QED
  BY <1>1 DEF TypeOK

\* Every step keeps the types of the variables.
LEMMA TypeStep == TypeOK /\ MutexHeld /\ [Next]_vars => TypeOK'
<1> SUFFICES ASSUME TypeOK, MutexHeld, [Next]_vars PROVE TypeOK'
  OBVIOUS
<1> USE LogAssumption
<1>1. CASE UNCHANGED vars
  BY <1>1 DEF TypeOK, vars, globals, fileVars
<1>2. CASE Abort
  BY <1>2 DEF TypeOK, Abort, globals
<1>3. CASE SmtpLogInit /\ UNCHANGED aborted
  BY <1>3 DEF TypeOK, SmtpLogInit, FileAfterInit, fileVars
<1>4. CASE SmtpLogShutdown /\ UNCHANGED aborted
  <2>1. disk \in Seq(Lines) /\ disk \o buffer \in Seq(Lines)
    BY WholeIsLines
  <2>2. disk' = disk \/ disk' = disk \o buffer
    BY <1>4, Zenon DEF SmtpLogShutdown
  <2>3. disk' \in Seq(Lines)
    BY <2>1, <2>2
  <2>4. UNCHANGED <<failed, inits, pc, emitted, aborted>>
    BY <1>4, Zenon DEF SmtpLogShutdown
  <2>6. UNCHANGED cut
    BY <1>4, Zenon DEF SmtpLogShutdown
  <2>5. ready' = FALSE /\ file' = FALSE /\ mutex' = "NONE" /\ buffer' = <<>>
    BY <1>4, Zenon DEF SmtpLogShutdown
  <2> QED
    BY <2>3, <2>4, <2>5, <2>6, WholeIsLines DEF TypeOK
<1>5. ASSUME NEW t \in Threads, Step(t), UNCHANGED aborted PROVE TypeOK'
  <2>1. CASE Emit(t)
    <3>1. emitted[t] \in 0..MaxLines /\ emitted[t] < MaxLines
      BY <2>1 DEF TypeOK, Emit
    <3>2. emitted[t] + 1 \in 1..MaxLines /\ emitted[t] + 1 \in 0..MaxLines
      BY <3>1
    <3>3. Line(t) \in Lines
      BY <3>2 DEF Line, Lines
    <3>4. CASE Goto(t, "LOCK") /\ cut' \in {cut, cut \cup {Line(t)}} /\ UNCHANGED <<failed, emitted>>
      BY <1>5, <2>1, <3>3, <3>4 DEF TypeOK, Emit, Goto, globals
    <3>5. CASE failed' = failed \cup {Line(t)} /\ Returns(t) /\ UNCHANGED <<cut, pc>>
      BY <1>5, <2>1, <3>2, <3>3, <3>5 DEF TypeOK, Emit, Returns, globals
    <3> QED
      BY <2>1, <3>4, <3>5 DEF Emit
  <2>2. CASE MutexLock(t)
    BY <1>5, <2>2 DEF TypeOK, MutexLock, Goto, fileVars
  <2>3. CASE Fwrite(t)
    <3>1. Line(t) \in Lines
      BY <2>3, LineIsLine DEF Fwrite
    <3> QED
      BY <1>5, <2>3, <3>1 DEF TypeOK, Fwrite, AfterWrite, Goto, globals
  <2>4. CASE Fflush(t)
    <3>1. Line(t) \in Lines
      BY <2>4, LineIsLine DEF Fflush
    <3>2. disk' = disk \/ disk' = disk \o buffer
      BY <2>4, Zenon DEF Fflush
    <3>3. buffer' = buffer \/ buffer' = <<>>
      BY <2>4, Zenon DEF Fflush
    <3>4. failed' = failed \/ failed' = failed \cup {Line(t)}
      BY <2>4, Zenon DEF Fflush
    <3>5. disk' \in Seq(Lines) /\ buffer' \in Seq(Lines) /\ failed' \subseteq Lines
      BY <3>1, <3>2, <3>3, <3>4, WholeIsLines DEF TypeOK
    <3>6. pc' \in [Threads -> {"IDLE", "LOCK", "WRITE", "FLUSH", "UNLOCK"}]
      BY <2>4 DEF TypeOK, Fflush, Goto
    <3>7. UNCHANGED <<globals, cut, emitted, aborted>>
      BY <1>5, <2>4, Zenon DEF Fflush
    <3> QED
      BY <3>5, <3>6, <3>7 DEF TypeOK, globals
  <2>5. CASE MutexUnlock(t)
    <3>1. emitted[t] + 1 \in 0..MaxLines
      BY <2>5 DEF TypeOK, MutexHeld, MutexUnlock
    <3> QED
      BY <1>5, <2>5, <3>1 DEF TypeOK, MutexUnlock, Returns, Goto, fileVars
  <2> QED
    BY <1>5, <2>1, <2>2, <2>3, <2>4, <2>5 DEF Step
<1> QED
  BY <1>1, <1>2, <1>3, <1>4, <1>5 DEF Next

\* Threads take the mutex one at a time, and init and shutdown come when no
\* thread is inside of emit.
LEMMA MutexStep ==
    TypeOK /\ ReadyMeansUsable /\ MutexHeld /\ [Next]_vars => ReadyMeansUsable' /\ MutexHeld'
<1> SUFFICES ASSUME TypeOK, ReadyMeansUsable, MutexHeld, [Next]_vars
             PROVE  ReadyMeansUsable' /\ MutexHeld'
  OBVIOUS
<1> USE LogAssumption DEF ReadyMeansUsable, MutexHeld
<1>1. CASE UNCHANGED vars
  BY <1>1 DEF vars, globals
<1>2. CASE Abort
  BY <1>2 DEF Abort, globals
<1>3. CASE SmtpLogInit
  BY <1>3 DEF TypeOK, SmtpLogInit, FileAfterInit, Holding
<1>4. CASE SmtpLogShutdown
  BY <1>4 DEF SmtpLogShutdown, Holding
<1>5. ASSUME NEW t \in Threads, Step(t) PROVE ReadyMeansUsable' /\ MutexHeld'
  <2>1. CASE Emit(t)
    BY <2>1 DEF TypeOK, Emit, Goto, Returns, globals, Holding
  <2>2. CASE MutexLock(t)
    BY <2>2 DEF TypeOK, MutexLock, Goto, Holding
  <2>3. CASE Fwrite(t)
    BY <2>3 DEF TypeOK, Fwrite, AfterWrite, Goto, globals, Holding
  <2>4. CASE Fflush(t)
    BY <2>4 DEF TypeOK, Fflush, Goto, globals, Holding
  <2>5. CASE MutexUnlock(t)
    BY <2>5 DEF TypeOK, MutexUnlock, Returns, Goto, Holding
  <2> QED
    BY <1>5, <2>1, <2>2, <2>3, <2>4, <2>5 DEF Step
<1> QED
  BY <1>1, <1>2, <1>3, <1>4, <1>5 DEF Next

-----------------------------------------------------------------------------
(* The order of the lines.                                                   *)

LEMMA WholeParts ==
    ASSUME TypeOK
    PROVE  /\ Len(disk) \in Nat /\ Len(buffer) \in Nat
           /\ Len(Whole) = Len(disk) + Len(buffer)
           /\ \A i \in 1..Len(disk) : Whole[i] = disk[i]
           /\ \A i \in 1..Len(buffer) : Whole[Len(disk) + i] = buffer[i]
           /\ \A i \in 1..Len(Whole) : Whole[i] \in Lines
  BY WholeIsLines DEF Whole

LEMMA CountIsNat ==
    ASSUME TypeOK, NEW t \in Threads PROVE Count(t) \in Nat
<1>1. emitted[t] \in Nat
  BY LogAssumption DEF TypeOK
<1> QED
  BY <1>1 DEF Count

\* When lines only go, from the end, and no thread takes one back, the order stays.
LEMMA LinesGo ==
    ASSUME TypeOK, TypeOK', InOrder(Whole), NoLineEarly,
           Whole' = Whole \/ Whole' = disk,
           \A t \in Threads : Count(t) <= Count(t)'
    PROVE  InOrder(Whole)' /\ NoLineEarly'
<1>1. Len(Whole') <= Len(Whole) /\ Len(Whole') \in Nat /\ Len(Whole) \in Nat
  BY WholeParts
<1>2. \A i \in 1..Len(Whole') : Whole'[i] = Whole[i] /\ Whole[i] \in Lines
  BY WholeParts, <1>1
<1>3. \A i \in 1..Len(Whole') : i \in 1..Len(Whole)
  BY <1>1
<1>4. InOrder(Whole)'
  BY <1>2, <1>3 DEF InOrder
<1>5. ASSUME NEW i \in 1..Len(Whole')
      PROVE  (Whole[i][2] <= Count(Whole[i][1]))'
  <2>1. Whole[i] \in Lines /\ Whole'[i] = Whole[i] /\ i \in 1..Len(Whole)
    BY <1>2, <1>3
  <2>2. PICK t \in Threads, n \in 1..MaxLines : Whole[i] = <<t, n>>
    BY <2>1 DEF Lines
  <2>3. n <= Count(t)
    BY <2>1, <2>2 DEF NoLineEarly
  <2>4. Count(t) \in Nat /\ Count(t) <= Count(t)'
    BY CountIsNat
  <2>5. Count(t)' \in Nat
    <3>1. emitted'[t] \in Nat
      BY LogAssumption DEF TypeOK
    <3> QED
      BY <3>1 DEF Count
  <2>6. n <= Count(t)'
    BY <2>3, <2>4, <2>5, LogAssumption
  <2>7. Whole'[i] = <<t, n>>
    BY <2>1, <2>2
  <2> QED
    BY <2>6, <2>7 DEF Count
<1> QED
  BY <1>4, <1>5 DEF NoLineEarly

\* A thread's next line comes behind all it has written.
LEMMA LineComes ==
    ASSUME TypeOK, InOrder(Whole), NoLineEarly, TypeOK', NEW t \in Threads,
           Len(Whole') = Len(Whole) + 1,
           \A i \in 1..Len(Whole) : Whole'[i] = Whole[i],
           Whole'[Len(Whole) + 1] = <<t, Count(t) + 1>>,
           Count(t)' = Count(t) + 1,
           \A u \in Threads : Count(u) <= Count(u)'
    PROVE  InOrder(Whole)' /\ NoLineEarly'
<1>1. Len(Whole) \in Nat
  BY WholeParts
<1>2. \A i \in 1..Len(Whole) : Whole[i] \in Lines
  BY WholeParts
<1>3. Count(t) \in Nat
  BY CountIsNat
<1>4. ASSUME NEW i \in 1..Len(Whole'), NEW j \in 1..Len(Whole'),
             i < j, Whole'[i][1] = Whole'[j][1]
      PROVE  Whole'[i][2] < Whole'[j][2]
  <2>1. i \in 1..Len(Whole)
    BY <1>1, <1>4
  <2>2. CASE j \in 1..Len(Whole)
    BY <1>4, <2>1, <2>2 DEF InOrder
  <2>3. CASE j = Len(Whole) + 1
    <3>1. Whole[i][1] = t
      BY <1>4, <2>1, <2>3
    <3>2. Whole[i][2] <= Count(t)
      BY <2>1, <3>1 DEF NoLineEarly
    <3>3. Whole[i][2] \in Nat
      BY <1>2, <2>1, LogAssumption DEF Lines
    <3> QED
      BY <1>3, <2>1, <2>3, <3>2, <3>3
  <2> QED
    BY <1>1, <1>4, <2>2, <2>3
<1>5. ASSUME NEW i \in 1..Len(Whole')
      PROVE  (Whole[i][2] <= Count(Whole[i][1]))'
  <2>1. CASE i = Len(Whole) + 1
    BY <1>3, <2>1 DEF Count
  <2>2. CASE i \in 1..Len(Whole)
    <3>1. PICK u \in Threads, n \in 1..MaxLines : Whole[i] = <<u, n>>
      BY <1>2, <2>2 DEF Lines
    <3>2. n <= Count(u)
      BY <2>2, <3>1 DEF NoLineEarly
    <3>3. Count(u) \in Nat /\ Count(u) <= Count(u)'
      BY CountIsNat
    <3>4. Count(u)' \in Nat
      <4>1. emitted'[u] \in Nat
        BY LogAssumption DEF TypeOK
      <4> QED
        BY <4>1 DEF Count
    <3>5. n <= Count(u)'
      BY <3>2, <3>3, <3>4, LogAssumption
    <3>6. Whole'[i] = <<u, n>>
      BY <2>2, <3>1
    <3> QED
      BY <3>5, <3>6 DEF Count
  <2> QED
    BY <1>1, <2>1, <2>2
<1> QED
  BY <1>4, <1>5 DEF InOrder, NoLineEarly

\* No step takes back a line, as far as a thread can tell.
LEMMA CountGrows ==
    ASSUME TypeOK, [Next]_vars, NEW u \in Threads
    PROVE  Count(u) <= Count(u)'
<1>1. emitted[u] \in Nat
  BY LogAssumption DEF TypeOK
<1>2. CASE UNCHANGED <<pc, emitted>>
  BY <1>1, <1>2 DEF Count
<1>3. ASSUME NEW t \in Threads, Step(t) PROVE Count(u) <= Count(u)'
  BY <1>1, <1>3 DEF TypeOK, Count, Step, Emit, MutexLock, Fwrite, Fflush, MutexUnlock,
                    Returns, AfterWrite, Goto
<1>4. CASE UNCHANGED vars
  BY <1>2, <1>4 DEF vars
<1>5. CASE Abort \/ SmtpLogInit \/ SmtpLogShutdown
  BY <1>2, <1>5 DEF Abort, SmtpLogInit, SmtpLogShutdown
<1> QED
  BY <1>3, <1>4, <1>5 DEF Next

LEMMA OrderStep ==
    ASSUME IInv, TypeOK', [Next]_vars PROVE InOrder(Whole)' /\ NoLineEarly'
<1> USE DEF IInv
<1>1. \A u \in Threads : Count(u) <= Count(u)'
  BY CountGrows
<1>2. \/ Whole' = Whole \/ Whole' = disk
      \/ \E t \in Threads : Fwrite(t)
  <2>1. CASE UNCHANGED <<disk, buffer>>
    BY <2>1 DEF Whole
  <2>2. CASE disk' \in {disk, disk \o buffer} /\ buffer' = <<>>
    BY <2>2, WholeIsLines DEF Whole
  <2>3. ASSUME NEW t \in Threads, Step(t)
        PROVE  \/ Whole' = Whole \/ Whole' = disk
               \/ \E u \in Threads : Fwrite(u)
    BY <2>1, <2>2, <2>3 DEF Step, Emit, MutexLock, Fflush, MutexUnlock, fileVars
  <2>4. CASE UNCHANGED vars
    BY <2>1, <2>4 DEF vars, fileVars
  <2>5. CASE Abort
    BY <2>2, <2>5 DEF Abort
  <2>6. CASE SmtpLogInit
    BY <2>1, <2>6 DEF SmtpLogInit, fileVars
  <2>7. CASE SmtpLogShutdown
    BY <2>2, <2>7 DEF SmtpLogShutdown
  <2> QED
    BY <2>3, <2>4, <2>5, <2>6, <2>7 DEF Next
<1>3. ASSUME NEW t \in Threads, Fwrite(t) PROVE InOrder(Whole)' /\ NoLineEarly'
  <2>1. Line(t) \in Lines
    BY <1>3, LineIsLine DEF Fwrite
  <2>2. Whole' = disk \o Append(buffer, Line(t))
    BY <1>3 DEF Fwrite, Whole
  <2>3. /\ Len(Whole') = Len(Whole) + 1
        /\ \A i \in 1..Len(Whole) : Whole'[i] = Whole[i]
        /\ Whole'[Len(Whole) + 1] = Line(t)
    BY <2>1, <2>2, WholeIsLines DEF Whole
  <2>4. Line(t) = <<t, Count(t) + 1>> /\ Count(t)' = Count(t) + 1
    BY <1>3 DEF TypeOK, Fwrite, AfterWrite, Goto, Line, Count
  <2> QED
    BY <1>1, <2>3, <2>4, LineComes
<1> QED
  BY <1>1, <1>2, <1>3, LinesGo

\* What is in the file stays there.
LEMMA OnDiskStays ==
    ASSUME TypeOK, [Next]_vars, NEW line
    PROVE  OnDisk(line) \/ line \in failed => OnDisk(line)' \/ line \in failed'
<1>1. CASE UNCHANGED <<disk, failed>>
  BY <1>1 DEF OnDisk
<1>2. CASE disk' \in {disk, disk \o buffer} /\ failed \subseteq failed'
  BY <1>2, WholeIsLines DEF OnDisk
<1>3. ASSUME NEW t \in Threads, Step(t)
      PROVE  OnDisk(line) \/ line \in failed => OnDisk(line)' \/ line \in failed'
  BY <1>1, <1>2, <1>3 DEF Step, Emit, MutexLock, Fwrite, Fflush, MutexUnlock, fileVars
<1>4. CASE UNCHANGED vars
  BY <1>1, <1>4 DEF vars, fileVars
<1>5. CASE Abort \/ SmtpLogInit \/ SmtpLogShutdown
  BY <1>1, <1>2, <1>5 DEF Abort, SmtpLogInit, SmtpLogShutdown, fileVars
<1> QED
  BY <1>3, <1>4, <1>5 DEF Next

-----------------------------------------------------------------------------
(* Where a written line is.                                                  *)

\* Each kind of step leaves the other threads where they are.
LEMMA OthersStay ==
    ASSUME TypeOK, NEW u \in Threads, Step(u), NEW t \in Threads, t # u
    PROVE  pc'[t] = pc[t] /\ emitted'[t] = emitted[t] /\ Line(t)' = Line(t)
  BY DEF TypeOK, Step, Emit, MutexLock, Fwrite, Fflush, MutexUnlock, Returns, Goto, Line

\* Only the thread that holds the mutex touches the buffer.
LEMMA BufferKept ==
    ASSUME IInv, NEW u \in Threads, Step(u), NEW t \in Threads, t # u, pc[t] = "FLUSH"
    PROVE  buffer' = buffer
<1>1. mutex = t
  BY DEF IInv, MutexHeld, Holding
<1>2. pc[u] \notin Holding
  BY <1>1 DEF IInv, MutexHeld
<1> QED
  BY <1>2 DEF Holding, Step, Emit, MutexLock, Fwrite, Fflush, MutexUnlock, fileVars

LEMMA FlushStep ==
    ASSUME IInv, [Next]_vars, ~aborted', NEW t \in Threads, pc'[t] = "FLUSH"
    PROVE  \E i \in 1..Len(buffer') : buffer'[i] = Line(t)'
<1> USE DEF IInv
<1>1. CASE UNCHANGED vars
  BY <1>1 DEF vars, fileVars, LineKept, Line
<1>2. CASE Next
  <2>1. ~aborted
    BY <1>2 DEF Next
  <2>2. CASE SmtpLogInit
    BY <2>1, <2>2 DEF SmtpLogInit, fileVars, LineKept, Line
  <2>3. CASE SmtpLogShutdown
    BY <2>3 DEF SmtpLogShutdown
  <2>4. ASSUME NEW u \in Threads, Step(u)
        PROVE  \E i \in 1..Len(buffer') : buffer'[i] = Line(t)'
    <3>1. CASE t # u
      BY <2>1, <2>4, <3>1, OthersStay, BufferKept DEF LineKept
    <3>2. CASE t = u
      <4>1. Fwrite(t)
        BY <2>4, <3>2 DEF TypeOK, Step, Emit, MutexLock, Fwrite, Fflush, MutexUnlock, Goto
      <4>2. Line(t) \in Lines /\ Line(t)' = Line(t)
        BY <4>1, LineIsLine DEF Fwrite, Line
      <4>3. buffer' = Append(buffer, Line(t))
        BY <4>1 DEF Fwrite
      <4> QED
        BY <4>2, <4>3, WholeIsLines
    <3> QED
      BY <3>1, <3>2
  <2> QED
    BY <1>2, <2>2, <2>3, <2>4 DEF Next, Abort
<1> QED
  BY <1>1, <1>2

LEMMA UnlockStep ==
    ASSUME IInv, [Next]_vars, NEW t \in Threads, pc'[t] = "UNLOCK"
    PROVE  OnDisk(Line(t))' \/ Line(t)' \in failed'
<1> USE DEF IInv
<1>1. CASE pc[t] = "UNLOCK" /\ Line(t)' = Line(t)
  <2>1. OnDisk(Line(t)) \/ Line(t) \in failed
    BY <1>1 DEF LineKept
  <2> QED
    BY <1>1, <2>1, OnDiskStays DEF OnDisk
<1>2. CASE UNCHANGED <<pc, emitted>>
  BY <1>1, <1>2 DEF Line
<1>3. ASSUME NEW u \in Threads, Step(u), ~aborted
      PROVE  OnDisk(Line(t))' \/ Line(t)' \in failed'
  <2>1. CASE t # u
    BY <1>1, <1>3, <2>1, OthersStay
  <2>2. CASE t = u
    <3>1. Fflush(t)
      BY <1>3, <2>2 DEF TypeOK, Step, Emit, MutexLock, Fwrite, Fflush, MutexUnlock, Goto,
                        AfterWrite
    <3>2. Line(t)' = Line(t)
      BY <3>1 DEF Fflush, Line
    <3>3. PICK i \in 1..Len(buffer) : buffer[i] = Line(t)
      BY <1>3, <3>1 DEF Fflush, LineKept
    <3>4. CASE disk' = disk \o buffer
      <4>1. Len(disk) + i \in 1..Len(disk') /\ disk'[Len(disk) + i] = Line(t)
        BY <3>3, <3>4, WholeIsLines
      <4> QED
        BY <3>2, <4>1 DEF OnDisk
    <3>5. CASE failed' = failed \cup {Line(t)}
      BY <3>2, <3>5
    <3> QED
      BY <3>1, <3>4, <3>5 DEF Fflush
  <2> QED
    BY <2>1, <2>2
<1> QED
  BY <1>2, <1>3 DEF Next, Abort, SmtpLogInit, SmtpLogShutdown, vars

LEMMA EmittedStep ==
    ASSUME IInv, [Next]_vars, NEW t \in Threads, NEW n \in 1..emitted'[t]
    PROVE  OnDisk(<<t, n>>)' \/ <<t, n>> \in failed'
<1> USE DEF IInv
<1>1. CASE n \in 1..emitted[t]
  BY <1>1, OnDiskStays DEF LineKept
<1>2. CASE n = emitted[t] + 1 /\ pc[t] = "UNLOCK"
  BY <1>2, OnDiskStays DEF LineKept, Line
<1>3. CASE n = emitted[t] + 1 /\ Line(t) \in failed'
  BY <1>3 DEF Line
<1>4. emitted[t] \in Nat
  BY LogAssumption DEF TypeOK
<1>5. \/ emitted'[t] = emitted[t]
      \/ emitted'[t] = emitted[t] + 1 /\ (pc[t] = "UNLOCK" \/ Line(t) \in failed')
  <2>1. ASSUME NEW u \in Threads, Step(u)
        PROVE  \/ emitted'[t] = emitted[t]
               \/ emitted'[t] = emitted[t] + 1 /\ (pc[t] = "UNLOCK" \/ Line(t) \in failed')
    BY <2>1 DEF TypeOK, Step, Emit, MutexLock, Fwrite, Fflush, MutexUnlock, Returns
  <2> QED
    BY <2>1 DEF Next, Abort, SmtpLogInit, SmtpLogShutdown, vars
<1> QED
  BY <1>1, <1>2, <1>3, <1>4, <1>5

-----------------------------------------------------------------------------
(* The theorems                                                              *)

LEMMA Inductive == IInv /\ [Next]_vars => IInv'
<1> SUFFICES ASSUME IInv, [Next]_vars PROVE IInv'
  OBVIOUS
<1>1. TypeOK'
  BY TypeStep DEF IInv
<1>2. ReadyMeansUsable' /\ MutexHeld'
  BY MutexStep DEF IInv
<1>3. InOrder(Whole)' /\ NoLineEarly'
  BY <1>1, OrderStep
<1>4. LineKept'
  BY FlushStep, UnlockStep, EmittedStep DEF LineKept
<1> QED
  BY <1>1, <1>2, <1>3, <1>4 DEF IInv

LEMMA Initial == Init => IInv
<1> SUFFICES ASSUME Init PROVE IInv
  OBVIOUS
<1> USE LogAssumption DEF Init
<1>1. TypeOK
  <2>1. <<>> \in Seq(Lines)
    OBVIOUS
  <2>2. emitted \in [Threads -> 0..MaxLines] /\ inits \in 0..MaxInits
    OBVIOUS
  <2> QED
    BY <2>1, <2>2 DEF TypeOK
<1>2. ReadyMeansUsable /\ MutexHeld
  BY DEF ReadyMeansUsable, MutexHeld, Holding
<1>3. Len(Whole) = 0
  BY WholeIsLines, <1>1 DEF Whole
<1>4. InOrder(Whole) /\ NoLineEarly
  BY <1>3 DEF InOrder, NoLineEarly
<1>5. LineKept
  BY DEF LineKept
<1> QED
  BY <1>1, <1>2, <1>4, <1>5 DEF IInv

THEOREM LogInvariant == Spec => []IInv
  BY Initial, Inductive, PTL DEF Spec

\* However many threads emit and however often the log is opened and closed, a line
\* whose emit has returned is in the file or its formatting or flush has failed, and each
\* thread's lines stand in the order emitted, also after an abort().
THEOREM Durable == Spec => []EmittedMeansOnDisk
<1>1. IInv => EmittedMeansOnDisk
  <2> SUFFICES ASSUME IInv PROVE EmittedMeansOnDisk
    OBVIOUS
  <2>1. \A i \in 1..Len(disk) : i \in 1..Len(Whole) /\ Whole[i] = disk[i]
    BY WholeParts DEF IInv
  <2>2. InOrder(disk)
    BY <2>1 DEF IInv, InOrder
  <2> QED
    BY <2>2 DEF IInv, LineKept, InOrder, EmittedMeansOnDisk
<1> QED
  BY <1>1, LogInvariant, PTL

\* The file and the mutex exist exactly while the log is ready, whatever init comes
\* to.
THEOREM Usable == Spec => []ReadyMeansUsable
<1>1. IInv => ReadyMeansUsable
  BY DEF IInv
<1> QED
  BY <1>1, LogInvariant, PTL
=============================================================================
