------------------------------ MODULE SmtpLog ------------------------------
(***************************************************************************)
(* smtp_log.c: one append-only file shared by every thread of the process.   *)
(* Threads emit between the main thread's init and shutdown, as smtp_log.h   *)
(* demands, and the process may abort() at any time, as the assertions of    *)
(* every module do; what stdio has buffered by then is lost.                 *)
(***************************************************************************)
EXTENDS Integers, Sequences

CONSTANTS
    Threads,    \* the threads that call smtp_log_emit()
    MaxLines,   \* bound: lines each thread emits
    MaxInits    \* bound: calls of smtp_log_init()

ASSUME LogAssumption ==
    /\ "FREE" \notin Threads /\ "NONE" \notin Threads
    /\ MaxLines \in Nat /\ MaxInits \in Nat

VARIABLES
    ready,     \* g_smtp_log_ready
    file,      \* g_smtp_log_file is open
    mutex,     \* g_smtp_log_mutex: "NONE" before init, "FREE", or its holder
    buffer,    \* the lines in the file's stdio buffer
    disk,      \* the lines in the file
    pc,        \* where each thread is in smtp_log_emit()
    emitted,   \* how many emits of each thread have returned
    failed,    \* history: lines whose snprintf() or fflush() has failed
    cut,       \* history: lines too long for line[], so without their newline
    inits,     \* calls of smtp_log_init() so far
    aborted    \* the process is gone

fileVars == <<buffer, disk, failed, cut>>
globals == <<ready, file, mutex, inits>>
vars == <<globals, fileVars, pc, emitted, aborted>>

\* A thread's lines are numbered; no line holds another (no CR or LF in it).
Lines == Threads \X (1..MaxLines)

TypeOK ==
    /\ ready \in BOOLEAN /\ file \in BOOLEAN /\ aborted \in BOOLEAN
    /\ mutex \in Threads \cup {"NONE", "FREE"}
    /\ buffer \in Seq(Lines) /\ disk \in Seq(Lines)
    /\ failed \subseteq Lines /\ cut \subseteq Lines
    /\ pc \in [Threads -> {"IDLE", "LOCK", "WRITE", "FLUSH", "UNLOCK"}]
    /\ emitted \in [Threads -> 0..MaxLines]
    /\ inits \in 0..MaxInits

Init ==
    /\ ready = FALSE /\ file = FALSE /\ mutex = "NONE"
    /\ buffer = <<>> /\ disk = <<>> /\ failed = {} /\ cut = {}
    /\ pc = [t \in Threads |-> "IDLE"] /\ emitted = [t \in Threads |-> 0]
    /\ inits = 0 /\ aborted = FALSE

-----------------------------------------------------------------------------
(* The main thread                                                           *)

\* Bug: the file stays open when there is no mutex to be had.
Bug_FileAfterInit(opened, mutexOk) == opened

\* g_smtp_log_file after init, from what fopen() and pthread_mutex_init() say.
FileAfterInit(opened, mutexOk) == opened /\ mutexOk

SmtpLogInit ==
    /\ inits < MaxInits /\ inits' = inits + 1
    /\ ~ready
    /\ \E opened, mutexOk \in BOOLEAN :
        /\ file' = FileAfterInit(opened, mutexOk)
        /\ mutex' = IF opened /\ mutexOk THEN "FREE" ELSE "NONE"
        /\ ready' = (opened /\ mutexOk)
    /\ UNCHANGED <<fileVars, pc, emitted>>

\* Once every thread has finished: fclose() writes what is left in the buffer, or
\* fails to.
SmtpLogShutdown ==
    /\ ready
    /\ \A t \in Threads : pc[t] = "IDLE"
    /\ ready' = FALSE /\ file' = FALSE /\ mutex' = "NONE"
    /\ buffer' = <<>>
    /\ disk' \in {disk, disk \o buffer}
    /\ UNCHANGED <<failed, cut, inits, pc, emitted>>

-----------------------------------------------------------------------------
(* smtp_log_emit()                                                           *)

Line(t) == <<t, emitted[t] + 1>>
Goto(t, label) == pc' = [pc EXCEPT ![t] = label]

Returns(t) == emitted' = [emitted EXCEPT ![t] = @ + 1]

\* The assertions hold and the line is formatted: whole, or as much of it as line[]
\* holds, or not at all, and then there is nothing to write.
Emit(t) ==
    /\ ready /\ pc[t] = "IDLE" /\ emitted[t] < MaxLines
    /\ \/ /\ Goto(t, "LOCK")
          /\ cut' \in {cut, cut \cup {Line(t)}}
          /\ UNCHANGED <<failed, emitted>>
       \/ /\ failed' = failed \cup {Line(t)}
          /\ Returns(t)
          /\ UNCHANGED <<cut, pc>>
    /\ UNCHANGED <<globals, buffer, disk>>

MutexLock(t) ==
    /\ pc[t] = "LOCK" /\ mutex = "FREE"
    /\ mutex' = t
    /\ Goto(t, "WRITE")
    /\ UNCHANGED <<ready, file, inits, fileVars, emitted>>

\* Bug: the line is left to stdio to write out.
Bug_AfterWrite == "UNLOCK"

AfterWrite == "FLUSH"

\* fwrite(): the line, at most 2047 bytes, fits the buffer.
Fwrite(t) ==
    /\ pc[t] = "WRITE"
    /\ buffer' = Append(buffer, Line(t))
    /\ Goto(t, AfterWrite)
    /\ UNCHANGED <<globals, disk, failed, cut, emitted>>

\* fflush(), whose result is not looked at: on an error stdio may have kept or
\* dropped what it could not write.
Fflush(t) ==
    /\ pc[t] = "FLUSH"
    /\ \/ disk' = disk \o buffer /\ buffer' = <<>> /\ UNCHANGED failed
       \/ disk' = disk /\ buffer' \in {<<>>, buffer} /\ failed' = failed \cup {Line(t)}
    /\ Goto(t, "UNLOCK")
    /\ UNCHANGED <<globals, cut, emitted>>

MutexUnlock(t) ==
    /\ pc[t] = "UNLOCK"
    /\ mutex' = "FREE"
    /\ Returns(t)
    /\ Goto(t, "IDLE")
    /\ UNCHANGED <<ready, file, inits, fileVars>>

\* abort(), by any assertion of any thread.
Abort ==
    /\ aborted' = TRUE /\ buffer' = <<>>
    /\ UNCHANGED <<globals, disk, failed, cut, pc, emitted>>

Step(t) == Emit(t) \/ MutexLock(t) \/ Fwrite(t) \/ Fflush(t) \/ MutexUnlock(t)

Next ==
    /\ ~aborted
    /\ \/ Abort
       \/ UNCHANGED aborted /\ (SmtpLogInit \/ SmtpLogShutdown \/ \E t \in Threads : Step(t))

Spec == Init /\ [][Next]_vars

-----------------------------------------------------------------------------
(* Properties                                                                *)

OnDisk(line) == \E i \in 1..Len(disk) : disk[i] = line

\* "Durability wins over the cost of one flush syscall per event": when an emit has
\* returned, its line is in the file, whatever ends the process, unless formatting
\* or writing it has failed; and each thread's lines are there once and in the order
\* emitted.
EmittedMeansOnDisk ==
    /\ \A t \in Threads : \A n \in 1..emitted[t] : OnDisk(<<t, n>>) \/ <<t, n>> \in failed
    /\ \A i, j \in 1..Len(disk) :
        i < j /\ disk[i][1] = disk[j][1] => disk[i][2] < disk[j][2]

\* smtp_log.h:9: "One line per event": none begins in the line of another.
OneLinePerEvent == \A i \in 2..Len(disk) : disk[i - 1] \notin cut

\* Whatever init came to and however often it is called, an open file and a mutex
\* are there exactly while the log is ready.
ReadyMeansUsable ==
    /\ ready <=> file
    /\ ready <=> mutex # "NONE"
=============================================================================
