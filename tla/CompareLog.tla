----------------------------- MODULE CompareLog -----------------------------
(***************************************************************************)
(* How mod_compare writes its records: writeDifferences,                   *)
(* writeSerializedRequest and writeInFacility (src/src/response_diff.cc)   *)
(* from the point where there is a record, the mutex in shared memory that *)
(* the processes use for it (getGlobalMutex, src/src/mod_compare.cc), and  *)
(* comp_truncate, which reopens the log without that mutex.                *)
(*                                                                         *)
(* A record is written in Parts parts: a stream, a write or syslog may be  *)
(* interrupted between two of them by another thread or process. The       *)
(* threads of a process share the stream gFile with its buffer. A child    *)
(* opens it for appending; after comp_truncate it has a position of its    *)
(* own. The last part of an archive is the line end which the destructor   *)
(* of text_oarchive writes and flushes, after the unlock.                  *)
(*                                                                         *)
(* A mutex that is locked before it is initialised is undefined behaviour: *)
(* without memory behind it the process dies (SIGBUS); zeroed memory is a  *)
(* plain mutex, not robust, whose waiters another process may never wake.  *)
(***************************************************************************)
EXTENDS Integers, Sequences, SequencesExt, TLC

CONSTANTS
    Threads,    \* the threads that serve requests
    Process,    \* thread to process
    BufSize     \* parts the buffer of a stream holds

Nobody == 0

ASSUME CompareLogAssumption ==
    BufSize \in Nat \ {0} /\ DOMAIN Process = Threads /\ Nobody \notin Threads

VARIABLES
    shm,        \* the shared memory: none, empty, zero or ready
    owner,      \* the thread that locked the mutex, or Nobody
    ownerDead,  \* whether its process is dead
    early,      \* whether the mutex was ever locked before it was initialised (history)
    mapped,     \* the processes whose static pointer to the mutex is set
    gFile,      \* by process: how it is open, its position, its buffer, and whether
                \* two threads ever used it at once (history)
    log,        \* the parts in the file, or in the syslog
    alive,      \* the processes that run
    writer      \* the threads: where they are, next part, and form of their record

mutexVars == <<shm, owner, ownerDead, early, mapped>>
logVars == <<mutexVars, gFile, log, alive, writer>>

Processes == Range(Process)
Parts == 3
Hole == <<Nobody, 0>>       \* what is read where nothing was written

\* form: json and multiline differences or archive; file: gWriteInFile
NoWriter == [pc |-> "idle", part |-> 1, form |-> "json", file |-> TRUE]

Closed == {"closed", "closing"}

LogInit(shared) ==
    /\ shm = shared
    /\ owner = Nobody
    /\ ownerDead = FALSE
    /\ early = FALSE
    /\ mapped = {}
    /\ gFile = [p \in Processes |-> [mode |-> "closed", pos |-> 0, buf |-> <<>>, torn |-> FALSE]]
    /\ log = <<>>
    /\ alive = Processes
    /\ writer = [t \in Threads |-> NoWriter]

\* Every child opens the log to append to it, if it may.
childInit(opens) ==
    gFile' = [p \in Processes |-> [gFile[p] EXCEPT !.mode = IF opens THEN "app" ELSE "closed"]]

-----------------------------------------------------------------------------
At(t, pc) == writer[t].pc = pc /\ Process[t] \in alive
Goto(t, pc) == writer' = [writer EXCEPT ![t].pc = pc]

\* The process dies: its buffer is lost and a mutex it holds has a dead owner.
Die(p) ==
    /\ alive' = alive \ {p}
    /\ ownerDead' = (ownerDead \/ (owner # Nobody /\ Process[owner] = p))
    /\ UNCHANGED <<shm, owner, early, mapped, gFile, log, writer>>

\* Only a multiline record in the syslog and any record in the file need it.
FaultyNeedsMutex(t) == writer[t].file

NeedsMutex(t) == writer[t].file \/ writer[t].form = "multiline"

StartsWriting(t) ==
    /\ At(t, "start")
    /\ Goto(t, IF writer[t].file /\ gFile[Process[t]].mode \in Closed THEN "dropped"
               ELSE IF NeedsMutex(t) THEN "mutex" ELSE "write")
    /\ UNCHANGED <<mutexVars, gFile, log, alive>>

-----------------------------------------------------------------------------
(* getGlobalMutex. O_CREAT with O_EXCL makes one thread the creator.       *)

FaultycreateGlobalMutex(t) ==
    /\ At(t, "mutex") /\ Process[t] \notin mapped
    /\ shm' = IF shm = "none" THEN "empty" ELSE shm
    /\ Goto(t, "ftruncate")
    /\ UNCHANGED <<owner, ownerDead, early, mapped, gFile, log, alive>>

createGlobalMutex(t) ==
    /\ At(t, "mutex") /\ Process[t] \notin mapped
    /\ shm' = IF shm = "none" THEN "empty" ELSE shm
    /\ Goto(t, CASE shm = "none"   -> "ftruncate"
                 [] shm = "denied" -> "dropped"
                 [] OTHER          -> "mmap")
    /\ UNCHANGED <<owner, ownerDead, early, mapped, gFile, log, alive>>

ftruncate(t) ==
    /\ At(t, "ftruncate")
    /\ shm' = IF shm = "empty" THEN "zero" ELSE shm
    /\ Goto(t, "init")
    /\ UNCHANGED <<owner, ownerDead, early, mapped, gFile, log, alive>>

pthread_mutex_init(t) ==
    /\ At(t, "init")
    /\ shm' = "ready"
    /\ owner' = Nobody
    /\ ownerDead' = FALSE
    /\ Goto(t, "mmap")
    /\ UNCHANGED <<early, mapped, gFile, log, alive>>

getGlobalMutex(t) ==
    /\ \/ At(t, "mmap")
       \/ At(t, "mutex") /\ Process[t] \in mapped
    /\ mapped' = mapped \cup {Process[t]}
    /\ Goto(t, "lock")
    /\ UNCHANGED <<shm, owner, ownerDead, early, gFile, log, alive>>

-----------------------------------------------------------------------------
(* The lock. EOWNERDEAD gives the mutex to the caller, who repairs it.     *)

FaultyMayLock == owner = Nobody

MayLock == owner = Nobody \/ (ownerDead /\ shm = "ready")

pthread_mutex_lock(t) ==
    /\ At(t, "lock") /\ shm # "empty" /\ MayLock
    /\ owner' = t
    /\ ownerDead' = FALSE
    /\ early' = (early \/ shm = "zero")
    /\ Goto(t, "write")
    /\ UNCHANGED <<shm, mapped, gFile, log, alive>>

LockWithoutMemory(t) == At(t, "lock") /\ shm = "empty" /\ Die(Process[t])

\* Asleep on a futex that only its own process wakes: no fairness wakes it.
LockSleeps(t) ==
    /\ At(t, "lock") /\ shm = "zero" /\ owner # Nobody
    /\ early' = TRUE
    /\ Goto(t, "asleep")
    /\ UNCHANGED <<shm, owner, ownerDead, mapped, gFile, log, alive>>

LockWakes(t) ==
    /\ At(t, "asleep") /\ owner = Nobody
    /\ Goto(t, "lock")
    /\ UNCHANGED <<mutexVars, gFile, log, alive>>

\* Unlocking the mutex of another thread fails and is not noticed.
pthread_mutex_unlock(t) ==
    /\ At(t, "unlock")
    /\ owner' = IF owner = t THEN Nobody ELSE owner
    /\ ownerDead' = (ownerDead /\ owner # t)
    /\ Goto(t, IF writer[t].part <= Parts THEN "endl" ELSE "written")
    /\ UNCHANGED <<shm, early, mapped, gFile, log, alive>>

-----------------------------------------------------------------------------
(* Writing. The buffer goes to the end of the file, or to the position of  *)
(* the stream if it was opened to truncate.                                *)

Overwrite(cells, pos, new) ==
    [i \in 1 .. Max({Len(cells), pos + Len(new)}) |->
        IF i \in pos + 1 .. pos + Len(new) THEN new[i - pos]
        ELSE IF i <= Len(cells) THEN cells[i] ELSE Hole]

\* Another thread of the process is using the stream: the line end of an archive
\* is written without the mutex, and an early one excludes nobody. That is a data
\* race, in which the part may be lost, be repeated or take the place of others.
Races(t) ==
    \E u \in Threads \ {t} :
        Process[u] = Process[t] /\ writer[u].file /\ writer[u].pc \in {"write", "endl"}

BuffersAfter(t) ==
    LET buf == gFile[Process[t]].buf
        cell == <<t, writer[t].part>>
    IN {Append(buf, cell)} \cup IF Races(t) THEN {buf, buf \o <<cell, cell>>, <<cell>>} ELSE {}

FaultyPut(t, flush) ==
    \E buf \in BuffersAfter(t) :
        LET f == gFile[Process[t]]
            out == f.mode \notin Closed /\ Len(buf) >= BufSize
            pos == IF f.mode = "app" THEN Len(log) ELSE f.pos
        IN /\ log' = IF out THEN Overwrite(log, pos, buf) ELSE log
           /\ gFile' = [gFile EXCEPT ![Process[t]].buf = IF out \/ f.mode \in Closed THEN <<>> ELSE buf,
                                     ![Process[t]].pos = IF out THEN pos + Len(buf) ELSE @,
                                     ![Process[t]].torn = @ \/ Races(t)]

Put(t, flush) ==
    \E buf \in BuffersAfter(t) :
        LET f == gFile[Process[t]]
            out == f.mode \notin Closed /\ (flush \/ Len(buf) >= BufSize)
            pos == IF f.mode = "app" THEN Len(log) ELSE f.pos
        IN /\ log' = IF out THEN Overwrite(log, pos, buf) ELSE log
           /\ gFile' = [gFile EXCEPT ![Process[t]].buf = IF out \/ f.mode \in Closed THEN <<>> ELSE buf,
                                     ![Process[t]].pos = IF out THEN pos + Len(buf) ELSE @,
                                     ![Process[t]].torn = @ \/ Races(t)]

\* To the file: a difference is flushed with its last part, under the lock.
WritesPart(t) ==
    LET part == writer[t].part
        last == IF writer[t].form = "archive" THEN Parts - 1 ELSE Parts
    IN /\ At(t, "write") /\ writer[t].file
       /\ Put(t, part = Parts)
       /\ writer' = [writer EXCEPT ![t].part = part + 1,
                                   ![t].pc = IF part = last THEN "unlock" ELSE "write"]
       /\ UNCHANGED <<mutexVars, alive>>

\* The end of writeSerializedRequest: oa goes out of scope.
text_oarchive(t) ==
    /\ At(t, "endl")
    /\ Put(t, TRUE)
    /\ writer' = [writer EXCEPT ![t].part = Parts + 1, ![t].pc = "written"]
    /\ UNCHANGED <<mutexVars, alive>>

\* To the syslog: a json difference at once, the others in pieces.
writeInFacility(t) ==
    LET part == writer[t].part
        upto == IF writer[t].form = "json" THEN Parts ELSE part
    IN /\ At(t, "write") /\ ~writer[t].file
       /\ log' = log \o [i \in 1 .. upto - part + 1 |-> <<t, part + i - 1>>]
       /\ writer' = [writer EXCEPT ![t].part = upto + 1,
                                   ![t].pc = IF upto < Parts THEN "write"
                                             ELSE IF writer[t].form = "multiline" THEN "unlock"
                                             ELSE "written"]
       /\ UNCHANGED <<mutexVars, gFile, alive>>

\* comp_truncate, on the stream of the process and without the mutex: close()
\* writes the buffer, open() empties the file.
TruncateCloses(p, file) ==
    LET f == gFile[p]
        pos == IF f.mode = "app" THEN Len(log) ELSE f.pos
    IN /\ gFile' = [gFile EXCEPT ![p] = [f EXCEPT !.mode = "closing", !.pos = 0, !.buf = <<>>]]
       /\ log' = IF file THEN Overwrite(log, pos, f.buf) ELSE log

TruncateOpens(p, file) ==
    /\ gFile' = [gFile EXCEPT ![p].mode = "trunc"]
    /\ log' = IF file THEN <<>> ELSE log

\* One step of a thread that writes its record.
WriterStep(t) ==
    \/ StartsWriting(t)
    \/ createGlobalMutex(t)
    \/ ftruncate(t)
    \/ pthread_mutex_init(t)
    \/ getGlobalMutex(t)
    \/ pthread_mutex_lock(t)
    \/ LockWithoutMemory(t)
    \/ LockSleeps(t)
    \/ pthread_mutex_unlock(t)
    \/ WritesPart(t)
    \/ text_oarchive(t)
    \/ writeInFacility(t)

-----------------------------------------------------------------------------
(* What the mutex and the log are for.                                     *)

Critical(t) == Process[t] \in alive /\ writer[t].pc \in {"write", "unlock"} /\ NeedsMutex(t)

\* One record at a time is written, by whatever process, also after the owner
\* of the mutex was killed. The exception is a mutex that was locked in the
\* window in which its creator had not initialised it (createGlobalMutex).
LogExclusive ==
    (early /\ shm = "ready")
    \/ \A t1, t2 \in Threads : Critical(t1) /\ Critical(t2) => t1 = t2

Truncated == \E p \in Processes : gFile[p].mode \in {"closing", "trunc"}

Positions(t) == {i \in DOMAIN log : log[i][1] = t}

\* A record that was written is in the log, every part once and in order,
\* whatever died meanwhile: it left the buffer before its writer went on. That
\* is so unless two threads of its process used the stream at once, which only
\* archives or a mutex that was locked too early let them do.
RecordsKept ==
    /\ \A t \in Threads :
        writer[t].pc = "written" /\ ~Truncated /\ ~gFile[Process[t]].torn =>
            /\ {log[i][2] : i \in Positions(t)} = 1 .. Parts
            /\ \A i, j \in Positions(t) : i < j => log[i][2] < log[j][2]
    /\ \A p \in Processes :
        gFile[p].torn => early \/ \E t \in Threads : Process[t] = p /\ writer[t].form = "archive"

\* The parts of a record of differences are together, not mixed with others',
\* where nobody writes archives: the last part of those is written after the
\* unlock, and may come in the middle of any record.
RecordsWhole ==
    \A t \in Threads :
        writer[t].pc = "written" /\ ~Truncated /\ ~early
        /\ (\A u \in Threads : writer[u].form # "archive") =>
            \A i \in Positions(t) : log[i][2] < Parts => i + 1 \in Positions(t)
============================================================================
