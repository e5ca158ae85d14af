--------------------------- MODULE CompareProofs ---------------------------
(***************************************************************************)
(* The mutex in shared memory does its work: of the threads of all the     *)
(* processes one at a time writes a record, whichever process dies and     *)
(* whoever creates the mutex (LogExclusive), for any number of threads and *)
(* processes, any requests and any directives.                             *)
(* And the handler reads the original request (RequestRestored): a length  *)
(* on its digits is read back as it was written, deserializeBody restores  *)
(* what Serialize packed, and no byte is lost or repeated between network, *)
(* mod_migrate, inputFilterHandler and the handler, unless a failed read   *)
(* was taken for the end of the body (RequestInv).                         *)
(* And mod_migrate sets the variables that its rules find in the whole     *)
(* request (EnvMatches).                                                   *)
(***************************************************************************)
EXTENDS Compare, SequenceTheorems, FiniteSetTheorems, WellFoundedInduction, TLAPS

-----------------------------------------------------------------------------
(* The inductive invariant.                                                *)

Fields == {"pc", "part", "form", "file"}

Shape ==
    /\ DOMAIN writer = Threads
    /\ \A t \in Threads : DOMAIN writer[t] = Fields
    /\ owner \in Threads \cup {Nobody}
    /\ shm \in {"none", "empty", "zero", "ready", "denied"}
    /\ DOMAIN rq = Serving

\* Only a request in its second output filter has a record on its way.
Resting == {"idle", "written", "dropped"}

UnderWay == \A t \in Threads : writer[t].pc \in Resting \/ (t \in Serving /\ rq[t].pc = "write")

\* O_CREAT with O_EXCL: one thread creates the mutex, in the steps shm follows.
Creating == {"ftruncate", "init"}

Creators ==
    /\ \A t \in Threads :
        /\ writer[t].pc = "ftruncate" => shm = "empty"
        /\ writer[t].pc = "init" => shm = "zero"
    /\ \A t1, t2 \in Threads : writer[t1].pc \in Creating /\ writer[t2].pc \in Creating => t1 = t2

\* Nobody reaches the mutex before the memory for it was made.
Mapped ==
    /\ mapped # {} => shm \notin {"none", "denied"}
    /\ \A t \in Threads : writer[t].pc \in {"mmap", "lock", "asleep"} => shm \notin {"none", "denied"}

\* A mutex that nobody locked too early is free when it is initialised.
FreeBefore == early \/ shm = "ready" \/ owner = Nobody

DeadOwner == ownerDead => owner # Nobody /\ Process[owner] \notin alive

Owns == (early /\ shm = "ready") \/ \A t \in Threads : Critical(t) => owner = t

LogInv == Shape /\ UnderWay /\ Creators /\ Mapped /\ FreeBefore /\ DeadOwner /\ Owns

-----------------------------------------------------------------------------
(* What a step of a thread does to the writers.                            *)

LEMMA GotoOne ==
    ASSUME Shape, NEW t \in Threads, NEW c, Goto(t, c)
    PROVE  /\ DOMAIN writer' = Threads
           /\ \A u \in Threads : DOMAIN writer'[u] = Fields
           /\ \A u \in Threads : u # t => writer'[u] = writer[u]
           /\ writer'[t].pc = c
           /\ writer'[t].form = writer[t].form /\ writer'[t].file = writer[t].file
BY DEF Shape, Goto, Fields

\* As GotoOne, for the steps that also count the parts.
LEMMA GotoPart ==
    ASSUME Shape, NEW t \in Threads, NEW c, NEW k,
           writer' = [writer EXCEPT ![t].part = k, ![t].pc = c]
    PROVE  /\ DOMAIN writer' = Threads
           /\ \A u \in Threads : DOMAIN writer'[u] = Fields
           /\ \A u \in Threads : u # t => writer'[u] = writer[u]
           /\ writer'[t].pc = c
           /\ writer'[t].form = writer[t].form /\ writer'[t].file = writer[t].file
BY DEF Shape, Fields

\* A step that leaves the mutex and the processes alone: it moves t from one
\* place to another, and into the critical section only with no need for it.
LEMMA PlainStep ==
    ASSUME LogInv, NEW t \in Threads, t \in Serving, rq[t].pc = "write",
           UNCHANGED <<scenario, rq, mutexVars, alive>>,
           DOMAIN writer' = Threads,
           \A u \in Threads : DOMAIN writer'[u] = Fields,
           \A u \in Threads : u # t => writer'[u] = writer[u],
           writer'[t].pc \notin Creating,
           writer'[t].pc \in {"mmap", "lock", "asleep"} => shm \notin {"none", "denied"},
           Critical(t)' => Critical(t)
    PROVE  LogInv'
<1>1. Shape' /\ UnderWay'
  BY DEF LogInv, Shape, UnderWay, Serving, mutexVars
<1>2. Creators' /\ Mapped'
  BY DEF LogInv, Creators, Creating, Mapped, mutexVars
<1>3. FreeBefore' /\ DeadOwner'
  BY DEF LogInv, FreeBefore, DeadOwner, mutexVars
<1>4. \A u \in Threads : Critical(u)' => Critical(u)
  BY DEF Critical, NeedsMutex
<1>5. Owns'
  BY <1>4 DEF LogInv, Owns, mutexVars
<1> QED BY <1>1, <1>2, <1>3, <1>5 DEF LogInv

LEMMA StartsWritingStep ==
    ASSUME LogInv, NEW t \in Threads, t \in Serving, rq[t].pc = "write",
           UNCHANGED <<scenario, rq>>, StartsWriting(t)
    PROVE  LogInv'
<1> DEFINE c == IF writer[t].file /\ gFile[Process[t]].mode \in Closed THEN "dropped"
                ELSE IF NeedsMutex(t) THEN "mutex" ELSE "write"
<1>1. Goto(t, c) /\ UNCHANGED <<mutexVars, alive>>
  BY DEF StartsWriting
<1>2. c \in {"dropped", "mutex", "write"} /\ (c = "write" => ~NeedsMutex(t))
  OBVIOUS
<1> HIDE DEF c
<1>3. /\ DOMAIN writer' = Threads
      /\ \A u \in Threads : DOMAIN writer'[u] = Fields
      /\ \A u \in Threads : u # t => writer'[u] = writer[u]
      /\ writer'[t].pc = c
      /\ writer'[t].form = writer[t].form /\ writer'[t].file = writer[t].file
  BY <1>1, GotoOne DEF LogInv
<1>4. Critical(t)' => Critical(t)
  BY <1>2, <1>3 DEF Critical, NeedsMutex
<1> QED BY <1>1, <1>2, <1>3, <1>4, PlainStep DEF Creating

LEMMA WritesPartStep ==
    ASSUME LogInv, NEW t \in Threads, t \in Serving, rq[t].pc = "write",
           UNCHANGED <<scenario, rq>>,
           WritesPart(t) \/ text_oarchive(t) \/ writeInFacility(t)
    PROVE  LogInv'
<1>1. PICK k, c :
        /\ writer' = [writer EXCEPT ![t].part = k, ![t].pc = c]
        /\ c \in {"write", "unlock", "written"}
        /\ writer[t].pc \in {"write", "endl"}
        /\ writer[t].pc = "endl" => c = "written"
        /\ Process[t] \in alive
  <2>1. CASE WritesPart(t)
    BY <2>1 DEF WritesPart, At
  <2>2. CASE text_oarchive(t)
    BY <2>2 DEF text_oarchive, At
  <2>3. CASE writeInFacility(t)
    BY <2>3 DEF writeInFacility, At
  <2> QED BY <2>1, <2>2, <2>3
<1>2. UNCHANGED <<mutexVars, alive>>
  BY DEF WritesPart, text_oarchive, writeInFacility
<1>3. /\ DOMAIN writer' = Threads
      /\ \A u \in Threads : DOMAIN writer'[u] = Fields
      /\ \A u \in Threads : u # t => writer'[u] = writer[u]
      /\ writer'[t].pc = c
      /\ writer'[t].form = writer[t].form /\ writer'[t].file = writer[t].file
  BY <1>1, GotoPart DEF LogInv
<1>4. Critical(t)' => Critical(t)
  BY <1>1, <1>2, <1>3 DEF Critical, NeedsMutex
<1> QED BY <1>1, <1>2, <1>3, <1>4, PlainStep DEF Creating

-----------------------------------------------------------------------------
(* The creation of the mutex.                                              *)

LEMMA createGlobalMutexStep ==
    ASSUME LogInv, NEW t \in Threads, t \in Serving, rq[t].pc = "write",
           UNCHANGED <<scenario, rq>>, createGlobalMutex(t)
    PROVE  LogInv'
<1> DEFINE c == CASE shm = "none"   -> "ftruncate"
                  [] shm = "denied" -> "dropped"
                  [] OTHER          -> "mmap"
<1>1. /\ Goto(t, c) /\ UNCHANGED <<owner, ownerDead, early, mapped, alive>>
      /\ shm' = IF shm = "none" THEN "empty" ELSE shm
  BY DEF createGlobalMutex
<1>2. /\ c \in {"ftruncate", "dropped", "mmap"}
      /\ c = "ftruncate" => shm = "none"
      /\ c = "mmap" => shm \notin {"none", "denied"}
  OBVIOUS
<1> HIDE DEF c
<1>3. /\ DOMAIN writer' = Threads
      /\ \A u \in Threads : DOMAIN writer'[u] = Fields
      /\ \A u \in Threads : u # t => writer'[u] = writer[u]
      /\ writer'[t].pc = c
  BY <1>1, GotoOne DEF LogInv
<1>4. Shape' /\ UnderWay'
  BY <1>1, <1>3 DEF LogInv, Shape, UnderWay, Serving
<1>5. shm = "none" => \A u \in Threads : writer[u].pc \notin Creating
  BY DEF LogInv, Creators, Creating
<1>6. Creators'
  BY <1>1, <1>2, <1>3, <1>5 DEF LogInv, Creators, Creating
<1>7. Mapped' /\ FreeBefore' /\ DeadOwner'
  BY <1>1, <1>2, <1>3 DEF LogInv, Mapped, FreeBefore, DeadOwner
<1>8. \A u \in Threads : Critical(u)' => Critical(u)
  BY <1>1, <1>2, <1>3 DEF Critical, NeedsMutex
<1>9. Owns'
  BY <1>1, <1>8 DEF LogInv, Owns
<1> QED BY <1>4, <1>6, <1>7, <1>9 DEF LogInv

LEMMA ftruncateStep ==
    ASSUME LogInv, NEW t \in Threads, t \in Serving, rq[t].pc = "write",
           UNCHANGED <<scenario, rq>>, ftruncate(t)
    PROVE  LogInv'
<1>1. /\ Goto(t, "init") /\ UNCHANGED <<owner, ownerDead, early, mapped, alive>>
      /\ writer[t].pc = "ftruncate"
      /\ shm = "empty" /\ shm' = "zero"
  BY DEF ftruncate, At, LogInv, Creators
<1>2. /\ DOMAIN writer' = Threads
      /\ \A u \in Threads : DOMAIN writer'[u] = Fields
      /\ \A u \in Threads : u # t => writer'[u] = writer[u]
      /\ writer'[t].pc = "init"
  BY <1>1, GotoOne DEF LogInv
<1>3. Shape' /\ UnderWay'
  BY <1>1, <1>2 DEF LogInv, Shape, UnderWay, Serving
<1>4. \A u \in Threads : u # t => writer[u].pc \notin Creating
  BY <1>1 DEF LogInv, Creators, Creating
<1>5. Creators'
  BY <1>1, <1>2, <1>4 DEF Creators, Creating
<1>6. Mapped' /\ FreeBefore' /\ DeadOwner'
  BY <1>1, <1>2 DEF LogInv, Mapped, FreeBefore, DeadOwner
<1>7. \A u \in Threads : Critical(u)' => Critical(u)
  BY <1>1, <1>2 DEF Critical, NeedsMutex
<1>8. Owns'
  BY <1>1, <1>7 DEF LogInv, Owns
<1> QED BY <1>3, <1>5, <1>6, <1>8 DEF LogInv

\* The creator frees the mutex; nobody had it, if nobody came too early.
LEMMA pthread_mutex_initStep ==
    ASSUME LogInv, NEW t \in Threads, t \in Serving, rq[t].pc = "write",
           UNCHANGED <<scenario, rq>>, pthread_mutex_init(t)
    PROVE  LogInv'
<1>1. /\ Goto(t, "mmap") /\ UNCHANGED <<early, mapped, alive>>
      /\ writer[t].pc = "init"
      /\ shm = "zero" /\ shm' = "ready"
      /\ owner' = Nobody /\ ownerDead' = FALSE
  BY DEF pthread_mutex_init, At, LogInv, Creators
<1>2. /\ DOMAIN writer' = Threads
      /\ \A u \in Threads : DOMAIN writer'[u] = Fields
      /\ \A u \in Threads : u # t => writer'[u] = writer[u]
      /\ writer'[t].pc = "mmap"
  BY <1>1, GotoOne DEF LogInv
<1>3. Shape' /\ UnderWay'
  BY <1>1, <1>2 DEF LogInv, Shape, UnderWay, Serving
<1>4. \A u \in Threads : u # t => writer[u].pc \notin Creating
  BY <1>1 DEF LogInv, Creators, Creating
<1>5. Creators'
  BY <1>1, <1>2, <1>4 DEF Creators, Creating
<1>6. Mapped' /\ FreeBefore' /\ DeadOwner'
  BY <1>1, <1>2 DEF LogInv, Mapped, FreeBefore, DeadOwner
<1>7. \A u \in Threads : Critical(u)' => Critical(u)
  BY <1>1, <1>2 DEF Critical, NeedsMutex
<1>8. early \/ owner = Nobody
  BY <1>1 DEF LogInv, FreeBefore
<1>9. early \/ \A u \in Threads : ~Critical(u)
  BY <1>1, <1>8, CompareLogAssumption DEF LogInv, Owns
<1>10. Owns'
  BY <1>1, <1>7, <1>9 DEF Owns
<1> QED BY <1>3, <1>5, <1>6, <1>10 DEF LogInv

LEMMA getGlobalMutexStep ==
    ASSUME LogInv, NEW t \in Threads, t \in Serving, rq[t].pc = "write",
           UNCHANGED <<scenario, rq>>, getGlobalMutex(t)
    PROVE  LogInv'
<1>1. /\ Goto(t, "lock") /\ UNCHANGED <<shm, owner, ownerDead, early, alive>>
      /\ shm \notin {"none", "denied"}
  BY DEF getGlobalMutex, At, LogInv, Mapped
<1>2. /\ DOMAIN writer' = Threads
      /\ \A u \in Threads : DOMAIN writer'[u] = Fields
      /\ \A u \in Threads : u # t => writer'[u] = writer[u]
      /\ writer'[t].pc = "lock"
  BY <1>1, GotoOne DEF LogInv
<1>3. Shape' /\ UnderWay'
  BY <1>1, <1>2 DEF LogInv, Shape, UnderWay, Serving
<1>4. Creators' /\ Mapped' /\ FreeBefore' /\ DeadOwner'
  BY <1>1, <1>2 DEF LogInv, Creators, Creating, Mapped, FreeBefore, DeadOwner
<1>5. \A u \in Threads : Critical(u)' => Critical(u)
  BY <1>1, <1>2 DEF Critical, NeedsMutex
<1>6. Owns'
  BY <1>1, <1>5 DEF LogInv, Owns
<1> QED BY <1>3, <1>4, <1>6 DEF LogInv

-----------------------------------------------------------------------------
(* Locking and unlocking.                                                  *)

\* Whoever gets the mutex finds nobody in the critical section: its owner has
\* unlocked it or is dead.
LEMMA pthread_mutex_lockStep ==
    ASSUME LogInv, NEW t \in Threads, t \in Serving, rq[t].pc = "write",
           UNCHANGED <<scenario, rq>>, pthread_mutex_lock(t)
    PROVE  LogInv'
<1>1. /\ Goto(t, "write") /\ UNCHANGED <<shm, mapped, alive>>
      /\ writer[t].pc = "lock" /\ MayLock /\ shm # "empty"
      /\ owner' = t /\ ownerDead' = FALSE
      /\ early' = (early \/ shm = "zero")
  BY DEF pthread_mutex_lock, At
<1>2. /\ DOMAIN writer' = Threads
      /\ \A u \in Threads : DOMAIN writer'[u] = Fields
      /\ \A u \in Threads : u # t => writer'[u] = writer[u]
      /\ writer'[t].pc = "write"
  BY <1>1, GotoOne DEF LogInv
<1>3. Shape' /\ UnderWay'
  BY <1>1, <1>2 DEF LogInv, Shape, UnderWay, Serving
<1>4. Creators' /\ Mapped'
  BY <1>1, <1>2 DEF LogInv, Creators, Creating, Mapped
<1>5. shm \notin {"none", "denied"}
  BY <1>1 DEF LogInv, Mapped
<1>6. DeadOwner'
  BY <1>1 DEF DeadOwner
<1>7. early' \/ shm' = "ready"
  <2> SUFFICES ASSUME shm # "ready" PROVE early'
    BY <1>1
  <2>1. shm \in {"none", "denied", "empty", "zero", "ready"}
    BY DEF LogInv, Shape
  <2> QED BY <1>1, <1>5, <2>1
<1>8. ASSUME NEW u \in Threads, Critical(u), ~(early /\ shm = "ready") PROVE FALSE
  <2>1. owner = u
    BY <1>8 DEF LogInv, Owns
  <2>2. Process[u] \in alive
    BY <1>8 DEF Critical
  <2> QED BY <1>1, <2>1, <2>2, CompareLogAssumption DEF MayLock, LogInv, DeadOwner
<1>9. \A u \in Threads : u # t => (Critical(u)' => Critical(u))
  BY <1>1, <1>2 DEF Critical, NeedsMutex
<1>10. Owns'
  BY <1>1, <1>8, <1>9 DEF Owns
<1> QED BY <1>3, <1>4, <1>6, <1>7, <1>10 DEF LogInv, FreeBefore

\* With a thread asleep the mutex was used before it was initialised.
LEMMA LockSleepsStep ==
    ASSUME LogInv, NEW t \in Threads, t \in Serving, rq[t].pc = "write",
           UNCHANGED <<scenario, rq>>, LockSleeps(t)
    PROVE  LogInv'
<1>1. /\ Goto(t, "asleep") /\ UNCHANGED <<shm, owner, ownerDead, mapped, alive>>
      /\ shm = "zero" /\ early' = TRUE
  BY DEF LockSleeps, At
<1>2. /\ DOMAIN writer' = Threads
      /\ \A u \in Threads : DOMAIN writer'[u] = Fields
      /\ \A u \in Threads : u # t => writer'[u] = writer[u]
      /\ writer'[t].pc = "asleep"
  BY <1>1, GotoOne DEF LogInv
<1>3. Shape' /\ UnderWay'
  BY <1>1, <1>2 DEF LogInv, Shape, UnderWay, Serving
<1>4. Creators' /\ Mapped' /\ FreeBefore' /\ DeadOwner'
  BY <1>1, <1>2 DEF LogInv, Creators, Creating, Mapped, FreeBefore, DeadOwner
<1>5. \A u \in Threads : Critical(u)' => Critical(u)
  BY <1>1, <1>2 DEF Critical, NeedsMutex
<1>6. Owns'
  BY <1>1, <1>5 DEF LogInv, Owns
<1> QED BY <1>3, <1>4, <1>6 DEF LogInv

LEMMA LockWakesStep ==
    ASSUME LogInv, NEW t \in Threads, t \in Serving, rq[t].pc = "write",
           UNCHANGED <<scenario, rq>>, LockWakes(t)
    PROVE  LogInv'
<1>1. Goto(t, "lock") /\ UNCHANGED <<mutexVars, alive>> /\ shm \notin {"none", "denied"}
  BY DEF LockWakes, At, LogInv, Mapped
<1>2. /\ DOMAIN writer' = Threads
      /\ \A u \in Threads : DOMAIN writer'[u] = Fields
      /\ \A u \in Threads : u # t => writer'[u] = writer[u]
      /\ writer'[t].pc = "lock"
  BY <1>1, GotoOne DEF LogInv
<1>3. Critical(t)' => Critical(t)
  BY <1>2 DEF Critical
<1> QED BY <1>1, <1>2, <1>3, PlainStep DEF Creating

\* A mutex is given up by its owner, and by nobody else.
LEMMA pthread_mutex_unlockStep ==
    ASSUME LogInv, NEW t \in Threads, t \in Serving, rq[t].pc = "write",
           UNCHANGED <<scenario, rq>>, pthread_mutex_unlock(t)
    PROVE  LogInv'
<1> DEFINE c == IF writer[t].part <= Parts THEN "endl" ELSE "written"
<1>1. /\ Goto(t, c) /\ UNCHANGED <<shm, early, mapped, alive>>
      /\ owner' = IF owner = t THEN Nobody ELSE owner
      /\ ownerDead' = (ownerDead /\ owner # t)
  BY DEF pthread_mutex_unlock
<1>2. c \in {"endl", "written"}
  OBVIOUS
<1> HIDE DEF c
<1>3. /\ DOMAIN writer' = Threads
      /\ \A u \in Threads : DOMAIN writer'[u] = Fields
      /\ \A u \in Threads : u # t => writer'[u] = writer[u]
      /\ writer'[t].pc = c
  BY <1>1, GotoOne DEF LogInv
<1>4. Shape' /\ UnderWay'
  BY <1>1, <1>3 DEF LogInv, Shape, UnderWay, Serving
<1>5. Creators' /\ Mapped' /\ FreeBefore'
  BY <1>1, <1>2, <1>3 DEF LogInv, Creators, Creating, Mapped, FreeBefore
<1>6. DeadOwner'
  BY <1>1 DEF LogInv, DeadOwner
<1>7. \A u \in Threads : Critical(u)' => Critical(u) /\ u # t
  BY <1>1, <1>2, <1>3 DEF Critical, NeedsMutex
<1>8. Owns'
  BY <1>1, <1>7 DEF LogInv, Owns
<1> QED BY <1>4, <1>5, <1>6, <1>8 DEF LogInv

\* A process that dies leaves the critical section, and the mutex to its heir.
LEMMA DieStep ==
    ASSUME LogInv, NEW p, UNCHANGED <<scenario, rq>>, Die(p)
    PROVE  LogInv'
<1>1. /\ UNCHANGED <<shm, owner, early, mapped, writer>>
      /\ alive' = alive \ {p}
      /\ ownerDead' = (ownerDead \/ (owner # Nobody /\ Process[owner] = p))
  BY DEF Die
<1>2. Shape' /\ UnderWay' /\ Creators' /\ Mapped' /\ FreeBefore'
  BY <1>1 DEF LogInv, Shape, UnderWay, Serving, Creators, Mapped, FreeBefore
<1>3. DeadOwner'
  BY <1>1 DEF LogInv, DeadOwner
<1>4. \A u \in Threads : Critical(u)' => Critical(u)
  BY <1>1 DEF Critical, NeedsMutex
<1>5. Owns'
  BY <1>1, <1>4 DEF LogInv, Owns
<1> QED BY <1>2, <1>3, <1>5 DEF LogInv

-----------------------------------------------------------------------------
(* The requests.                                                           *)

\* A request that is in no record may become anything.
LEMMA RequestStep ==
    ASSUME LogInv, NEW t \in Serving, NEW x, Becomes(t, x),
           rq[t].pc # "write" \/ writer[t].pc \in Resting,
           UNCHANGED <<scenario, mutexVars, alive, writer>>
    PROVE  LogInv'
<1>1. DOMAIN rq' = Serving /\ \A u \in Serving : u # t => rq'[u] = rq[u]
  BY DEF Becomes, LogInv, Shape
<1>2. Shape' /\ UnderWay'
  BY <1>1 DEF LogInv, Shape, UnderWay, Serving, mutexVars
<1>3. Creators' /\ Mapped' /\ FreeBefore' /\ DeadOwner'
  BY DEF LogInv, Creators, Mapped, FreeBefore, DeadOwner, mutexVars
<1>4. \A u \in Threads : Critical(u)' <=> Critical(u)
  BY DEF Critical, NeedsMutex
<1>5. Owns'
  BY <1>4 DEF LogInv, Owns, mutexVars
<1> QED BY <1>2, <1>3, <1>5 DEF LogInv

\* The record is begun, outside of the critical section.
LEMMA WritesStep ==
    ASSUME LogInv, NEW t \in Threads, t \in Serving, NEW form, NEW x, Becomes(t, x),
           x.pc = "write", Writes(t, form),
           UNCHANGED <<scenario, mutexVars, alive>>
    PROVE  LogInv'
<1>1. DOMAIN rq' = Serving /\ rq'[t].pc = "write" /\ \A u \in Serving : u # t => rq'[u] = rq[u]
  BY DEF Becomes, LogInv, Shape
<1>2. /\ DOMAIN writer' = Threads
      /\ \A u \in Threads : u # t => writer'[u] = writer[u]
      /\ writer'[t] = [NoWriter EXCEPT !.pc = "start", !.form = form, !.file = conf.gWriteInFile]
  BY DEF LogInv, Shape, Writes
<1>3. writer'[t].pc = "start" /\ DOMAIN writer'[t] = Fields
  BY <1>2 DEF NoWriter, Fields
<1>4. Shape'
  BY <1>1, <1>2, <1>3 DEF LogInv, Shape, Serving, mutexVars
<1>5. UnderWay'
  BY <1>1, <1>2, <1>3 DEF LogInv, UnderWay, Serving
<1>6. Creators' /\ Mapped' /\ FreeBefore' /\ DeadOwner'
  BY <1>2, <1>3 DEF LogInv, Creators, Creating, Mapped, FreeBefore, DeadOwner, mutexVars
<1>7. \A u \in Threads : Critical(u)' => Critical(u)
  BY <1>2, <1>3 DEF Critical, NeedsMutex
<1>8. Owns'
  BY <1>7 DEF LogInv, Owns, mutexVars
<1> QED BY <1>4, <1>5, <1>6, <1>8 DEF LogInv

LEMMA WriterSteps ==
    ASSUME LogInv, NEW t \in Threads, WritesRecord(t) \/ Wakes(t)
    PROVE  LogInv'
<1>1. t \in Serving /\ rq[t].pc = "write" /\ UNCHANGED <<scenario, rq>>
  BY DEF WritesRecord, Wakes, Running
<1>2. WriterStep(t) \/ LockWakes(t)
  BY DEF WritesRecord, Wakes
<1>3. ASSUME LockWithoutMemory(t) PROVE LogInv'
  BY <1>1, <1>3, DieStep DEF LockWithoutMemory
<1>4. CASE StartsWriting(t) \/ WritesPart(t) \/ text_oarchive(t) \/ writeInFacility(t)
  BY <1>1, <1>4, StartsWritingStep, WritesPartStep
<1>5. CASE createGlobalMutex(t) \/ ftruncate(t) \/ pthread_mutex_init(t) \/ getGlobalMutex(t)
  BY <1>1, <1>5, createGlobalMutexStep, ftruncateStep, pthread_mutex_initStep, getGlobalMutexStep
<1>6. CASE pthread_mutex_lock(t) \/ LockSleeps(t) \/ LockWakes(t) \/ pthread_mutex_unlock(t)
  BY <1>1, <1>6, pthread_mutex_lockStep, LockSleepsStep, LockWakesStep, pthread_mutex_unlockStep
<1> QED BY <1>2, <1>3, <1>4, <1>5, <1>6 DEF WriterStep

\* Of the other steps of a request, those that leave the writers alone.
LEMMA ReadingStep ==
    ASSUME LogInv, NEW t \in Threads,
           \/ translateHookCompare(t) \/ translateHookMigrate(t) \/ Translated(t)
           \/ inputFilterHandler(t) \/ Unpacks(t) \/ StopsReading(t)
    PROVE  LogInv'
<1>1. t \in Serving /\ rq[t].pc # "write"
  BY DEF translateHookCompare, translateHookMigrate, Translated, inputFilterHandler,
     Unpacks, StopsReading, Running
<1>2. UNCHANGED <<scenario, mutexVars, alive, writer>>
  BY DEF translateHookCompare, translateHookMigrate, Translated, inputFilterHandler,
     Unpacks, StopsReading, OnlyRequest, logVars
<1>3. \E x : Becomes(t, x)
  <2>1. CASE translateHookCompare(t)
    BY <2>1, Zenon DEF translateHookCompare
  <2>2. CASE translateHookMigrate(t)
    BY <2>2, Zenon DEF translateHookMigrate
  <2>3. CASE Translated(t)
    BY <2>3, Zenon DEF Translated
  <2>4. CASE inputFilterHandler(t)
    BY <2>4, Zenon DEF inputFilterHandler
  <2>5. CASE Unpacks(t)
    BY <2>5, Zenon DEF Unpacks
  <2>6. CASE StopsReading(t)
    BY <2>6, Zenon DEF StopsReading
  <2> QED BY <2>1, <2>2, <2>3, <2>4, <2>5, <2>6
<1> QED BY <1>1, <1>2, <1>3, RequestStep

LEMMA RespondingStep ==
    ASSUME LogInv, NEW t \in Threads,
           \/ outputFilterHandler(t) \/ TruncatesLog(t) \/ PassesOn(t) \/ outputFilterHandler2(t)
           \/ PassesAgain(t) \/ Finishes(t) \/ RecordWritten(t)
    PROVE  LogInv'
<1>1. t \in Serving /\ (rq[t].pc # "write" \/ writer[t].pc \in Resting)
  BY DEF outputFilterHandler, TruncatesLog, PassesOn, outputFilterHandler2, PassesAgain,
     Finishes, RecordWritten, Running, Resting
<1>2. UNCHANGED <<scenario, mutexVars, alive, writer>>
  BY DEF outputFilterHandler, TruncatesLog, PassesOn, outputFilterHandler2, PassesAgain,
     Finishes, RecordWritten, OnlyRequest, logVars
<1>3. \E x : Becomes(t, x)
  <2>1. CASE outputFilterHandler(t)
    BY <2>1, Zenon DEF outputFilterHandler
  <2>2. CASE TruncatesLog(t)
    BY <2>2, Zenon DEF TruncatesLog
  <2>3. CASE PassesOn(t)
    BY <2>3, Zenon DEF PassesOn
  <2>4. CASE outputFilterHandler2(t)
    BY <2>4, Zenon DEF outputFilterHandler2
  <2>5. CASE PassesAgain(t) \/ Finishes(t) \/ RecordWritten(t)
    BY <2>5, Zenon DEF PassesAgain, Finishes, RecordWritten
  <2> QED BY <2>1, <2>2, <2>3, <2>4, <2>5
<1> QED BY <1>1, <1>2, <1>3, RequestStep

LEMMA RecordStep ==
    ASSUME LogInv, NEW t \in Threads,
           writeSerializedRequest(t) \/ writeDifferences(t) \/ writeDifferencesThrows(t)
    PROVE  LogInv'
<1>1. CASE writeSerializedRequest(t)
  <2> DEFINE x == [rq[t] EXCEPT !.pc = "write", !.logged = TRUE]
  <2>1. t \in Serving /\ Becomes(t, x) /\ Writes(t, "archive") /\ UNCHANGED <<scenario, mutexVars, alive>>
    BY <1>1 DEF writeSerializedRequest, Running
  <2>2. x.pc = "write"
    BY <2>1 DEF LogInv, Shape
  <2> QED BY <2>1, <2>2, WritesStep
<1>2. CASE writeDifferences(t)
  <2> DEFINE printer == [rq[t].printer EXCEPT !.cassandra = writeCassandraDiff(t).taken]
             x == [rq[t] EXCEPT !.pc = "write", !.printer = printer, !.logged = TRUE]
  <2>1. t \in Serving /\ rq[t].pc # "write" /\ UNCHANGED <<scenario, mutexVars, alive>>
    BY <1>2 DEF writeDifferences, Running
  <2>2. \/ Becomes(t, x) /\ Writes(t, conf.compare.mLogType)
        \/ Becomes(t, Compared(rq[t])) /\ UNCHANGED writer
    BY <1>2, Zenon DEF writeDifferences
  <2>3. x.pc = "write"
    OBVIOUS
  <2>4. CASE Becomes(t, x) /\ Writes(t, conf.compare.mLogType)
    <3> HIDE DEF x
    <3> QED BY <2>1, <2>3, <2>4, WritesStep
  <2>5. CASE Becomes(t, Compared(rq[t])) /\ UNCHANGED writer
    BY <2>1, <2>5, RequestStep
  <2> QED BY <2>2, <2>4, <2>5
<1>3. CASE writeDifferencesThrows(t)
  BY <1>3, DieStep DEF writeDifferencesThrows
<1> QED BY <1>1, <1>2, <1>3

\* The directives, which come before any request.
LEMMA ConfigureStep ==
    ASSUME LogInv, Configure \/ UNCHANGED vars
    PROVE  LogInv'
<1>1. UNCHANGED <<scenario, rq, mutexVars, alive, writer>>
  BY DEF Configure, setBodyList, setHeaderList, setDiffLogType, setDisableLibwsdiff, setCompareLog,
     setCompare, setApplicationScope, setMigrateEnv, postConfig, Directive, vars, logVars
<1>2. Shape' /\ UnderWay' /\ Creators' /\ Mapped' /\ FreeBefore' /\ DeadOwner'
  BY <1>1 DEF LogInv, Shape, UnderWay, Serving, Creators, Mapped, FreeBefore, DeadOwner, mutexVars
<1>3. \A u \in Threads : Critical(u)' <=> Critical(u)
  BY <1>1 DEF Critical, NeedsMutex
<1>4. Owns'
  BY <1>1, <1>3 DEF LogInv, Owns, mutexVars
<1> QED BY <1>2, <1>4 DEF LogInv

\* The invariant of the mutex. Creators is what makes it inductive: the owner is
\* forgotten by pthread_mutex_init only, which one thread calls once.
THEOREM LogInvariant == Spec => []LogInv
<1>1. Init => LogInv
  <2> SUFFICES ASSUME Init PROVE LogInv
    OBVIOUS
  <2>1. /\ shm = scenario.shm /\ scenario \in Scenarios /\ owner = Nobody /\ ownerDead = FALSE
        /\ early = FALSE /\ mapped = {} /\ writer = [t \in Threads |-> NoWriter]
        /\ rq = [t \in Serving |-> NewRequest(Request(t), scenario.hooks)]
    BY DEF Init, LogInit
  <2>2. \A t \in Threads : writer[t].pc = "idle" /\ DOMAIN writer[t] = Fields
    BY <2>1 DEF NoWriter, Fields
  <2>3. Shape
    BY <2>1, <2>2, CompareAssumption DEF Shape
  <2>4. UnderWay /\ Creators /\ Mapped
    BY <2>1, <2>2 DEF UnderWay, Resting, Creators, Creating, Mapped
  <2>5. FreeBefore /\ DeadOwner /\ Owns
    BY <2>1, <2>2 DEF FreeBefore, DeadOwner, Owns, Critical
  <2> QED BY <2>3, <2>4, <2>5 DEF LogInv
<1>2. LogInv /\ [Next]_vars => LogInv'
  <2> SUFFICES ASSUME LogInv, [Next]_vars PROVE LogInv'
    OBVIOUS
  <2>1. CASE Configure \/ UNCHANGED vars
    BY <2>1, ConfigureStep
  <2>2. ASSUME NEW t \in Threads, Step(t) \/ Wakes(t) PROVE LogInv'
    BY <2>2, ReadingStep, RespondingStep, RecordStep, WriterSteps DEF Step
  <2>3. ASSUME NEW p \in Processes, Crash(p) PROVE LogInv'
    BY <2>3, DieStep DEF Crash
  <2> QED BY <2>1, <2>2, <2>3 DEF Next
<1> QED BY <1>1, <1>2, PTL DEF Spec

\* One record at a time is in the critical section of writeDifferences and
\* writeSerializedRequest, of all the processes, also when the owner of the
\* mutex was killed (EOWNERDEAD); the exception is a mutex that was locked
\* before getGlobalMutex had initialised it (LogExclusive).
THEOREM OneWriterAtATime == Spec => []LogExclusive
<1>1. LogInv => LogExclusive
  BY DEF LogInv, Owns, LogExclusive
<1> QED BY <1>1, LogInvariant, PTL

-----------------------------------------------------------------------------
(* Induction up to a bound, over a set of numbers: there is no least one   *)
(* that is not in it. So a function defined by recursion exists.           *)

LEMMA UpTo ==
    ASSUME NEW w \in Nat, NEW T, 0 \in T, \A k \in 1 .. w : k - 1 \in T => k \in T
    PROVE  \A k \in 0 .. w : k \in T
<1> DEFINE Bad == (0 .. w) \ T
<1>1. CASE Bad # {}
  <2>1. Bad \in SUBSET Nat
    OBVIOUS
  <2>2. PICK m \in Bad : \A y \in Bad : ~ (<<y, m>> \in OpToRel(<, Nat))
    BY <1>1, <2>1, WFMin, NatLessThanWellFounded
  <2>3. \A i, j \in Nat : i < j => <<i, j>> \in OpToRel(<, Nat)
    BY DEF OpToRel
  <2>4. \A y \in Bad : y \in Nat /\ m \in Nat /\ ~(y < m)
    BY <2>1, <2>2, <2>3, Zenon
  <2>5. m \in 1 .. w /\ m - 1 \notin Bad /\ m - 1 \in 0 .. w
    BY <2>4
  <2> QED BY <2>5
<1> QED BY <1>1

Iterates(f, w, a, step) == f = [k \in 0 .. w |-> IF k = 0 THEN a ELSE step[<<k, f[k - 1]>>]]

LEMMA Iteration ==
    ASSUME NEW w \in Nat, NEW S, NEW a \in S, NEW step,
           \A k \in 1 .. w, s \in S : step[<<k, s>>] \in S
    PROVE  \E f \in [0 .. w -> S] : Iterates(f, w, a, step)
<1> DEFINE Below(n, f) == \A k \in 0 .. n : f[k] = IF k = 0 THEN a ELSE step[<<k, f[k - 1]>>]
           T == {n \in 0 .. w : \E f \in [0 .. n -> S] : Below(n, f)}
<1>1. 0 \in T
  <2>1. [k \in 0 .. 0 |-> a] \in [0 .. 0 -> S] /\ Below(0, [k \in 0 .. 0 |-> a])
    OBVIOUS
  <2>2. 0 \in 0 .. w
    OBVIOUS
  <2> HIDE DEF Below
  <2> QED BY <2>1, <2>2, Zenon
<1>2. ASSUME NEW m \in 1 .. w, m - 1 \in T
      PROVE  m \in T
  <2>1. PICK f \in [0 .. m - 1 -> S] : Below(m - 1, f)
    BY <1>2
  <2> DEFINE g == [k \in 0 .. m |-> IF k = m THEN step[<<m, f[m - 1]>>] ELSE f[k]]
  <2>2. g \in [0 .. m -> S]
    BY <2>1
  <2>3. Below(m, g)
    <3> SUFFICES ASSUME NEW k \in 0 .. m
                 PROVE  g[k] = IF k = 0 THEN a ELSE step[<<k, g[k - 1]>>]
      OBVIOUS
    <3>1. CASE k = m
      <4>1. m # 0 /\ m - 1 \in 0 .. m /\ m - 1 # m
        OBVIOUS
      <4>2. g[m] = step[<<m, f[m - 1]>>] /\ g[m - 1] = f[m - 1]
        BY <4>1
      <4> QED BY <3>1, <4>1, <4>2, Zenon
    <3>2. CASE k # m
      <4>1. k \in 0 .. m - 1 /\ (k # 0 => k - 1 \in 0 .. m - 1 /\ k - 1 # m)
        BY <3>2
      <4>2. g[k] = f[k] /\ (k # 0 => g[k - 1] = f[k - 1])
        BY <4>1, <3>2
      <4> QED BY <4>1, <4>2, <2>1
    <3> QED BY <3>1, <3>2
  <2>4. m \in 0 .. w
    OBVIOUS
  <2> HIDE DEF g, Below
  <2> QED BY <2>2, <2>3, <2>4, Zenon
<1>3. w \in T
  <2> HIDE DEF T
  <2>1. \A k \in 0 .. w : k \in T
    BY <1>1, <1>2, UpTo
  <2> QED BY <2>1
<1>4. PICK f \in [0 .. w -> S] : Below(w, f)
  BY <1>3
<1>5. Iterates(f, w, a, step)
  BY <1>4 DEF Iterates
<1> QED BY <1>5

LEMMA Typed ==
    ASSUME NEW w \in Nat, NEW S, NEW g, g = [k \in 0 .. w |-> g[k]],
           g[0] \in S, \A k \in 1 .. w : g[k - 1] \in S => g[k] \in S
    PROVE  g \in [0 .. w -> S]
<1> DEFINE T == {k \in 0 .. w : g[k] \in S}
<1>1. 0 \in T /\ \A k \in 1 .. w : k - 1 \in T => k \in T
  OBVIOUS
<1>2. \A k \in 0 .. w : k \in T
  <2> HIDE DEF T
  <2> QED BY <1>1, UpTo
<1> QED BY <1>2

-----------------------------------------------------------------------------
(* A length that fits on its digits is read back as it was written.        *)

LEMMA Bases == Base \in Nat /\ Base > 1 /\ SectionWidth \in Nat \ {0}
BY DupFormatAssumption DEF Base

LEMMA DivMod ==
    ASSUME NEW n \in Nat, NEW b \in Nat, b > 1
    PROVE  /\ n \div b \in Nat /\ n % b \in 0 .. b - 1
           /\ n = (n \div b) * b + (n % b)
OBVIOUS

LEMMA LargestIs ==
    /\ Largest \in [0 .. SectionWidth -> Nat]
    /\ Largest[0] = 0
    /\ \A k \in 1 .. SectionWidth : Largest[k] = Largest[k - 1] * Base + Base - 1
<1> DEFINE step == [p \in (1 .. SectionWidth) \X Nat |-> p[2] * Base + Base - 1]
           F(f) == f = [n \in 0 .. SectionWidth |-> IF n = 0 THEN 0 ELSE f[n - 1] * Base + Base - 1]
<1>0. SectionWidth \in Nat
  BY Bases
<1>1. \A k \in 1 .. SectionWidth, s \in Nat : step[<<k, s>>] = s * Base + Base - 1 /\ s * Base + Base - 1 \in Nat
  BY Bases
<1>2. \A k \in 1 .. SectionWidth, s \in Nat : step[<<k, s>>] \in Nat
  BY <1>1, Zenon
<1> HIDE DEF step
<1>3. PICK f \in [0 .. SectionWidth -> Nat] : Iterates(f, SectionWidth, 0, step)
  <2>1. 0 \in Nat
    OBVIOUS
  <2> QED BY <2>1, <1>0, <1>2, Iteration
<1>4. F(f)
  <2>1. \A k \in 0 .. SectionWidth : k # 0 => step[<<k, f[k - 1]>>] = f[k - 1] * Base + Base - 1
    BY <1>0, <1>1
  <2> QED BY <1>3, <2>1, Zenon DEF Iterates
<1>5. Largest = CHOOSE g : F(g)
  BY DEF Largest
<1> HIDE DEF F
<1>6. F(Largest)
  BY <1>4, <1>5, Zenon
<1>7. Largest = [n \in 0 .. SectionWidth |-> IF n = 0 THEN 0 ELSE Largest[n - 1] * Base + Base - 1]
  BY <1>6 DEF F
<1>8. /\ Largest = [n \in 0 .. SectionWidth |-> Largest[n]]
      /\ Largest[0] = 0
      /\ \A k \in 1 .. SectionWidth : Largest[k] = Largest[k - 1] * Base + Base - 1
  <2>1. 0 \in 0 .. SectionWidth /\ \A k \in 1 .. SectionWidth : k \in 0 .. SectionWidth /\ k # 0
    BY <1>0
  <2> QED BY <1>7, <2>1, Zenon
<1>9. \A k \in 1 .. SectionWidth : Largest[k - 1] \in Nat => Largest[k] \in Nat
  BY <1>1, <1>8
<1>10. Largest \in [0 .. SectionWidth -> Nat]
  <2>1. Largest[0] \in Nat
    BY <1>8
  <2> QED BY <1>0, <1>8, <1>9, <2>1, Typed, Zenon
<1> QED BY <1>8, <1>10

LEMMA QuotientsIs ==
    ASSUME NEW n \in Nat, NEW w \in Nat
    PROVE  /\ Quotients(n, w) \in [0 .. w -> Nat]
           /\ Quotients(n, w)[0] = n
           /\ \A k \in 1 .. w : Quotients(n, w)[k] = Quotients(n, w)[k - 1] \div Base
<1> DEFINE step == [p \in (1 .. w) \X Nat |-> p[2] \div Base]
           F(f) == f = [k \in 0 .. w |-> IF k = 0 THEN n ELSE f[k - 1] \div Base]
           q == Quotients(n, w)
<1>1. \A k \in 1 .. w, s \in Nat : step[<<k, s>>] = s \div Base /\ s \div Base \in Nat
  BY Bases, DivMod
<1>2. \A k \in 1 .. w, s \in Nat : step[<<k, s>>] \in Nat
  BY <1>1, Zenon
<1> HIDE DEF step
<1>3. PICK f \in [0 .. w -> Nat] : Iterates(f, w, n, step)
  BY <1>2, Iteration
<1>4. F(f)
  <2>1. \A k \in 0 .. w : k # 0 => step[<<k, f[k - 1]>>] = f[k - 1] \div Base
    BY <1>1
  <2> QED BY <1>3, <2>1, Zenon DEF Iterates
<1>5. q = CHOOSE g : F(g)
  BY DEF Quotients
<1> HIDE DEF F, q
<1>6. F(q)
  BY <1>4, <1>5, Zenon
<1>7. q = [k \in 0 .. w |-> IF k = 0 THEN n ELSE q[k - 1] \div Base]
  BY <1>6 DEF F
<1>8. q = [k \in 0 .. w |-> q[k]] /\ q[0] = n /\ \A k \in 1 .. w : q[k] = q[k - 1] \div Base
  <2>1. 0 \in 0 .. w /\ \A k \in 1 .. w : k \in 0 .. w /\ k # 0
    OBVIOUS
  <2> QED BY <1>7, <2>1, Zenon
<1>9. \A k \in 1 .. w : q[k - 1] \in Nat => q[k] \in Nat
  BY <1>1, <1>8
<1>10. q \in [0 .. w -> Nat]
  <2>1. q[0] \in Nat
    BY <1>8
  <2> QED BY <1>8, <1>9, <2>1, Typed, Zenon
<1> QED BY <1>8, <1>10 DEF q

LEMMA DigitValues ==
    /\ \A c \in Range(Digit) : DigitValue(c) \in 0 .. Base - 1
    /\ \A i \in 0 .. Base - 1 : Digit[i + 1] \in Range(Digit) /\ DigitValue(Digit[i + 1]) = i
<1>1. DOMAIN Digit = 1 .. Base /\ IsInjective(Digit)
  BY DupFormatAssumption DEF Base
<1>2. \A c \in Range(Digit) : DigitValue(c) \in 0 .. Base - 1
  <2> SUFFICES ASSUME NEW c \in Range(Digit) PROVE DigitValue(c) \in 0 .. Base - 1
    OBVIOUS
  <2>1. \E i \in DOMAIN Digit : Digit[i] = c
    BY DEF Range
  <2> DEFINE m == CHOOSE i \in DOMAIN Digit : Digit[i] = c
  <2>2. m \in DOMAIN Digit
    BY <2>1, Zenon
  <2>3. DigitValue(c) = m - 1
    BY DEF DigitValue
  <2> HIDE DEF m
  <2> QED BY <1>1, <2>2, <2>3, Bases
<1>3. \A i \in 0 .. Base - 1 : Digit[i + 1] \in Range(Digit) /\ DigitValue(Digit[i + 1]) = i
  <2> SUFFICES ASSUME NEW i \in 0 .. Base - 1
               PROVE  Digit[i + 1] \in Range(Digit) /\ DigitValue(Digit[i + 1]) = i
    OBVIOUS
  <2>1. i + 1 \in DOMAIN Digit
    BY <1>1, Bases
  <2> DEFINE m == CHOOSE j \in DOMAIN Digit : Digit[j] = Digit[i + 1]
  <2>2. m = i + 1
    BY <2>1, <1>1, Zenon DEF IsInjective
  <2>3. DigitValue(Digit[i + 1]) = m - 1
    BY DEF DigitValue
  <2>4. Digit[i + 1] \in Range(Digit)
    BY <2>1, Zenon DEF Range
  <2> HIDE DEF m
  <2> QED BY <2>2, <2>3, <2>4
<1> QED BY <1>2, <1>3

LEMMA NumberIs ==
    ASSUME NEW cells \in Seq(Range(Digit))
    PROVE  \E v \in [0 .. Len(cells) -> Nat] :
            /\ NumberOf(cells) = v[Len(cells)]
            /\ v[0] = 0
            /\ \A i \in 1 .. Len(cells) : v[i] = v[i - 1] * Base + DigitValue(cells[i])
<1> DEFINE w == Len(cells)
           step == [p \in (1 .. w) \X Nat |-> p[2] * Base + DigitValue(cells[p[1]])]
           F(f) == f = [i \in 0 .. w |-> IF i = 0 THEN 0 ELSE f[i - 1] * Base + DigitValue(cells[i])]
           v == CHOOSE g : F(g)
<1>0. w \in Nat /\ 0 \in Nat
  OBVIOUS
<1>1. \A k \in 1 .. w, s \in Nat : /\ step[<<k, s>>] = s * Base + DigitValue(cells[k])
                                   /\ s * Base + DigitValue(cells[k]) \in Nat
  <2>1. \A k \in 1 .. w : cells[k] \in Range(Digit)
    BY <1>0
  <2>2. \A k \in 1 .. w : DigitValue(cells[k]) \in 0 .. Base - 1
    BY <2>1, DigitValues, Zenon
  <2>3. ASSUME NEW k \in 1 .. w, NEW s \in Nat
        PROVE  step[<<k, s>>] = s * Base + DigitValue(cells[k])
    OBVIOUS
  <2>4. ASSUME NEW k \in 1 .. w, NEW s \in Nat
        PROVE  s * Base + DigitValue(cells[k]) \in Nat
    BY <2>2, Bases
  <2> HIDE DEF w, step
  <2> QED BY <2>3, <2>4, Zenon
<1> HIDE DEF w
<1>2. \A k \in 1 .. w, s \in Nat : step[<<k, s>>] \in Nat
  BY <1>1, Zenon
<1> HIDE DEF step
<1>3. PICK f \in [0 .. w -> Nat] : Iterates(f, w, 0, step)
  BY <1>0, <1>2, Iteration
<1>4. F(f)
  <2>1. \A k \in 0 .. w : k # 0 => step[<<k, f[k - 1]>>] = f[k - 1] * Base + DigitValue(cells[k])
    BY <1>0, <1>1
  <2> QED BY <1>3, <2>1, Zenon DEF Iterates
<1>5. NumberOf(cells) = v[w]
  BY DEF NumberOf, w
<1> HIDE DEF F
<1>6. F(v)
  BY <1>4, Zenon
<1> HIDE DEF v
<1>7. v = [i \in 0 .. w |-> IF i = 0 THEN 0 ELSE v[i - 1] * Base + DigitValue(cells[i])]
  BY <1>6 DEF F
<1>8. /\ v = [i \in 0 .. w |-> v[i]] /\ v[0] = 0
      /\ \A i \in 1 .. w : v[i] = v[i - 1] * Base + DigitValue(cells[i])
  <2>1. 0 \in 0 .. w /\ \A k \in 1 .. w : k \in 0 .. w /\ k # 0
    BY <1>0
  <2> QED BY <1>7, <2>1, Zenon
<1>9. \A k \in 1 .. w : v[k - 1] \in Nat => v[k] \in Nat
  BY <1>1, <1>8
<1>10. v \in [0 .. w -> Nat]
  <2>1. v[0] \in Nat
    BY <1>8
  <2> QED BY <1>0, <1>8, <1>9, <2>1, Typed, Zenon
<1> QED BY <1>5, <1>8, <1>10, Zenon DEF w

\* Writing a number on SectionWidth digits and reading these gives the number.
LEMMA NumberKept ==
    ASSUME NEW n \in Nat, n <= MaxSection
    PROVE  /\ NumberCells(n) \in Seq(Range(Digit)) /\ Len(NumberCells(n)) = SectionWidth
           /\ NumberOf(NumberCells(n)) = n
<1> DEFINE q == Quotients(n, SectionWidth)
           cells == NumberCells(n)
<1>0. SectionWidth \in Nat
  BY Bases
<1>1. q \in [0 .. SectionWidth -> Nat] /\ q[0] = n /\ \A k \in 1 .. SectionWidth : q[k] = q[k - 1] \div Base
  BY <1>0, QuotientsIs
<1>2. cells = [i \in 1 .. SectionWidth |-> Digit[(q[SectionWidth - i] % Base) + 1]]
  BY DEF NumberCells
<1> HIDE DEF q, cells
<1>3. \A j \in 0 .. SectionWidth : /\ q[j] \in Nat /\ q[j] % Base \in 0 .. Base - 1
                                   /\ q[j] = (q[j] \div Base) * Base + (q[j] % Base)
  BY <1>1, Bases, DivMod
<1>4. \A i \in 1 .. SectionWidth : /\ cells[i] \in Range(Digit)
                                   /\ DigitValue(cells[i]) = q[SectionWidth - i] % Base
  <2> SUFFICES ASSUME NEW i \in 1 .. SectionWidth
               PROVE  /\ cells[i] \in Range(Digit)
                      /\ DigitValue(cells[i]) = q[SectionWidth - i] % Base
    OBVIOUS
  <2>1. q[SectionWidth - i] % Base \in 0 .. Base - 1
    BY <1>0, <1>3
  <2>2. cells[i] = Digit[(q[SectionWidth - i] % Base) + 1]
    BY <1>2
  <2> QED BY <2>1, <2>2, DigitValues, Zenon
<1>5. cells \in Seq(Range(Digit)) /\ Len(cells) = SectionWidth
  <2>1. cells \in [1 .. SectionWidth -> Range(Digit)]
    BY <1>2, <1>4
  <2> QED BY <2>1, <1>0
\* No digit is lost: what is left after k digits is a number of the others.
<1>6. \A j \in 0 .. SectionWidth : q[j] <= Largest[SectionWidth - j]
  <2> DEFINE T == {j \in 0 .. SectionWidth : q[j] <= Largest[SectionWidth - j]}
  <2>1. 0 \in T
    BY <1>0, <1>1 DEF MaxSection
  <2>2. ASSUME NEW j \in 1 .. SectionWidth, j - 1 \in T
        PROVE  j \in T
    <3> DEFINE m == Largest[SectionWidth - j]
               r == q[j - 1] % Base
    <3>1. q[j - 1] <= Largest[SectionWidth - (j - 1)]
      BY <2>2
    <3>2. SectionWidth - (j - 1) \in 1 .. SectionWidth /\ SectionWidth - (j - 1) - 1 = SectionWidth - j
          /\ SectionWidth - j \in 0 .. SectionWidth
      BY <1>0
    <3>3. Largest[SectionWidth - (j - 1)] = m * Base + Base - 1 /\ m \in Nat
      BY <3>2, LargestIs
    <3>4. q[j - 1] = q[j] * Base + r /\ r \in 0 .. Base - 1 /\ q[j] \in Nat
      <4>1. j - 1 \in 0 .. SectionWidth /\ j \in 0 .. SectionWidth
        BY <1>0
      <4> QED BY <4>1, <1>1, <1>3
    <3> HIDE DEF m, r
    <3>5. q[j] <= m
      BY <3>1, <3>3, <3>4, Bases
    <3> QED BY <3>5, <1>0 DEF m
  <2>3. \A j \in 0 .. SectionWidth : j \in T
    <3> HIDE DEF T
    <3> QED BY <1>0, <2>1, <2>2, UpTo
  <2> QED BY <2>3
<1>7. q[SectionWidth] = 0
  <2>1. q[SectionWidth] <= Largest[0] /\ q[SectionWidth] \in Nat
    BY <1>0, <1>1, <1>6
  <2> QED BY <2>1, LargestIs
<1>8. PICK v \in [0 .. SectionWidth -> Nat] :
        /\ NumberOf(cells) = v[SectionWidth] /\ v[0] = 0
        /\ \A i \in 1 .. SectionWidth : v[i] = v[i - 1] * Base + DigitValue(cells[i])
  BY <1>5, NumberIs
<1>9. \A i \in 0 .. SectionWidth : v[i] = q[SectionWidth - i]
  <2> DEFINE T == {i \in 0 .. SectionWidth : v[i] = q[SectionWidth - i]}
  <2>1. 0 \in T
    BY <1>0, <1>7, <1>8
  <2>2. ASSUME NEW i \in 1 .. SectionWidth, i - 1 \in T
        PROVE  i \in T
    <3>1. v[i - 1] = q[SectionWidth - (i - 1)] /\ v[i] = v[i - 1] * Base + DigitValue(cells[i])
      BY <2>2, <1>8
    <3>2. /\ SectionWidth - (i - 1) \in 1 .. SectionWidth /\ SectionWidth - i \in 0 .. SectionWidth
          /\ SectionWidth - (i - 1) - 1 = SectionWidth - i
      BY <1>0
    <3>3. q[SectionWidth - (i - 1)] = q[SectionWidth - i] \div Base
      BY <3>2, <1>1
    <3>4. v[i] = (q[SectionWidth - i] \div Base) * Base + (q[SectionWidth - i] % Base)
      BY <3>1, <3>3, <1>4
    <3>5. v[i] = q[SectionWidth - i]
      BY <3>2, <3>4, <1>3
    <3> QED BY <3>5, <1>0
  <2>3. \A i \in 0 .. SectionWidth : i \in T
    <3> HIDE DEF T
    <3> QED BY <1>0, <2>1, <2>2, UpTo
  <2> QED BY <2>3
<1>10. NumberOf(cells) = n
  BY <1>0, <1>1, <1>8, <1>9
<1> QED BY <1>5, <1>10 DEF cells

-----------------------------------------------------------------------------
(* Unpacking what was packed, or as much of it as arrived.                 *)

LEMMA MinOfTwo ==
    ASSUME NEW a \in Int, NEW b \in Int
    PROVE  Min({a, b}) = IF a <= b THEN a ELSE b
<1> DEFINE m == IF a <= b THEN a ELSE b
<1>1. m \in {a, b} /\ \A y \in {a, b} : m <= y
  OBVIOUS
<1>2. \A x \in {a, b} : (\A y \in {a, b} : x <= y) => x = m
  OBVIOUS
<1> QED BY <1>1, <1>2 DEF Min

LEMMA SubstrIs ==
    ASSUME NEW C, NEW text \in Seq(C), NEW pos \in Nat, NEW n \in Nat
    PROVE  /\ Substr(text, pos, n) \in Seq(C)
           /\ pos + n <= Len(text) => /\ Substr(text, pos, n) = SubSeq(text, pos + 1, pos + n)
                                      /\ Len(Substr(text, pos, n)) = n
           /\ pos + n > Len(text) => n = 0 \/ Len(Substr(text, pos, n)) < n
<1> DEFINE e == IF pos + n <= Len(text) THEN pos + n ELSE Len(text)
<1>1. Len(text) \in Nat /\ \A i \in 1 .. Len(text) : text[i] \in C
  OBVIOUS
<1>2. Substr(text, pos, n) = SubSeq(text, pos + 1, e)
  BY <1>1, MinOfTwo DEF Substr
<1>3. pos + 1 \in Int /\ e \in Int /\ e <= Len(text) /\ e <= pos + n
  BY <1>1
<1>4. \A i \in pos + 1 .. e : text[i] \in C
  BY <1>1, <1>3
<1>5. SubSeq(text, pos + 1, e) \in Seq(C)
      /\ Len(SubSeq(text, pos + 1, e)) = IF pos + 1 <= e THEN e - (pos + 1) + 1 ELSE 0
  <2> HIDE DEF e
  <2> QED BY <1>3, <1>4, SubSeqProperties
<1>6. CASE pos + n <= Len(text)
  BY <1>1, <1>2, <1>5, <1>6
<1>7. CASE pos + n > Len(text)
  <2>1. e = Len(text)
    BY <1>1, <1>7
  <2> HIDE DEF e
  <2> QED BY <1>1, <1>2, <1>5, <1>7, <2>1
<1> QED BY <1>1, <1>6, <1>7

LEMMA getLengthIs ==
    ASSUME NEW C, NEW text \in Seq(C), NEW pos \in Nat
    PROVE  /\ getLength(text, pos) \in Nat \cup {-1}
           /\ getLength(text, pos) # -1 => pos + SectionWidth <= Len(text)
           /\ \A n \in Nat :
                n <= MaxSection /\ pos + SectionWidth <= Len(text)
                /\ SubSeq(text, pos + 1, pos + SectionWidth) = NumberCells(n)
                    => getLength(text, pos) = n
<1> DEFINE cells == Substr(text, pos, SectionWidth)
           Value(c) == IF Len(c) < SectionWidth \/ ~(Range(c) \subseteq Range(Digit)) THEN -1
                       ELSE NumberOf(c)
<1>0. SectionWidth \in Nat /\ SectionWidth # 0 /\ Len(text) \in Nat
  BY Bases
<1>1. getLength(text, pos) = Value(cells)
  <2>1. getLength(text, pos) = CHOOSE n \in {Value(c) : c \in {cells}} : TRUE
    BY Zenon DEF getLength
  <2> HIDE DEF cells, Value
  <2> QED BY <2>1
<1>2. /\ cells \in Seq(C)
      /\ pos + SectionWidth <= Len(text) =>
            cells = SubSeq(text, pos + 1, pos + SectionWidth) /\ Len(cells) = SectionWidth
      /\ pos + SectionWidth > Len(text) => Len(cells) < SectionWidth
  <2>1. /\ cells \in Seq(C)
        /\ pos + SectionWidth <= Len(text) =>
              cells = SubSeq(text, pos + 1, pos + SectionWidth) /\ Len(cells) = SectionWidth
        /\ pos + SectionWidth > Len(text) => SectionWidth = 0 \/ Len(cells) < SectionWidth
    BY <1>0, SubstrIs, Zenon
  <2> HIDE DEF cells
  <2> QED BY <2>1, <1>0, Zenon
<1> HIDE DEF cells
<1>3. Len(cells) \in Nat
  BY <1>2
<1>4. Range(cells) \subseteq Range(Digit) => NumberOf(cells) \in Nat
  <2> SUFFICES ASSUME Range(cells) \subseteq Range(Digit) PROVE NumberOf(cells) \in Nat
    OBVIOUS
  <2>1. cells \in Seq(Range(Digit))
    <3>1. cells \in Seq(Range(cells))
      BY <1>2, SeqOfRange
    <3> QED BY <3>1, SeqMonotonic
  <2>2. PICK v \in [0 .. Len(cells) -> Nat] : NumberOf(cells) = v[Len(cells)]
    BY <2>1, NumberIs
  <2> QED BY <2>2, <1>3
<1>5. getLength(text, pos) \in Nat \cup {-1}
  BY <1>1, <1>4
<1>6. getLength(text, pos) # -1 => pos + SectionWidth <= Len(text)
  BY <1>0, <1>1, <1>2, <1>3
<1>7. ASSUME NEW n \in Nat, n <= MaxSection, pos + SectionWidth <= Len(text),
             SubSeq(text, pos + 1, pos + SectionWidth) = NumberCells(n)
      PROVE  getLength(text, pos) = n
  <2>1. cells = NumberCells(n) /\ Len(cells) = SectionWidth
    BY <1>2, <1>7
  <2>2. NumberOf(cells) = n /\ cells \in Seq(Range(Digit))
    BY <1>7, <2>1, NumberKept
  <2>3. Range(cells) \subseteq Range(Digit)
    BY <2>2, RangeOfSeq
  <2> QED BY <1>0, <1>1, <2>1, <2>2, <2>3
<1> QED BY <1>5, <1>6, <1>7

\* text begins with u and m; it begins with P; m is what P has behind position n.
Splits(text, C, u, m) == \E w \in Seq(C) : text = u \o (m \o w)
Begins(text, C, P) == \E R \in Seq(C) : P \o R = text
PartAt(P, n, m) == SubSeq(P, n + 1, n + Len(m)) = m

LEMMA Part ==
    ASSUME NEW C, NEW u \in Seq(C), NEW m \in Seq(C), NEW P \in Seq(C),
           NEW text, Begins(text, C, P), Splits(text, C, u, m),
           Len(u) + Len(m) <= Len(P)
    PROVE  PartAt(P, Len(u), m)
<1> PICK w \in Seq(C) : text = u \o (m \o w)
  BY DEF Splits
<1> PICK R \in Seq(C) : P \o R = text
  BY DEF Begins
<1> DEFINE s == SubSeq(P, Len(u) + 1, Len(u) + Len(m))
           a == Len(u)
           b == Len(m)
<1>0. a \in Nat /\ b \in Nat /\ Len(P) \in Nat /\ Len(w) \in Nat /\ Len(R) \in Nat
  OBVIOUS
<1>1. m \o w \in Seq(C) /\ Len(m \o w) = b + Len(w)
      /\ \A i \in 1 .. b : (m \o w)[i] = m[i]
  BY <1>0, ConcatProperties
<1>2. \A i \in 1 .. b : (u \o (m \o w))[a + i] = m[i]
  <2> DEFINE v == m \o w
  <2>1. \A i \in 1 .. a + Len(v) : (u \o v)[i] = IF i <= a THEN u[i] ELSE v[i - a]
    <3> HIDE DEF v
    <3>1. v \in Seq(C)
      BY <1>1 DEF v
    <3> QED BY <3>1, ConcatProperties
  <2> HIDE DEF v
  <2>2. \A i \in 1 .. b : a + i \in 1 .. a + Len(v) /\ ~(a + i <= a) /\ a + i - a = i
    BY <1>0, <1>1 DEF v
  <2>3. \A i \in 1 .. b : (u \o v)[a + i] = v[i]
    BY <2>1, <2>2
  <2> QED BY <2>3, <1>1 DEF v
<1>3. \A i \in 1 .. Len(P) : (P \o R)[i] = P[i]
  BY <1>0, ConcatProperties
<1>4. s \in Seq(C) /\ Len(s) = b /\ \A i \in 1 .. b : s[i] = P[a + i]
  <2>1. \A i \in a + 1 .. a + b : P[i] \in C
    BY <1>0
  <2>2. /\ s \in Seq(C)
        /\ Len(s) = IF a + 1 <= a + b THEN a + b - (a + 1) + 1 ELSE 0
        /\ \A i \in 1 .. a + b - (a + 1) + 1 : s[i] = P[a + 1 + i - 1]
    BY <1>0, <2>1, SubSeqProperties
  <2> HIDE DEF s, a, b
  <2> QED BY <2>2, <1>0
<1>5. \A i \in 1 .. b : s[i] = m[i]
  <2>1. \A i \in 1 .. b : a + i \in 1 .. Len(P)
    BY <1>0
  <2> HIDE DEF s
  <2> QED BY <2>1, <1>2, <1>3, <1>4
<1> HIDE DEF s
<1>6. s = m
  BY <1>4, <1>5, SeqEqual
<1> QED BY <1>6 DEF s, PartAt

LEMMA HeaderTextIs ==
    ASSUME NEW headers, headers \in Seq(Range(headers)), Range(headers) \subseteq Range(Lines)
    PROVE  HeaderText(headers) \in Seq(DOMAIN Lines) /\ Len(HeaderText(headers)) = Len(headers)
<1>1. Len(headers) \in Nat /\ DOMAIN headers = 1 .. Len(headers)
  OBVIOUS
<1>2. \A i \in 1 .. Len(headers) :
        (CHOOSE l \in DOMAIN Lines : Lines[l] = headers[i]) \in DOMAIN Lines
  <2> SUFFICES ASSUME NEW i \in 1 .. Len(headers)
               PROVE  (CHOOSE l \in DOMAIN Lines : Lines[l] = headers[i]) \in DOMAIN Lines
    OBVIOUS
  <2>1. headers[i] \in Range(Lines)
    BY <1>1 DEF Range
  <2>2. \E l \in DOMAIN Lines : Lines[l] = headers[i]
    BY <2>1 DEF Range
  <2> QED BY <2>2, Zenon
<1> DEFINE h == HeaderText(headers)
<1>3. h = [i \in 1 .. Len(headers) |-> CHOOSE l \in DOMAIN Lines : Lines[l] = headers[i]]
  BY <1>1 DEF HeaderText
<1>4. h \in [1 .. Len(headers) -> DOMAIN Lines]
  <2> HIDE DEF h
  <2> QED BY <1>2, <1>3, Zenon
<1> HIDE DEF h
<1>5. h \in Seq(DOMAIN Lines) /\ Len(h) = Len(headers)
  BY <1>1, <1>4
<1> QED BY <1>5 DEF h

LEMMA deserializeHeaderIs ==
    ASSUME NEW text
    PROVE  /\ deserializeHeader(text).ok \in BOOLEAN
           /\ text \in Seq(DOMAIN Lines) => /\ deserializeHeader(text).ok
                                            /\ deserializeHeader(text).map = HeaderMap(text)
<1> DEFINE bad == SelectInSeq(text, LAMBDA l : l \notin DOMAIN Lines)
<1>1. /\ deserializeHeader(text).ok = (bad = 0)
      /\ bad = 0 => deserializeHeader(text).map = HeaderMap(text)
  <2> DEFINE read == IF bad = 0 THEN text ELSE SubSeq(text, 1, bad - 1)
  <2>1. deserializeHeader(text) = [ok |-> bad = 0, map |-> HeaderMap(read)]
    BY DEF deserializeHeader
  <2>2. bad = 0 => read = text
    OBVIOUS
  <2> HIDE DEF read, bad
  <2> QED BY <2>1, <2>2
<1>2. text \in Seq(DOMAIN Lines) => bad = 0
  <2> SUFFICES ASSUME text \in Seq(DOMAIN Lines) PROVE bad = 0
    OBVIOUS
  <2>1. {i \in 1 .. Len(text) : text[i] \notin DOMAIN Lines} = {}
    OBVIOUS
  <2> QED BY <2>1 DEF SelectInSeq
<1> HIDE DEF bad
<1> QED BY <1>1, <1>2

\* Which part of the text deserializeBody takes for what.
LEMMA deserializeBodyIs ==
    ASSUME NEW C, NEW text \in Seq(C),
           NEW n1, n1 = getLength(text, 0),
           NEW n2, n2 = getLength(text, SectionWidth + n1),
           NEW n3, n3 = getLength(text, SectionWidth + n1 + SectionWidth + n2),
           NEW parsed, parsed = deserializeBody(text)
    PROVE  /\ {"ok", "reqBody", "respHeader", "respBody"} \subseteq DOMAIN parsed
           /\ parsed.ok \in BOOLEAN /\ parsed.reqBody \in Seq(C)
           /\ parsed.ok => /\ n1 # -1 /\ n2 # -1 /\ n3 # -1
                           /\ parsed.reqBody = Substr(text, SectionWidth, n1)
           /\ Len(text) >= 3 * SectionWidth /\ n1 # -1 /\ n2 # -1 /\ n3 # -1 =>
                /\ parsed.ok = deserializeHeader(Substr(text, SectionWidth + n1 + SectionWidth, n2)).ok
                /\ parsed.respHeader = deserializeHeader(Substr(text, SectionWidth + n1 + SectionWidth, n2)).map
                /\ parsed.respBody =
                    Substr(text, SectionWidth + n1 + SectionWidth + n2 + SectionWidth, n3)
<1> DEFINE request == [NothingRead EXCEPT !.reqBody = Substr(text, SectionWidth, n1)]
           header == deserializeHeader(Substr(text, SectionWidth + n1 + SectionWidth, n2))
           short == Len(text) < 3 * SectionWidth \/ n1 = -1
           whole == [request EXCEPT !.ok = header.ok, !.respHeader = header.map,
                                    !.respBody = Substr(text, SectionWidth + n1 + SectionWidth + n2 + SectionWidth, n3)]
<1>0. SectionWidth \in Nat /\ Len(text) \in Nat
  BY Bases
<1>1. n1 # -1 => Substr(text, SectionWidth, n1) \in Seq(C)
  <2>1. n1 \in Nat \cup {-1}
    BY getLengthIs
  <2> QED BY <1>0, <2>1, SubstrIs
<1>2. header.ok \in BOOLEAN
  BY deserializeHeaderIs
<1>3. parsed = IF short THEN NothingRead ELSE IF n2 = -1 \/ n3 = -1 THEN request ELSE whole
  BY DEF deserializeBody
<1>4. CASE short
  <2>1. parsed = NothingRead
    BY <1>3, <1>4
  <2>2. ~(Len(text) >= 3 * SectionWidth /\ n1 # -1)
    BY <1>0, <1>4
  <2>3. /\ {"ok", "reqBody", "respHeader", "respBody"} \subseteq DOMAIN parsed
        /\ parsed.ok = FALSE /\ parsed.reqBody \in Seq(C)
    BY <2>1 DEF NothingRead
  <2> QED BY <2>2, <2>3, Zenon
<1>5. CASE ~short /\ (n2 = -1 \/ n3 = -1)
  <2>1. parsed = request /\ n1 # -1
    BY <1>3, <1>5
  <2> QED BY <2>1, <1>1, <1>5 DEF NothingRead
<1>6. CASE ~short /\ ~(n2 = -1 \/ n3 = -1)
  <2>1. parsed = whole /\ n1 # -1
    BY <1>3, <1>6
  <2> HIDE DEF header
  <2>2. /\ {"ok", "reqBody", "respHeader", "respBody"} \subseteq DOMAIN parsed
        /\ parsed.ok = header.ok /\ parsed.reqBody = Substr(text, SectionWidth, n1)
        /\ parsed.respHeader = header.map
        /\ parsed.respBody = Substr(text, SectionWidth + n1 + SectionWidth + n2 + SectionWidth, n3)
    BY <2>1 DEF NothingRead
  <2>3. /\ parsed.ok = deserializeHeader(Substr(text, SectionWidth + n1 + SectionWidth, n2)).ok
        /\ parsed.respHeader = deserializeHeader(Substr(text, SectionWidth + n1 + SectionWidth, n2)).map
    BY <2>2, Zenon DEF header
  <2>4. parsed.ok \in BOOLEAN /\ parsed.reqBody \in Seq(C) /\ n2 # -1 /\ n3 # -1
    BY <2>1, <2>2, <1>1, <1>2, <1>6, Zenon
  <2> QED BY <2>1, <2>2, <2>3, <2>4, Zenon
<1> QED BY <1>4, <1>5, <1>6

LEMMA getLengthOf ==
    ASSUME NEW C, NEW text \in Seq(C), NEW pos \in Nat, NEW n \in Nat, n <= MaxSection,
           pos + SectionWidth <= Len(text), PartAt(text, pos, NumberCells(n))
    PROVE  getLength(text, pos) = n
<1>1. SubSeq(text, pos + 1, pos + SectionWidth) = NumberCells(n)
  BY NumberKept DEF PartAt
<1> QED BY <1>1, getLengthIs, Zenon

Associate(s, t, u) == (s \o t) \o u = s \o (t \o u)

LEMMA Associative ==
    ASSUME NEW C
    PROVE  \A s, t, u \in Seq(C) : Associate(s, t, u)
BY ConcatAssociative DEF Associate

LEMMA TwoParts ==
    ASSUME NEW C, NEW s \in Seq(C), NEW t \in Seq(C)
    PROVE  s \o t \in Seq(C) /\ Len(s \o t) = Len(s) + Len(t)
BY ConcatProperties

\* A text of six parts, split behind each of them.
Composed(text, d1, b, d2, h, d3, o, u3, u4, u5) ==
    u3 = d1 \o b /\ u4 = u3 \o d2 /\ u5 = u4 \o h /\ text = (u3 \o (d2 \o h)) \o (d3 \o o)

Divided(text, C, d1, b, d2, h, d3, o, u3, u4, u5) ==
    /\ Splits(text, C, <<>>, d1) /\ Splits(text, C, d1, b) /\ Splits(text, C, u3, d2)
    /\ Splits(text, C, u4, h) /\ Splits(text, C, u5, d3) /\ Splits(text, C, u5 \o d3, o)
    /\ text \in Seq(C) /\ u3 \in Seq(C) /\ u4 \in Seq(C) /\ u5 \in Seq(C)
    /\ Len(text) = Len(d1) + Len(b) + Len(d2) + Len(h) + Len(d3) + Len(o)
    /\ Len(u3) = Len(d1) + Len(b)
    /\ Len(u4) = Len(d1) + Len(b) + Len(d2)
    /\ Len(u5) = Len(d1) + Len(b) + Len(d2) + Len(h)

LEMMA Sections ==
    ASSUME NEW C, NEW d1 \in Seq(C), NEW b \in Seq(C), NEW d2 \in Seq(C), NEW h \in Seq(C),
           NEW d3 \in Seq(C), NEW o \in Seq(C),
           NEW text, NEW u3, NEW u4, NEW u5, Composed(text, d1, b, d2, h, d3, o, u3, u4, u5)
    PROVE  Divided(text, C, d1, b, d2, h, d3, o, u3, u4, u5)
<1> USE DEF Composed
<1> DEFINE w4 == d3 \o o
           w3 == h \o w4
           w2 == d2 \o w3
           w1 == b \o w2
<1>0. \A s, t, u \in Seq(C) : Associate(s, t, u)
  BY Associative, Zenon
<1>1. w4 \in Seq(C) /\ Len(w4) = Len(d3) + Len(o) /\ u3 \in Seq(C) /\ Len(u3) = Len(d1) + Len(b)
  BY TwoParts
<1>a. text = (u3 \o (d2 \o h)) \o w4
  OBVIOUS
<1> HIDE DEF w4
<1>2. w3 \in Seq(C) /\ u4 \in Seq(C) /\ Len(u4) = Len(u3) + Len(d2)
  BY <1>1, TwoParts
<1>b. u3 \o (d2 \o h) = u4 \o h
  <2>1. Associate(u3, d2, h)
    BY <1>0, <1>1, Zenon
  <2> QED BY <2>1, Zenon DEF Associate
<1> HIDE DEF w3
<1>3. w2 \in Seq(C) /\ u5 \in Seq(C) /\ Len(u5) = Len(u4) + Len(h)
  BY <1>2, TwoParts
<1>c. text = u5 \o w4
  BY <1>a, <1>b
<1>d. u5 \o w4 = u4 \o w3
  <2>1. Associate(u4, h, w4)
    BY <1>0, <1>1, <1>2, Zenon
  <2> QED BY <2>1, Zenon DEF Associate, w3
<1> HIDE DEF w2
<1>4. w1 \in Seq(C)
  BY <1>3, TwoParts
<1>e. u4 \o w3 = u3 \o w2
  <2>1. Associate(u3, d2, w3)
    BY <1>0, <1>1, <1>2, Zenon
  <2> QED BY <2>1, Zenon DEF Associate, w2
<1>f. u3 \o w2 = d1 \o w1
  <2>1. Associate(d1, b, w2)
    BY <1>0, <1>3, Zenon
  <2> QED BY <2>1, Zenon DEF Associate
<1> HIDE DEF w1
<1>5. d1 \o w1 \in Seq(C)
  BY <1>4, TwoParts
<1>6. <<>> \o (d1 \o w1) = d1 \o w1
  BY <1>5, ConcatEmptySeq
<1>7. text \in Seq(C) /\ Len(text) = Len(u5) + Len(w4)
  <2>1. u5 \o w4 \in Seq(C) /\ Len(u5 \o w4) = Len(u5) + Len(w4)
    <3> HIDE DEF Composed
    <3> QED BY <1>1, <1>3, TwoParts, Zenon
  <2> HIDE DEF Composed
  <2> QED BY <2>1, <1>c, Zenon
<1>8. Len(d1) \in Nat /\ Len(b) \in Nat /\ Len(d2) \in Nat /\ Len(h) \in Nat /\ Len(d3) \in Nat /\ Len(o) \in Nat
  OBVIOUS
<1>9. /\ Len(text) = Len(d1) + Len(b) + Len(d2) + Len(h) + Len(d3) + Len(o)
      /\ Len(u4) = Len(d1) + Len(b) + Len(d2)
      /\ Len(u5) = Len(d1) + Len(b) + Len(d2) + Len(h)
  BY <1>1, <1>2, <1>3, <1>7, <1>8
<1>10. Splits(text, C, <<>>, d1)
  BY <1>4, <1>6, <1>c, <1>d, <1>e, <1>f, Zenon DEF Splits
<1>11. Splits(text, C, d1, b)
  BY <1>3, <1>c, <1>d, <1>e, <1>f, Zenon DEF w1, Splits
<1>12. Splits(text, C, u3, d2)
  BY <1>2, <1>c, <1>d, <1>e, Zenon DEF w2, Splits
<1>13. Splits(text, C, u4, h)
  BY <1>1, <1>c, <1>d, Zenon DEF w3, Splits
<1>14. Splits(text, C, u5, d3)
  BY <1>c, Zenon DEF w4, Splits
<1>15. Splits(text, C, u5 \o d3, o)
  <2>1. Associate(u5, d3, o)
    BY <1>0, <1>3, Zenon
  <2>2. o \o <<>> = o /\ <<>> \in Seq(C)
    BY ConcatEmptySeq
  <2>3. text = (u5 \o d3) \o (o \o <<>>)
    BY <1>c, <2>1, <2>2, Zenon DEF Associate, w4
  <2> QED BY <2>2, <2>3, Zenon DEF Splits
<1> QED BY <1>1, <1>2, <1>3, <1>7, <1>9, <1>10, <1>11, <1>12, <1>13, <1>14, <1>15, Zenon DEF Divided

\* The request's body comes out as it went in, or the text does not parse; all
\* of the text does parse, and gives the original answer too.
\* What is unpacked of a body that is cut where R begins.
Restored(parsed, q, R) ==
    /\ parsed.ok => parsed.reqBody = q.body
    /\ R = <<>> => /\ parsed.ok
                   /\ parsed.respHeader = HeaderMap(HeaderText(q.original))
                   /\ parsed.respBody = q.originalBody

LEMMA Restores ==
    ASSUME NEW q, IsRequest(q), WellFormed(q), NEW P, NEW R,
           P \in Seq(Range(q.text)), R \in Seq(Range(q.text)), P \o R = q.text,
           NEW parsed, parsed = deserializeBody(P)
    PROVE  Restored(parsed, q, R)
<1> DEFINE W == SectionWidth
           b == q.body
           h == HeaderText(q.original)
           o == q.originalBody
           d1 == NumberCells(Len(b))
           d2 == NumberCells(Len(h))
           d3 == NumberCells(Len(o))
           C == Range(Digit) \cup Range(b) \cup DOMAIN Lines \cup Range(o)
<1>1. h \in Seq(DOMAIN Lines) /\ Len(h) = Len(q.original)
  BY HeaderTextIs DEF IsRequest
<1>2. b \in Seq(Range(b)) /\ o \in Seq(Range(o)) /\ q.original \in Seq(Range(q.original))
      /\ q.text \in Seq(Range(q.text))
  BY DEF IsRequest
<1>3. Len(b) \in Nat /\ Len(h) \in Nat /\ Len(o) \in Nat
  BY <1>1, <1>2
<1>4. Len(b) <= MaxSection /\ Len(h) <= MaxSection /\ Len(o) <= MaxSection
  BY <1>1 DEF WellFormed
<1>5. q.text = ((d1 \o b) \o (d2 \o h)) \o (d3 \o o)
  BY DEF WellFormed, DupContent, Serialize
<1> HIDE DEF h
<1>6. /\ d1 \in Seq(Range(Digit)) /\ Len(d1) = W
      /\ d2 \in Seq(Range(Digit)) /\ Len(d2) = W
      /\ d3 \in Seq(Range(Digit)) /\ Len(d3) = W
  BY <1>3, <1>4, NumberKept
<1> HIDE DEF d1, d2, d3
<1>7. d1 \in Seq(C) /\ d2 \in Seq(C) /\ d3 \in Seq(C) /\ b \in Seq(C) /\ h \in Seq(C) /\ o \in Seq(C)
  <2>1. Range(Digit) \subseteq C /\ Range(b) \subseteq C /\ DOMAIN Lines \subseteq C /\ Range(o) \subseteq C
    OBVIOUS
  <2> HIDE DEF C, b, o
  <2> QED BY <2>1, <1>1, <1>2, <1>6, SeqMonotonic
<1> DEFINE text == q.text
           u3 == d1 \o b
           u4 == u3 \o d2
           u5 == u4 \o h
<1> HIDE DEF C, b, o, text
<1>8. Composed(text, d1, b, d2, h, d3, o, u3, u4, u5)
  BY <1>5, Zenon DEF text, Composed
<1> HIDE DEF u3, u4, u5
<1>9. /\ Splits(text, C, <<>>, d1) /\ Splits(text, C, d1, b) /\ Splits(text, C, u3, d2)
      /\ Splits(text, C, u4, h) /\ Splits(text, C, u5, d3) /\ Splits(text, C, u5 \o d3, o)
      /\ text \in Seq(C)
      /\ Len(text) = Len(d1) + Len(b) + Len(d2) + Len(h) + Len(d3) + Len(o)
      /\ Len(u3) = Len(d1) + Len(b) /\ u3 \in Seq(C)
      /\ Len(u4) = Len(d1) + Len(b) + Len(d2) /\ u4 \in Seq(C)
      /\ Len(u5) = Len(d1) + Len(b) + Len(d2) + Len(h) /\ u5 \in Seq(C)
  <2>1. Divided(text, C, d1, b, d2, h, d3, o, u3, u4, u5)
    BY <1>7, <1>8, Sections, Zenon
  <2> QED BY <2>1, Zenon DEF Divided
<1>10. P \in Seq(C) /\ Begins(text, C, P) /\ (R = <<>> => P = text)
  <2>1. Range(q.text) \subseteq C
    BY <1>9, RangeOfSeq DEF text
  <2>2. P \o R = text
    BY DEF text
  <2>3. P \in Seq(C) /\ R \in Seq(C)
    BY <2>1, SeqMonotonic
  <2>4. R = <<>> => P = text
    BY <2>2, <2>3, ConcatEmptySeq
  <2> QED BY <2>2, <2>3, <2>4, Zenon DEF Begins
<1>11. W \in Nat /\ W # 0 /\ Len(P) \in Nat
  BY Bases, <1>10
<1>12. W <= Len(P) => PartAt(P, 0, d1)
  <2>1. <<>> \in Seq(C) /\ Len(<<>>) = 0 /\ Len(<<>>) + Len(d1) = W
    BY <1>6, <1>11
  <2>2. Len(<<>>) + Len(d1) <= Len(P) => PartAt(P, Len(<<>>), d1)
    BY <1>7, <1>9, <1>10, <2>1, Part, Zenon
  <2> QED BY <2>1, <2>2
<1>13. W + Len(b) <= Len(P) => PartAt(P, W, b)
  <2>1. Len(d1) + Len(b) <= Len(P) => PartAt(P, Len(d1), b)
    BY <1>7, <1>9, <1>10, Part, Zenon
  <2> QED BY <2>1, <1>6
<1>14. W + Len(b) + W <= Len(P) => PartAt(P, W + Len(b), d2)
  <2>1. Len(u3) + Len(d2) <= Len(P) => PartAt(P, Len(u3), d2)
    BY <1>7, <1>9, <1>10, Part, Zenon
  <2> QED BY <2>1, <1>6, <1>9
<1>15. W + Len(b) + W + Len(h) <= Len(P) => PartAt(P, W + Len(b) + W, h)
  <2>1. Len(u4) + Len(h) <= Len(P) => PartAt(P, Len(u4), h)
    BY <1>7, <1>9, <1>10, Part, Zenon
  <2> QED BY <2>1, <1>6, <1>9
<1>16. W + Len(b) + W + Len(h) + W <= Len(P) => PartAt(P, W + Len(b) + W + Len(h), d3)
  <2>1. Len(u5) + Len(d3) <= Len(P) => PartAt(P, Len(u5), d3)
    BY <1>7, <1>9, <1>10, Part, Zenon
  <2> QED BY <2>1, <1>6, <1>9
<1> DEFINE n1 == getLength(P, 0)
           n2 == getLength(P, W + n1)
           n3 == getLength(P, W + n1 + W + n2)
<1>17. /\ {"ok", "reqBody", "respHeader", "respBody"} \subseteq DOMAIN parsed
       /\ parsed.ok \in BOOLEAN /\ parsed.reqBody \in Seq(C)
       /\ parsed.ok => /\ n1 # -1 /\ n2 # -1 /\ n3 # -1
                       /\ parsed.reqBody = Substr(P, W, n1)
       /\ Len(P) >= 3 * W /\ n1 # -1 /\ n2 # -1 /\ n3 # -1 =>
            /\ parsed.ok = deserializeHeader(Substr(P, W + n1 + W, n2)).ok
            /\ parsed.respHeader = deserializeHeader(Substr(P, W + n1 + W, n2)).map
            /\ parsed.respBody = Substr(P, W + n1 + W + n2 + W, n3)
  <2>1. n1 = getLength(P, 0) /\ n2 = getLength(P, W + n1) /\ n3 = getLength(P, W + n1 + W + n2)
    OBVIOUS
  <2> HIDE DEF n1, n2, n3
  <2> QED BY <1>10, <2>1, deserializeBodyIs
<1>18. W <= Len(P) => n1 = Len(b)
  <2>1. 0 + W <= Len(P) => n1 = Len(b)
    <3>1. 0 \in Nat
      OBVIOUS
    <3>2. 0 + W <= Len(P) => PartAt(P, 0, NumberCells(Len(b)))
      BY <1>11, <1>12 DEF d1
    <3> QED BY <3>1, <3>2, <1>3, <1>4, <1>10, getLengthOf, Zenon
  <2> QED BY <2>1, <1>11
<1>19. n1 # -1 => W <= Len(P)
  <2>1. n1 # -1 => 0 + W <= Len(P)
    <3>1. 0 \in Nat
      OBVIOUS
    <3> QED BY <3>1, <1>10, getLengthIs, Zenon
  <2> HIDE DEF n1
  <2> QED BY <2>1, <1>11
<1>20. W + Len(b) + W <= Len(P) => getLength(P, W + Len(b)) = Len(h)
  <2>1. W + Len(b) \in Nat
    BY <1>3, <1>11
  <2>2. W + Len(b) + W <= Len(P) => PartAt(P, W + Len(b), NumberCells(Len(h)))
    BY <1>14 DEF d2
  <2> QED BY <2>1, <2>2, <1>3, <1>4, <1>10, getLengthOf, Zenon
<1>21. getLength(P, W + Len(b)) # -1 => W + Len(b) + W <= Len(P)
  <2>1. W + Len(b) \in Nat
    BY <1>3, <1>11
  <2> QED BY <2>1, <1>10, getLengthIs, Zenon
<1>22. W + Len(b) + W + Len(h) + W <= Len(P) => getLength(P, W + Len(b) + W + Len(h)) = Len(o)
  <2>1. W + Len(b) + W + Len(h) \in Nat
    BY <1>3, <1>11
  <2>2. W + Len(b) + W + Len(h) + W <= Len(P) =>
            PartAt(P, W + Len(b) + W + Len(h), NumberCells(Len(o)))
    BY <1>16 DEF d3
  <2> QED BY <2>1, <2>2, <1>3, <1>4, <1>10, getLengthOf, Zenon
<1>23. W + Len(b) <= Len(P) => Substr(P, W, Len(b)) = b
  <2>1. W + Len(b) <= Len(P) => Substr(P, W, Len(b)) = SubSeq(P, W + 1, W + Len(b))
    <3>1. /\ Substr(P, W, Len(b)) \in Seq(C)
          /\ W + Len(b) <= Len(P) => /\ Substr(P, W, Len(b)) = SubSeq(P, W + 1, W + Len(b))
                                     /\ Len(Substr(P, W, Len(b))) = Len(b)
          /\ W + Len(b) > Len(P) => Len(b) = 0 \/ Len(Substr(P, W, Len(b))) < Len(b)
      BY <1>3, <1>10, <1>11, SubstrIs, Zenon
    <3> QED BY <3>1, Zenon
  <2> QED BY <2>1, <1>13, Zenon DEF PartAt
<1>24. W + Len(b) + W + Len(h) <= Len(P) => Substr(P, W + Len(b) + W, Len(h)) = h
  <2>1. W + Len(b) + W \in Nat
    BY <1>3, <1>11
  <2>2. W + Len(b) + W + Len(h) <= Len(P) =>
            Substr(P, W + Len(b) + W, Len(h)) = SubSeq(P, W + Len(b) + W + 1, W + Len(b) + W + Len(h))
    <3> DEFINE m == W + Len(b) + W
    <3>1. m \in Nat
      BY <2>1
    <3> HIDE DEF m
    <3>2. /\ Substr(P, m, Len(h)) \in Seq(C)
          /\ m + Len(h) <= Len(P) => /\ Substr(P, m, Len(h)) = SubSeq(P, m + 1, m + Len(h))
                                     /\ Len(Substr(P, m, Len(h))) = Len(h)
          /\ m + Len(h) > Len(P) => Len(h) = 0 \/ Len(Substr(P, m, Len(h))) < Len(h)
      BY <3>1, <1>3, <1>10, SubstrIs, Zenon
    <3> QED BY <3>2, Zenon DEF m
  <2> QED BY <2>2, <1>15, Zenon DEF PartAt
<1>25. ASSUME parsed.ok PROVE parsed.reqBody = b
  <2>1. n1 # -1 /\ n2 # -1 /\ parsed.reqBody = Substr(P, W, n1)
    BY <1>17, <1>25, Zenon
  <2>2. n1 = Len(b)
    <3> HIDE DEF n1
    <3> QED BY <2>1, <1>18, <1>19
  <2>3. W + Len(b) + W <= Len(P)
    <3>1. getLength(P, W + Len(b)) # -1
      BY <2>1, <2>2, Zenon
    <3> QED BY <3>1, <1>21, Zenon
  <2>4. W + Len(b) <= Len(P)
    BY <2>3, <1>3, <1>11
  <2> QED BY <2>1, <2>2, <2>4, <1>23, Zenon
<1>26. ASSUME R = <<>> PROVE parsed.ok /\ parsed.respHeader = HeaderMap(h) /\ parsed.respBody = o
  <2>1. Len(P) = W + Len(b) + W + Len(h) + W + Len(o)
    BY <1>6, <1>9, <1>10, <1>26, Zenon
  <2>2. /\ W <= Len(P) /\ W + Len(b) + W <= Len(P) /\ W + Len(b) + W + Len(h) <= Len(P)
        /\ W + Len(b) + W + Len(h) + W <= Len(P) /\ Len(P) >= 3 * W
    BY <2>1, <1>3, <1>11
  <2>3. n1 = Len(b)
    BY <2>2, <1>18, Zenon
  <2>4. n2 = Len(h)
    BY <2>2, <2>3, <1>20, Zenon
  <2>5. n3 = Len(o)
    BY <2>2, <2>3, <2>4, <1>22, Zenon
  <2>6. n1 # -1 /\ n2 # -1 /\ n3 # -1
    <3> HIDE DEF n1, n2, n3
    <3> QED BY <2>3, <2>4, <2>5, <1>3
  <2>7. /\ parsed.ok = deserializeHeader(Substr(P, W + n1 + W, n2)).ok
        /\ parsed.respHeader = deserializeHeader(Substr(P, W + n1 + W, n2)).map
        /\ parsed.respBody = Substr(P, W + n1 + W + n2 + W, n3)
    BY <2>2, <2>6, <1>17, Zenon
  <2>8. Substr(P, W + n1 + W, n2) = h
    BY <2>2, <2>3, <2>4, <1>24, Zenon
  <2>9. deserializeHeader(h).ok /\ deserializeHeader(h).map = HeaderMap(h)
    BY <1>1, deserializeHeaderIs, Zenon
  <2>10. Substr(P, W + Len(b) + W + Len(h) + W, Len(o)) = o
    <3> DEFINE m == W + Len(b) + W + Len(h) + W
               u6 == u5 \o d3
    <3>1. m \in Nat /\ m + Len(o) = Len(P)
      BY <2>1, <1>3, <1>11
    <3>2. u6 \in Seq(C) /\ Len(u6) = m
      <4>1. u6 \in Seq(C) /\ Len(u6) = Len(u5) + Len(d3)
        BY <1>7, <1>9, TwoParts, Zenon
      <4> HIDE DEF u6
      <4> QED BY <4>1, <1>3, <1>6, <1>9, <1>11
    <3>3. Splits(text, C, u6, o)
      BY <1>9, Zenon
    <3> HIDE DEF m, u6
    <3>4. Len(u6) + Len(o) <= Len(P)
      BY <3>1, <3>2
    <3>5. PartAt(P, Len(u6), o)
      BY <1>7, <1>10, <3>2, <3>3, <3>4, Part, Zenon
    <3>6. m + Len(o) <= Len(P) => Substr(P, m, Len(o)) = SubSeq(P, m + 1, m + Len(o))
      <4>1. /\ Substr(P, m, Len(o)) \in Seq(C)
            /\ m + Len(o) <= Len(P) => /\ Substr(P, m, Len(o)) = SubSeq(P, m + 1, m + Len(o))
                                       /\ Len(Substr(P, m, Len(o))) = Len(o)
            /\ m + Len(o) > Len(P) => Len(o) = 0 \/ Len(Substr(P, m, Len(o))) < Len(o)
        BY <3>1, <1>3, <1>10, SubstrIs, Zenon
      <4> QED BY <4>1, Zenon
    <3>7. Substr(P, m, Len(o)) = o
      BY <3>2, <3>4, <3>5, <3>6, Zenon DEF PartAt
    <3> QED BY <3>7 DEF m
  <2>11. Substr(P, W + n1 + W + n2 + W, n3) = o
    BY <2>3, <2>4, <2>5, <2>10, Zenon
  <2> QED BY <2>7, <2>8, <2>9, <2>11, Zenon
<1> QED BY <1>25, <1>26, Zenon DEF Restored, b, h, o

-----------------------------------------------------------------------------
(* What a handler reads: the inductive invariant.                          *)

ReadFields == {"pc", "hooks", "net", "failed", "cut", "mig", "env", "method", "headers", "info", "ictx",
               "readbytes", "got", "eos", "error"}
InfoFields == {"present", "mBody", "mReqBody", "offset"}
MigFields == {"read", "body", "ctx"}

\* The streams of a request x, of cells out of C.
Streaming(x, C) ==
    /\ ReadFields \subseteq DOMAIN x /\ InfoFields \subseteq DOMAIN x.info /\ MigFields \subseteq DOMAIN x.mig
    /\ x.net \in Seq(C) /\ x.mig.body \in Seq(C) /\ x.got \in Seq(C)
    /\ x.info.mBody \in Seq(C) /\ x.info.mReqBody \in Seq(C)
    /\ x.mig.ctx \in -1 .. Len(x.mig.body)
    /\ x.info.offset \in 0 .. Len(x.info.mReqBody)
    /\ x.mig.read \in BOOLEAN /\ x.failed \in BOOLEAN /\ x.cut \in BOOLEAN
    /\ x.eos \in BOOLEAN /\ x.error \in BOOLEAN

\* What mod_migrate, and what the filters below mod_compare have still to give.
GivenBack(body, ctx) == IF ctx = -1 THEN <<>> ELSE SubSeq(body, ctx + 1, Len(body))
Rest(x) == IF x.mig.read THEN GivenBack(x.mig.body, x.mig.ctx) \o x.net ELSE x.net
Drained(x) == (x.mig.read => x.mig.ctx = -1) /\ x.net = <<>>

DupMarks == {"X_DUP_METHOD", "X_DUP_HTTP_STATUS", "X_DUP_CONTENT_TYPE"}

Unmarked(x, q) ==
    /\ IsDuplicate(x) <=> IsDuplicate(q)
    /\ ~x.info.present => x.headers = q.headers
    /\ x.info.present =>
        /\ "X_DUP_METHOD" \in DOMAIN q.headers /\ q.headers["X_DUP_METHOD"] \in Methods
            => x.method = q.headers["X_DUP_METHOD"]
        /\ DupMarks \cap DOMAIN x.headers = {}

NotUnpacked(x) == x.ictx = 0 /\ x.info.offset = 0 /\ x.info.mReqBody = <<>>
NothingGiven(x) == x.got = <<>> /\ ~x.eos /\ ~x.error

\* Before the handler runs, mod_migrate holds what has been read, and does not
\* let go of the request half way; m says that it is configured. All that is said
\* of the body holds unless a failure was taken for the end of it, or took a part
\* of it (x.cut).
Translating(x, q, m) ==
    /\ NotUnpacked(x) /\ NothingGiven(x) /\ x.info.mBody = <<>>
    /\ x.mig.ctx = 0 /\ (~x.cut => x.mig.body \o x.net = q.text)
    /\ \/ x.mig.read \/ x.mig.body = <<>>
       \/ x.hooks # <<>> /\ Head(x.hooks) = "migrate" /\ m

\* A request that is no duplicate is passed through.
Passing(x, q) ==
    /\ NotUnpacked(x)
    /\ ~x.cut => x.got \o Rest(x) = q.text /\ (x.eos => x.got = q.text)
    /\ x.error => x.failed \/ x.cut

\* A duplicate is collected first, then unpacked; there is nothing behind it.
Collecting(x, q) ==
    /\ NotUnpacked(x) /\ NothingGiven(x)
    /\ x.info.present \/ x.info.mBody = <<>>
    /\ ~x.cut => x.info.mBody \o Rest(x) = q.text

Reinjecting(x, q) ==
    /\ x.ictx = 1
    /\ ~x.cut => /\ x.got = SubSeq(x.info.mReqBody, 1, x.info.offset)
                 /\ x.eos => x.info.offset = Len(x.info.mReqBody)
                 /\ Drained(x)
                 /\ WellFormed(q) => x.info.mReqBody = q.body
    /\ WellFormed(q) => (x.error => x.failed \/ x.cut)

Reads(x, q, m) ==
    /\ Streaming(x, Range(q.text))
    /\ Unmarked(x, q)
    /\ x.pc = "translate" => Translating(x, q, m)
    /\ x.pc # "translate" /\ ~IsDuplicate(q) => Passing(x, q)
    /\ x.pc # "translate" /\ IsDuplicate(q) => Collecting(x, q) \/ Reinjecting(x, q)
    /\ x.pc = "extract" => /\ IsDuplicate(q) /\ x.ictx = 0
                           /\ x.info.present /\ x.readbytes \in ReadSizes

Migrates == conf.migrate.mDirName /\ phase = "running"

RequestInv ==
    /\ scenario \in Scenarios /\ DOMAIN rq = Serving
    /\ \A t \in Serving : Reads(rq[t], Request(t), Migrates)

-----------------------------------------------------------------------------
(* A brigade is the next part of what is left.                             *)

SameBut(x, y, K) == DOMAIN y = DOMAIN x /\ \A f \in DOMAIN x \ K : y[f] = x[f]

IsBrigade(r, C) ==
    /\ {"ok", "data", "eos", "x"} \subseteq DOMAIN r
    /\ r.ok \in BOOLEAN /\ r.eos \in BOOLEAN /\ r.data \in Seq(C)
    /\ ~r.ok => r.data = <<>> /\ ~r.eos /\ r.x.failed

Given(x, r, C) ==
    /\ IsBrigade(r, C)
    /\ SameBut(x, r.x, {"net", "failed"})
    /\ r.x.net \in Seq(C) /\ r.x.failed \in BOOLEAN
    /\ r.ok => /\ r.data \o r.x.net = x.net
               /\ r.eos => r.x.net = <<>>
               /\ x.net = <<>> => r.eos /\ r.data = <<>>
    /\ ~r.ok => r.x.net = x.net

LEMMA SplitAt ==
    ASSUME NEW C, NEW s \in Seq(C), NEW k \in 0 .. Len(s)
    PROVE  /\ SubSeq(s, 1, k) \in Seq(C) /\ SubSeq(s, k + 1, Len(s)) \in Seq(C)
           /\ SubSeq(s, 1, k) \o SubSeq(s, k + 1, Len(s)) = s
           /\ k = Len(s) => SubSeq(s, k + 1, Len(s)) = <<>>
           /\ k = 0 => SubSeq(s, 1, k) = <<>>
<1>1. Len(s) \in Nat /\ \A i \in 1 .. Len(s) : s[i] \in C
  OBVIOUS
<1>2. SubSeq(s, 1, k) \in Seq(C) /\ SubSeq(s, k + 1, Len(s)) \in Seq(C)
  <2>1. (\A i \in 1 .. k : s[i] \in C) /\ (\A i \in k + 1 .. Len(s) : s[i] \in C)
    BY <1>1
  <2>2. 1 \in Int /\ k \in Int /\ k + 1 \in Int /\ Len(s) \in Int
    BY <1>1
  <2> QED BY <2>1, <2>2, SubSeqProperties
<1>3. SubSeq(s, 1, k) \o SubSeq(s, k + 1, Len(s)) = SubSeq(s, 1, Len(s))
  <2>1. 1 \in 1 .. Len(s) + 1 /\ k \in 1 - 1 .. Len(s) /\ Len(s) \in k .. Len(s)
    BY <1>1
  <2> QED BY <2>1, ConcatAdjacentSubSeq, Zenon
<1>4. SubSeq(s, 1, Len(s)) = s
  BY SubSeqFull
<1>5. k = Len(s) => SubSeq(s, k + 1, Len(s)) = <<>>
  BY <1>1, SubSeqEmpty
<1>6. k = 0 => SubSeq(s, 1, k) = <<>>
  BY SubSeqEmpty
<1> QED BY <1>2, <1>3, <1>4, <1>5, <1>6, Zenon

LEMMA NetBrigadesIs ==
    ASSUME NEW C, NEW x, {"net", "failed"} \subseteq DOMAIN x, x.net \in Seq(C), x.failed \in BOOLEAN,
           NEW n \in Nat \ {0}, NEW r \in NetBrigades(x, n)
    PROVE  Given(x, r, C)
<1>1. CASE \E b \in {c \in [cells : {Min({1, Len(x.net)}), Min({n, Len(x.net)})}, eos : BOOLEAN] :
                        /\ c.eos => c.cells = Len(x.net)
                        /\ x.net = <<>> => c.eos} :
                r = [ok |-> TRUE, data |-> SubSeq(x.net, 1, b.cells), eos |-> b.eos,
                     x |-> [x EXCEPT !.net = SubSeq(@, b.cells + 1, Len(@))]]
  <2>1. PICK b \in [cells : {Min({1, Len(x.net)}), Min({n, Len(x.net)})}, eos : BOOLEAN] :
            /\ b.eos => b.cells = Len(x.net)
            /\ x.net = <<>> => b.eos
            /\ r = [ok |-> TRUE, data |-> SubSeq(x.net, 1, b.cells), eos |-> b.eos,
                    x |-> [x EXCEPT !.net = SubSeq(@, b.cells + 1, Len(@))]]
    BY <1>1, Zenon
  <2> DEFINE s == x.net
             k == b.cells
  <2>2. k \in 0 .. Len(s)
    <3>1. Len(s) \in Nat
      OBVIOUS
    <3>2. k \in {Min({1, Len(s)}), Min({n, Len(s)})}
      BY <2>1
    <3> HIDE DEF s, k
    <3> QED BY <3>1, <3>2, MinOfTwo
  <2>3. /\ r.ok = TRUE /\ r.data = SubSeq(s, 1, k) /\ r.eos = b.eos /\ b.eos \in BOOLEAN
        /\ r.x = [x EXCEPT !.net = SubSeq(s, k + 1, Len(s))]
        /\ {"ok", "data", "eos", "x"} \subseteq DOMAIN r
    BY <2>1
  <2>4. r.x.net = SubSeq(s, k + 1, Len(s)) /\ r.x.failed = x.failed /\ SameBut(x, r.x, {"net", "failed"})
    BY <2>3 DEF SameBut
  <2>5. s \in Seq(C) /\ (b.eos => k = Len(s)) /\ (s = <<>> => b.eos)
    BY <2>1
  <2> HIDE DEF s, k
  <2>6. /\ SubSeq(s, 1, k) \in Seq(C) /\ SubSeq(s, k + 1, Len(s)) \in Seq(C)
        /\ SubSeq(s, 1, k) \o SubSeq(s, k + 1, Len(s)) = s
        /\ k = Len(s) => SubSeq(s, k + 1, Len(s)) = <<>>
        /\ k = 0 => SubSeq(s, 1, k) = <<>>
    BY <2>2, <2>5, SplitAt, Zenon
  <2>7. s = <<>> => SubSeq(s, 1, k) = <<>>
    <3>1. s = <<>> => Len(s) = 0
      OBVIOUS
    <3>2. s = <<>> => k = 0
      BY <2>5, <3>1
    <3> QED BY <3>2, <2>6, Zenon
  <2>8. IsBrigade(r, C)
    BY <2>3, <2>6, Zenon DEF IsBrigade
  <2>9. s = x.net
    BY DEF s
  <2> QED BY <2>3, <2>4, <2>5, <2>6, <2>7, <2>8, <2>9, Zenon DEF Given
<1>2. CASE r = [ok |-> FALSE, data |-> <<>>, eos |-> FALSE, x |-> [x EXCEPT !.failed = TRUE]]
  <2>1. /\ r.ok = FALSE /\ r.data = <<>> /\ r.eos = FALSE /\ r.x = [x EXCEPT !.failed = TRUE]
        /\ {"ok", "data", "eos", "x"} \subseteq DOMAIN r
    BY <1>2
  <2>2. r.x.net = x.net /\ r.x.failed = TRUE /\ SameBut(x, r.x, {"net", "failed"})
    BY <2>1 DEF SameBut
  <2>3. <<>> \in Seq(C)
    OBVIOUS
  <2>4. IsBrigade(r, C)
    BY <2>1, <2>2, <2>3, Zenon DEF IsBrigade
  <2> QED BY <2>1, <2>2, <2>4, Zenon DEF Given
<1> QED BY <1>1, <1>2, Zenon DEF NetBrigades

\* The filter of mod_migrate gives b back and keeps the rest for later.
GivesBack(body, ctx, b, C) ==
    /\ b.data \in Seq(C) /\ b.ctx \in -1 .. Len(body)
    /\ b.next <=> b.ctx = -1
    /\ ctx = -1 => b.ctx = -1 /\ b.data = <<>>
    /\ GivenBack(body, ctx) \in Seq(C) /\ GivenBack(body, b.ctx) \in Seq(C)
    /\ b.data \o GivenBack(body, b.ctx) = GivenBack(body, ctx)

LEMMA inputFilterBody2BrigadeIs ==
    ASSUME NEW C, NEW body \in Seq(C), NEW ctx \in -1 .. Len(body), NEW n \in Nat \ {0},
           NEW b, b = inputFilterBody2Brigade(body, ctx, n)
    PROVE  GivesBack(body, ctx, b, C)
<1> DEFINE L == Len(body)
           toRead == Min({L - ctx, n})
           read == ctx + toRead
           ends == ctx = -1 \/ read >= L
<1>0. L \in Nat /\ \A i \in 1 .. L : body[i] \in C
  OBVIOUS
<1>1. /\ b.data = IF ctx = -1 THEN <<>> ELSE SubSeq(body, ctx + 1, read)
      /\ b.ctx = IF ends THEN -1 ELSE read
      /\ b.next = ends
  BY DEF inputFilterBody2Brigade
<1>2. toRead = IF L - ctx <= n THEN L - ctx ELSE n
  BY <1>0, MinOfTwo
<1> HIDE DEF toRead
<1>3. <<>> \in Seq(C) /\ GivenBack(body, -1) = <<>>
  BY DEF GivenBack
<1>4. CASE ctx = -1
  <2>1. b.data = <<>> /\ b.ctx = -1 /\ b.next = TRUE
    BY <1>1, <1>4
  <2>2. <<>> \o <<>> = <<>>
    OBVIOUS
  <2>3. -1 \in -1 .. Len(body)
    BY <1>0
  <2> QED BY <1>3, <1>4, <2>1, <2>2, <2>3, Zenon DEF GivesBack
<1>5. CASE ctx # -1
  <2>1. ctx \in 0 .. L
    BY <1>0, <1>5
  <2>2. read \in ctx .. L /\ read \in 0 .. L /\ (read >= L => read = L)
    BY <1>0, <1>2, <2>1
  <2> HIDE DEF read
  <2>3. /\ SubSeq(body, ctx + 1, read) \in Seq(C) /\ SubSeq(body, ctx + 1, L) \in Seq(C)
        /\ SubSeq(body, read + 1, L) \in Seq(C)
    <3>1. ctx + 1 \in Int /\ read \in Int /\ L \in Int /\ read + 1 \in Int
      BY <1>0, <2>1, <2>2
    <3>2. /\ \A i \in ctx + 1 .. read : body[i] \in C
          /\ \A i \in ctx + 1 .. L : body[i] \in C
          /\ \A i \in read + 1 .. L : body[i] \in C
      BY <1>0, <2>1, <2>2
    <3> HIDE DEF L
    <3> QED BY <3>1, <3>2, SubSeqProperties
  <2>4. GivenBack(body, ctx) = SubSeq(body, ctx + 1, L)
    BY <1>5 DEF GivenBack
  <2>5. CASE read >= L
    <3>1. b.data = SubSeq(body, ctx + 1, L) /\ b.ctx = -1 /\ b.next = TRUE
      BY <1>1, <1>5, <2>2, <2>5
    <3>2. SubSeq(body, ctx + 1, L) \o <<>> = SubSeq(body, ctx + 1, L)
      BY <2>3, ConcatEmptySeq
    <3>3. -1 \in -1 .. L
      BY <1>0
    <3> QED BY <1>3, <1>5, <2>3, <2>4, <3>1, <3>2, <3>3, Zenon DEF GivesBack
  <2>6. CASE ~(read >= L)
    <3>0. read # -1 /\ ~ends
      BY <1>0, <1>5, <2>2, <2>6
    <3>1. b.data = SubSeq(body, ctx + 1, read) /\ b.ctx = read /\ b.next = FALSE /\ read # -1
      BY <1>1, <1>5, <3>0, Zenon
    <3>2. GivenBack(body, read) = SubSeq(body, read + 1, L)
      BY <3>1, <2>2, <1>0, SMT DEF GivenBack
    <3>3. SubSeq(body, ctx + 1, read) \o SubSeq(body, read + 1, L) = SubSeq(body, ctx + 1, L)
      <4> DEFINE m == ctx + 1
      <4>1. m \in 1 .. L + 1 /\ read \in m - 1 .. L /\ L \in read .. L
        BY <1>0, <2>1, <2>2
      <4> HIDE DEF m
      <4>2. SubSeq(body, m, read) \o SubSeq(body, read + 1, L) = SubSeq(body, m, L)
        BY <4>1, ConcatAdjacentSubSeq
      <4> QED BY <4>2 DEF m
    <3>4. read \in -1 .. L
      BY <1>0, <2>2
    <3> QED BY <1>5, <2>3, <2>4, <3>1, <3>2, <3>3, <3>4, Zenon DEF GivesBack
  <2> QED BY <2>5, <2>6
<1> QED BY <1>4, <1>5

\* The same for the filters below mod_compare together.
Passes(x, r, C) ==
    /\ IsBrigade(r, C)
    /\ SameBut(x, r.x, {"net", "failed", "cut", "mig"})
    /\ DOMAIN r.x.mig = DOMAIN x.mig /\ r.x.mig.read = x.mig.read /\ r.x.mig.body = x.mig.body
    /\ r.x.mig.ctx \in -1 .. Len(x.mig.body)
    /\ r.x.net \in Seq(C) /\ r.x.failed \in BOOLEAN /\ r.x.cut \in BOOLEAN /\ (x.cut => r.x.cut)
    /\ Rest(x) \in Seq(C) /\ Rest(r.x) \in Seq(C)
    /\ r.ok => /\ r.data \o Rest(r.x) = Rest(x)
               /\ r.eos => Rest(r.x) = <<>>
               /\ Drained(x) => r.eos /\ r.data = <<>>
    /\ ~r.ok => r.x.cut \/ Rest(r.x) = Rest(x)
    /\ r.eos \/ Drained(x) => Drained(r.x)

LEMMA BrigadesIs ==
    ASSUME NEW C, NEW x, Streaming(x, C), NEW n \in Nat \ {0}, NEW r \in Brigades(x, n)
    PROVE  Passes(x, r, C)
<1> DEFINE b == inputFilterBody2Brigade(x.mig.body, x.mig.ctx, n)
           y == [x EXCEPT !.mig.ctx = b.ctx]
           left == GivenBack(x.mig.body, b.ctx)
<1>1. /\ b.data \in Seq(C) /\ b.ctx \in -1 .. Len(x.mig.body)
      /\ b.next <=> b.ctx = -1
      /\ x.mig.ctx = -1 => b.ctx = -1 /\ b.data = <<>>
      /\ GivenBack(x.mig.body, x.mig.ctx) \in Seq(C) /\ left \in Seq(C)
      /\ b.data \o left = GivenBack(x.mig.body, x.mig.ctx)
  <2> DEFINE body == x.mig.body
             ctx == x.mig.ctx
  <2>1. body \in Seq(C) /\ ctx \in -1 .. Len(body) /\ b = inputFilterBody2Brigade(body, ctx, n)
    BY DEF Streaming
  <2> HIDE DEF body, ctx, b
  <2>2. GivesBack(body, ctx, b, C)
    BY <2>1, inputFilterBody2BrigadeIs
  <2> QED BY <2>2, Zenon DEF body, ctx, GivesBack
<1> HIDE DEF b
<1>2. /\ SameBut(x, y, {"mig"}) /\ DOMAIN y.mig = DOMAIN x.mig
      /\ y.mig.read = x.mig.read /\ y.mig.body = x.mig.body /\ y.mig.ctx = b.ctx
      /\ y.net = x.net /\ y.failed = x.failed /\ y.cut = x.cut
  BY DEF Streaming, SameBut, ReadFields, MigFields
<1>3. x.net \in Seq(C) /\ x.failed \in BOOLEAN /\ x.cut \in BOOLEAN /\ {"net", "failed", "cut", "mig"} \subseteq DOMAIN x
      /\ x.mig.ctx \in -1 .. Len(x.mig.body) /\ x.mig.read \in BOOLEAN
  BY DEF Streaming, ReadFields
<1> HIDE DEF y, left
<1>4. CASE ~x.mig.read
  <2>1. r \in NetBrigades(x, n)
    BY <1>4, Zenon DEF Brigades
  <2>2. Given(x, r, C)
    BY <1>3, <2>1, NetBrigadesIs
  <2>3. r.x.mig = x.mig /\ r.x.cut = x.cut /\ SameBut(x, r.x, {"net", "failed", "cut", "mig"})
    BY <1>3, <2>2 DEF Given, SameBut
  <2>4. Rest(x) = x.net /\ Rest(r.x) = r.x.net
    BY <1>4, <2>3 DEF Rest
  <2>5. /\ IsBrigade(r, C) /\ r.x.net \in Seq(C) /\ r.x.failed \in BOOLEAN
        /\ r.x.cut \in BOOLEAN /\ (x.cut => r.x.cut)
    BY <1>3, <2>2, <2>3, Zenon DEF Given
  <2>6. r.ok => /\ r.data \o Rest(r.x) = Rest(x)
                /\ r.eos => Rest(r.x) = <<>>
                /\ Drained(x) => r.eos /\ r.data = <<>>
    BY <2>2, <2>4, Zenon DEF Given, Drained
  <2>7. /\ ~r.ok => r.x.cut \/ Rest(r.x) = Rest(x)
        /\ r.eos \/ Drained(x) => Drained(r.x)
    BY <1>4, <2>2, <2>3, <2>4, <2>5, <1>3, Zenon DEF Given, Drained, IsBrigade
  <2> QED BY <1>3, <2>3, <2>4, <2>5, <2>6, <2>7, Zenon DEF Passes
<1>5. CASE x.mig.read
  <2>0. Rest(x) = (b.data \o left) \o x.net
    BY <1>1, <1>5 DEF Rest
  <2>1. Rest(x) \in Seq(C)
    BY <1>1, <1>3, <2>0
  <2>2. b.ctx = -1 => left = <<>>
    BY DEF left, GivenBack
  <2>3. left \o x.net \in Seq(C) /\ (b.data \o left) \o x.net = b.data \o (left \o x.net)
    <3>1. left \o x.net \in Seq(C)
      BY <1>1, <1>3, TwoParts, Zenon
    <3>2. Associate(b.data, left, x.net)
      BY <1>1, <1>3, Associative, Zenon
    <3> QED BY <3>1, <3>2, Zenon DEF Associate
  <2>4. CASE ~b.next
    <3>1. r = [ok |-> TRUE, data |-> b.data, eos |-> FALSE, x |-> y]
      BY <1>5, <2>4, Zenon DEF Brigades, b, y
    <3>2. /\ r.ok = TRUE /\ r.data = b.data /\ r.eos = FALSE /\ r.x = y
          /\ {"ok", "data", "eos", "x"} \subseteq DOMAIN r
      BY <3>1
    <3>3. Rest(y) = left \o x.net
      BY <1>2, <1>5, Zenon DEF Rest, left
    <3>4. SameBut(x, y, {"net", "failed", "cut", "mig"})
      BY <1>2 DEF SameBut
    <3>5. ~Drained(x)
      BY <1>1, <1>5, <2>4, Zenon DEF Drained
    <3>6. IsBrigade(r, C)
      BY <1>1, <3>2, Zenon DEF IsBrigade
    <3> QED BY <1>1, <1>2, <1>3, <2>0, <2>1, <2>3, <3>2, <3>3, <3>4, <3>5, <3>6, Zenon DEF Passes
  <2>5. CASE b.next
    <3>1. PICK q \in NetBrigades(y, n) : r = [q EXCEPT !.data = IF q.ok THEN b.data \o @ ELSE @,
                                                        !.x.cut = @ \/ (~q.ok /\ b.data # <<>>)]
      BY <1>5, <2>5, Zenon DEF Brigades, b, y
    <3>2. Given(y, q, C)
      <4>1. y.net \in Seq(C) /\ y.failed \in BOOLEAN /\ {"net", "failed"} \subseteq DOMAIN y
        BY <1>2, <1>3 DEF SameBut
      <4> QED BY <3>1, <4>1, NetBrigadesIs
    <3>3. IsBrigade(q, C) /\ SameBut(y, q.x, {"net", "failed"})
      BY <3>2, Zenon DEF Given
    <3>4. /\ r.ok = q.ok /\ r.eos = q.eos /\ DOMAIN r = DOMAIN q
          /\ r.data = IF q.ok THEN b.data \o q.data ELSE q.data
          /\ r.x = [q.x EXCEPT !.cut = @ \/ (~q.ok /\ b.data # <<>>)]
      BY <3>1, <3>3 DEF IsBrigade
    <3>5. /\ q.x.cut = x.cut /\ "cut" \in DOMAIN q.x /\ q.x.mig = y.mig
          /\ SameBut(x, q.x, {"net", "failed", "cut", "mig"})
      BY <1>2, <1>3, <3>3 DEF SameBut
    <3>6. /\ y.net = x.net
          /\ r.x.cut = (x.cut \/ (~q.ok /\ b.data # <<>>)) /\ r.x.mig = y.mig
          /\ r.x.net = q.x.net /\ r.x.failed = q.x.failed
          /\ SameBut(x, r.x, {"net", "failed", "cut", "mig"})
      BY <1>2, <1>3, <3>4, <3>5 DEF SameBut
    <3>7. b.ctx = -1 /\ left = <<>>
      BY <1>1, <2>2, <2>5, Zenon
    <3>8. q.x.net \in Seq(C) /\ q.x.failed \in BOOLEAN /\ q.data \in Seq(C)
      BY <3>2, Zenon DEF Given, IsBrigade
    <3>9. <<>> \o q.x.net = q.x.net /\ b.data \o <<>> = b.data /\ <<>> \o <<>> = <<>>
      BY <3>8, <1>1, ConcatEmptySeq
    <3>10. Rest(r.x) = q.x.net
      <4>1. Rest(r.x) = GivenBack(x.mig.body, b.ctx) \o q.x.net
        BY <1>2, <1>5, <3>6, Zenon DEF Rest
      <4> QED BY <3>7, <3>9, <4>1, Zenon DEF left
    <3>11. Rest(x) = b.data \o x.net
      BY <2>0, <3>7, <3>9, Zenon
    <3>12. r.data \in Seq(C)
      <4>1. b.data \o q.data \in Seq(C)
        BY <1>1, <3>8, TwoParts, Zenon
      <4> QED BY <3>4, <3>8, <4>1, Zenon
    <3>13. q.ok => r.data \o Rest(r.x) = Rest(x)
      <4>1. Associate(b.data, q.data, q.x.net)
        BY <1>1, <3>8, Associative, Zenon
      <4>2. q.ok => q.data \o q.x.net = x.net
        BY <3>2, <3>6, Zenon DEF Given
      <4> QED BY <3>4, <3>10, <3>11, <4>1, <4>2, Zenon DEF Associate
    <3>14. /\ q.ok => (q.eos => q.x.net = <<>>) /\ (x.net = <<>> => q.eos /\ q.data = <<>>)
           /\ ~q.ok => q.x.failed /\ ~q.eos /\ q.data = <<>> /\ q.x.net = x.net
      BY <3>2, <3>3, <3>6, Zenon DEF Given, IsBrigade
    <3>15. Drained(x) => b.data = <<>> /\ x.net = <<>>
      BY <1>1, <1>5, Zenon DEF Drained
    <3>16. r.ok /\ Drained(x) => r.eos /\ r.data = <<>>
      BY <3>4, <3>9, <3>14, <3>15, Zenon
    <3>17. r.eos \/ Drained(x) => Drained(r.x)
      <4>1. r.eos \/ Drained(x) => q.x.net = <<>>
        BY <3>4, <3>14, <3>15, Zenon
      <4>2. r.x.mig.ctx = -1
        BY <1>2, <3>6, <3>7, Zenon
      <4> QED BY <3>6, <4>1, <4>2, Zenon DEF Drained
    <3>18. IsBrigade(r, C)
      BY <3>3, <3>4, <3>6, <3>12, <3>14, Zenon DEF IsBrigade
    <3>19. /\ DOMAIN r.x.mig = DOMAIN x.mig /\ r.x.mig.read = x.mig.read /\ r.x.mig.body = x.mig.body
           /\ r.x.mig.ctx \in -1 .. Len(x.mig.body)
      BY <1>1, <1>2, <3>6, Zenon
    <3>20. /\ r.x.net \in Seq(C) /\ r.x.failed \in BOOLEAN /\ r.x.cut \in BOOLEAN /\ (x.cut => r.x.cut)
           /\ Rest(x) \in Seq(C) /\ Rest(r.x) \in Seq(C)
      BY <2>1, <3>6, <3>8, <3>10, Zenon
    <3>21. r.eos => Rest(r.x) = <<>>
      BY <3>4, <3>10, <3>14, Zenon
    <3>22. ~r.ok => r.x.cut \/ Rest(r.x) = Rest(x)
      <4>1. b.data = <<>> => Rest(x) = x.net
        <5>1. <<>> \o x.net = x.net
          BY <1>3, ConcatEmptySeq
        <5> QED BY <3>11, <5>1, Zenon
      <4> QED BY <3>4, <3>6, <3>10, <3>14, <4>1, Zenon
    <3> QED BY <3>4, <3>6, <3>13, <3>16, <3>17, <3>18, <3>19, <3>20, <3>21, <3>22, Zenon DEF Passes
  <2> QED BY <2>4, <2>5
<1> QED BY <1>3, <1>4, <1>5

-----------------------------------------------------------------------------
(* What the handler is given of it.                                        *)

LEMMA PrefixOf ==
    ASSUME NEW C, NEW s \in Seq(C), NEW t \in Seq(C)
    PROVE  IsPrefix(s, s \o t)
<1>1. Len(s) \in Nat /\ Len(t) \in Nat
  OBVIOUS
<1>2. s \o t \in Seq(C) /\ Len(s \o t) = Len(s) + Len(t)
  BY TwoParts
<1>3. SubSeq(s, 1, Len(s)) = s
  BY SubSeqFull
<1>4. SubSeq(s \o t, 1, Len(s)) = s
  <2>1. CASE Len(s) = 0
    <3>1. s = <<>> /\ SubSeq(s \o t, 1, 0) = <<>>
      BY <2>1, SubSeqEmpty, EmptySeq
    <3> QED BY <2>1, <3>1, Zenon
  <2>2. CASE Len(s) # 0
    <3>1. 1 \in 1 .. Len(s) /\ Len(s) \in 1 .. Len(s)
      BY <1>1, <2>2
    <3>2. SubSeq(s \o t, 1, Len(s)) = SubSeq(s, 1, Len(s))
      BY <3>1, SubSeqOfConcat1
    <3> QED BY <1>3, <3>2, Zenon
  <2> QED BY <2>1, <2>2
<1>5. Len(s) <= Len(s \o t)
  BY <1>1, <1>2
<1> QED BY <1>3, <1>4, <1>5, Zenon DEF IsPrefix

LEMMA PrefixCut ==
    ASSUME NEW C, NEW s \in Seq(C), NEW k \in 0 .. Len(s)
    PROVE  IsPrefix(SubSeq(s, 1, k), s)
<1> DEFINE a == SubSeq(s, 1, k)
           c == SubSeq(s, k + 1, Len(s))
<1>1. a \in Seq(C) /\ c \in Seq(C) /\ a \o c = s
  BY SplitAt, Zenon
<1> HIDE DEF a, c
<1>2. IsPrefix(a, a \o c)
  BY <1>1, PrefixOf, Zenon
<1> QED BY <1>1, <1>2, Zenon DEF a

\* The brigade r of the filters below request x is delivered, which makes it y.
Arrives(x, r, y, C) ==
    /\ Streaming(y, C) /\ IsBrigade(r, C)
    /\ y.pc = "handle" /\ y.got = x.got \o r.data /\ y.eos = r.eos /\ y.error = ~r.ok
    /\ y.info = x.info /\ y.headers = x.headers /\ y.method = x.method /\ y.ictx = x.ictx
    /\ Rest(x) \in Seq(C) /\ Rest(y) \in Seq(C)
    /\ r.ok => /\ r.data \o Rest(y) = Rest(x)
               /\ r.eos => Rest(y) = <<>>
               /\ Drained(x) => r.eos /\ r.data = <<>>
    /\ ~r.ok => y.failed /\ (y.cut \/ Rest(y) = Rest(x))
    /\ x.cut => y.cut
    /\ Drained(x) => Drained(y)

LEMMA DeliveredIs ==
    ASSUME NEW C, NEW x, Streaming(x, C), NEW n \in Nat \ {0}, NEW r \in Brigades(x, n),
           NEW y, y = Delivered(r)
    PROVE  Arrives(x, r, y, C)
<1>1. Passes(x, r, C)
  BY BrigadesIs
<1>2. IsBrigade(r, C) /\ SameBut(x, r.x, {"net", "failed", "cut", "mig"})
  BY <1>1, Zenon DEF Passes
<1>3. ReadFields \subseteq DOMAIN r.x /\ r.x.got = x.got /\ r.x.info = x.info /\ r.x.headers = x.headers
      /\ r.x.method = x.method /\ r.x.ictx = x.ictx
  BY <1>2 DEF SameBut, Streaming, ReadFields
<1>4. /\ DOMAIN y = DOMAIN r.x /\ y.pc = "handle" /\ y.got = x.got \o r.data /\ y.eos = r.eos /\ y.error = ~r.ok
      /\ y.info = x.info /\ y.headers = x.headers /\ y.method = x.method /\ y.ictx = x.ictx
      /\ y.net = r.x.net /\ y.failed = r.x.failed /\ y.cut = r.x.cut /\ y.mig = r.x.mig
  BY <1>3 DEF Delivered, ReadFields
<1>5. Rest(y) = Rest(r.x) /\ (Drained(y) <=> Drained(r.x))
  BY <1>4, Zenon DEF Rest, Drained
<1>6. y.got \in Seq(C)
  <2>1. x.got \in Seq(C) /\ r.data \in Seq(C)
    BY <1>2, Zenon DEF Streaming, IsBrigade
  <2> QED BY <1>4, <2>1, TwoParts, Zenon
<1>7. y.eos \in BOOLEAN /\ y.error \in BOOLEAN
  BY <1>2, <1>4, Zenon DEF IsBrigade
<1>8. /\ DOMAIN r.x.mig = DOMAIN x.mig /\ r.x.mig.read = x.mig.read /\ r.x.mig.body = x.mig.body
      /\ r.x.mig.ctx \in -1 .. Len(x.mig.body)
      /\ r.x.net \in Seq(C) /\ r.x.failed \in BOOLEAN /\ r.x.cut \in BOOLEAN
  BY <1>1, Zenon DEF Passes
<1>9. Streaming(y, C)
  BY <1>3, <1>4, <1>6, <1>7, <1>8, Zenon DEF Streaming
<1>10. ~r.ok => r.x.failed
  BY <1>2, Zenon DEF IsBrigade
<1> QED BY <1>1, <1>2, <1>4, <1>5, <1>9, <1>10, Zenon DEF Arrives, Passes

\* What a request that is not a duplicate is given is the next part of its text.
LEMMA PassingStep ==
    ASSUME NEW q, NEW C, q.text \in Seq(C), NEW x, Streaming(x, C), Passing(x, q),
           NEW r, NEW y, Arrives(x, r, y, C)
    PROVE  Passing(y, q)
<1>1. NotUnpacked(y) /\ (y.error => y.failed \/ y.cut) /\ (x.cut => y.cut)
  BY Zenon DEF Passing, NotUnpacked, Arrives
<1>2. x.got \in Seq(C) /\ r.data \in Seq(C) /\ Rest(y) \in Seq(C) /\ Rest(x) \in Seq(C) /\ y.got \in Seq(C)
  BY Zenon DEF Streaming, Arrives, IsBrigade
<1>3. (~x.cut => x.got \o Rest(x) = q.text) /\ y.got = x.got \o r.data
  BY Zenon DEF Passing, Arrives
<1>4. CASE r.ok
  <2>1. r.data \o Rest(y) = Rest(x) /\ (r.eos => Rest(y) = <<>>) /\ y.eos = r.eos /\ ~y.error
    BY <1>4, Zenon DEF Arrives
  <2>2. Associate(x.got, r.data, Rest(y))
    BY <1>2, Associative, Zenon
  <2>3. ~x.cut => y.got \o Rest(y) = q.text
    BY <1>3, <2>1, <2>2, Zenon DEF Associate
  <2>4. y.got \o <<>> = y.got
    BY <1>2, ConcatEmptySeq
  <2> QED BY <1>1, <2>1, <2>3, <2>4, Zenon DEF Passing
<1>5. CASE ~r.ok
  <2>1. (y.cut \/ Rest(y) = Rest(x)) /\ ~y.eos /\ r.data = <<>>
    BY <1>5, Zenon DEF Arrives, IsBrigade
  <2>2. x.got \o <<>> = x.got
    BY <1>2, ConcatEmptySeq
  <2> QED BY <1>1, <1>3, <2>1, <2>2, Zenon DEF Passing
<1> QED BY <1>4, <1>5

\* What a duplicate is given is the next part of the body that was unpacked.
Injects(x, z, q, C) ==
    /\ Streaming(z, C) /\ Reinjecting(z, q)
    /\ z.pc = "handle" /\ z.info.present = x.info.present
    /\ z.headers = x.headers /\ z.method = x.method

LEMMA SendsPart ==
    ASSUME NEW q, NEW C, NEW x, Streaming(x, C), Reinjecting(x, q),
           NEW n \in Nat, x.info.offset + n <= Len(x.info.mReqBody), n > 0,
           NEW y, y = [x EXCEPT !.info.offset = @ + n],
           NEW r, r = [ok |-> TRUE, eos |-> FALSE, x |-> y,
                       data |-> SubSeq(x.info.mReqBody, x.info.offset + 1, x.info.offset + n)],
           NEW z, z = Delivered(r)
    PROVE  Injects(x, z, q, C)
<1> DEFINE s == x.info.mReqBody
           k == x.info.offset
           L == Len(s)
<1>1. /\ s \in Seq(C) /\ k \in 0 .. L /\ L \in Nat /\ x.got \in Seq(C)
      /\ ~x.cut => x.got = SubSeq(s, 1, k)
      /\ k + n <= L
  BY DEF Streaming, Reinjecting
<1>2. ReadFields \subseteq DOMAIN x /\ InfoFields \subseteq DOMAIN x.info
  BY DEF Streaming
<1>3. /\ ReadFields \subseteq DOMAIN y /\ InfoFields \subseteq DOMAIN y.info
      /\ y.info.offset = k + n /\ y.info.mReqBody = s /\ y.info.mBody = x.info.mBody
      /\ y.info.present = x.info.present
      /\ y.got = x.got /\ y.net = x.net /\ y.mig = x.mig /\ y.ictx = x.ictx
      /\ y.headers = x.headers /\ y.method = x.method /\ y.failed = x.failed /\ y.cut = x.cut
  BY <1>2 DEF ReadFields, InfoFields
<1> DEFINE data == SubSeq(s, k + 1, k + n)
<1>4. r.ok = TRUE /\ r.eos = FALSE /\ r.x = y /\ r.data = data
  OBVIOUS
<1> HIDE DEF s, k, L, data
<1>5. /\ ReadFields \subseteq DOMAIN z
      /\ z.pc = "handle" /\ z.got = y.got \o data /\ z.eos = FALSE /\ z.error = FALSE
      /\ z.info = y.info /\ z.net = y.net /\ z.mig = y.mig /\ z.ictx = y.ictx
      /\ z.headers = y.headers /\ z.method = y.method /\ z.failed = y.failed /\ z.cut = y.cut
  BY <1>3, <1>4 DEF Delivered, ReadFields
<1>6. SubSeq(s, 1, k) \o SubSeq(s, k + 1, k + n) = SubSeq(s, 1, k + n)
  <2> DEFINE e == k + n
  <2>1. 1 \in 1 .. L + 1 /\ k \in 1 - 1 .. L /\ e \in k .. L
    BY <1>1
  <2> HIDE DEF e
  <2>2. SubSeq(s, 1, k) \o SubSeq(s, k + 1, e) = SubSeq(s, 1, e)
    BY <1>1, <2>1, ConcatAdjacentSubSeq DEF L
  <2> QED BY <2>2 DEF e
<1>7. ~z.cut => z.got = SubSeq(z.info.mReqBody, 1, z.info.offset)
  <2>1. ASSUME ~z.cut PROVE z.got = SubSeq(s, 1, k) \o SubSeq(s, k + 1, k + n)
    BY <1>1, <1>3, <1>5, <2>1, Zenon DEF data
  <2>2. z.info.mReqBody = s /\ z.info.offset = k + n
    BY <1>3, <1>5, Zenon
  <2> QED BY <1>6, <2>1, <2>2, Zenon
<1>8. k + n \in 0 .. L
  BY <1>1
<1>9. data \in Seq(C)
  <2>1. k + 1 \in Int /\ k + n \in Int /\ \A i \in k + 1 .. k + n : s[i] \in C
    BY <1>1 DEF L
  <2> QED BY <2>1, SubSeqProperties DEF data
<1>10. Streaming(z, C)
  <2>1. z.got \in Seq(C)
    <3>1. x.got \o data \in Seq(C)
      BY <1>1, <1>9, TwoParts, Zenon
    <3> QED BY <1>3, <1>5, <3>1, Zenon
  <2>2. InfoFields \subseteq DOMAIN z.info /\ MigFields \subseteq DOMAIN z.mig
    BY <1>3, <1>5, Zenon DEF Streaming
  <2> QED BY <1>1, <1>3, <1>5, <1>8, <2>1, <2>2, Zenon DEF Streaming, L
<1>11. ~z.cut => Drained(z)
  BY <1>3, <1>5, Zenon DEF Drained, Reinjecting
<1>12. ~z.cut => (WellFormed(q) => z.info.mReqBody = q.body)
  BY <1>3, <1>5, Zenon DEF Reinjecting, s
<1>13. z.ictx = 1 /\ ~z.eos /\ ~z.error
  BY <1>3, <1>5, Zenon DEF Reinjecting
<1>14. Reinjecting(z, q)
  BY <1>7, <1>11, <1>12, <1>13, Zenon DEF Reinjecting
<1> QED BY <1>3, <1>5, <1>10, <1>14, Zenon DEF Injects

LEMMA SendsRest ==
    ASSUME NEW q, NEW C, NEW x, Streaming(x, C), Reinjecting(x, q),
           x.info.offset = Len(x.info.mReqBody), NEW r, NEW z, Arrives(x, r, z, C)
    PROVE  Injects(x, z, q, C)
<1>1. /\ x.got \in Seq(C) /\ x.ictx = 1 /\ (x.cut => z.cut)
      /\ ~x.cut => /\ Drained(x) /\ x.got = SubSeq(x.info.mReqBody, 1, x.info.offset)
                   /\ WellFormed(q) => x.info.mReqBody = q.body
  BY Zenon DEF Streaming, Reinjecting, Arrives
<1>2. (~x.cut => r.data = <<>>) /\ x.got \o <<>> = x.got
  <2>1. x.got \o <<>> = x.got
    BY <1>1, ConcatEmptySeq
  <2> QED BY <1>1, <2>1, Zenon DEF Arrives, IsBrigade
<1>3. /\ z.info = x.info /\ z.ictx = 1 /\ (z.error => z.failed)
      /\ ~z.cut => z.got = x.got /\ Drained(z)
  BY <1>1, <1>2, Zenon DEF Arrives
<1>4. Reinjecting(z, q)
  BY <1>1, <1>3, Zenon DEF Reinjecting
<1> QED BY <1>3, <1>4, Zenon DEF Injects, Arrives

LEMMA ReinjectedIs ==
    ASSUME NEW q, NEW C, NEW x, Streaming(x, C), Reinjecting(x, q),
           x.readbytes \in Nat \ {0}, NEW z \in Reinjected(x)
    PROVE  Injects(x, z, q, C)
<1> DEFINE toSend == Min({Len(x.info.mReqBody) - x.info.offset, x.readbytes})
           y == [x EXCEPT !.info.offset = @ + toSend]
           r == [ok |-> TRUE,
                 data |-> SubSeq(x.info.mReqBody, x.info.offset + 1, x.info.offset + toSend),
                 eos |-> FALSE, x |-> y]
<1>1. \/ toSend > 0 /\ z = Delivered(r)
      \/ ~(toSend > 0) /\ \E s \in Brigades(x, x.readbytes) : z = Delivered(s)
  BY Zenon DEF Reinjected
<1>2. Len(x.info.mReqBody) \in Nat /\ x.info.offset \in 0 .. Len(x.info.mReqBody)
  BY DEF Streaming
<1>3. /\ toSend \in Nat /\ x.info.offset + toSend <= Len(x.info.mReqBody)
      /\ ~(toSend > 0) => x.info.offset = Len(x.info.mReqBody)
  <2>1. toSend = IF Len(x.info.mReqBody) - x.info.offset <= x.readbytes
                 THEN Len(x.info.mReqBody) - x.info.offset ELSE x.readbytes
    BY <1>2, MinOfTwo
  <2> DEFINE L == Len(x.info.mReqBody)
             k == x.info.offset
             n == x.readbytes
  <2>2. L \in Nat /\ k \in 0 .. L /\ n \in Nat /\ n > 0 /\ toSend = IF L - k <= n THEN L - k ELSE n
    BY <1>2, <2>1
  <2> HIDE DEF toSend, L, k, n
  <2>3. toSend \in Nat /\ k + toSend <= L /\ (~(toSend > 0) => k = L)
    BY <2>2
  <2> QED BY <2>3 DEF L, k
<1> HIDE DEF toSend
<1>4. CASE toSend > 0 /\ z = Delivered(r)
  BY <1>3, <1>4, SendsPart
<1>5. CASE ~(toSend > 0) /\ \E s \in Brigades(x, x.readbytes) : z = Delivered(s)
  <2>1. PICK s \in Brigades(x, x.readbytes) : z = Delivered(s)
    BY <1>5
  <2>2. Arrives(x, s, z, C)
    BY <2>1, DeliveredIs
  <2> QED BY <1>3, <1>5, <2>2, SendsRest
<1> QED BY <1>1, <1>4, <1>5

-----------------------------------------------------------------------------
(* A duplicate is unpacked.                                                *)

LEMMA ParsedIs ==
    ASSUME NEW C, NEW text \in Seq(C), NEW parsed, parsed = deserializeBody(text)
    PROVE  parsed.ok \in BOOLEAN /\ parsed.reqBody \in Seq(C)
<1> DEFINE n1 == getLength(text, 0)
           n2 == getLength(text, SectionWidth + n1)
           n3 == getLength(text, SectionWidth + n1 + SectionWidth + n2)
<1>1. n1 = getLength(text, 0)
  OBVIOUS
<1> HIDE DEF n1
<1>2. n2 = getLength(text, SectionWidth + n1)
  OBVIOUS
<1> HIDE DEF n2
<1>3. n3 = getLength(text, SectionWidth + n1 + SectionWidth + n2)
  OBVIOUS
<1> HIDE DEF n3
<1> QED BY <1>1, <1>2, <1>3, deserializeBodyIs

LEMMA UnmarkedSame ==
    ASSUME NEW q, NEW x, NEW y, Unmarked(x, q),
           y.info.present = x.info.present, y.headers = x.headers, y.method = x.method
    PROVE  Unmarked(y, q)
BY Zenon DEF Unmarked, IsDuplicate, Has

LEMMA UnmarkedWith ==
    ASSUME NEW q, NEW x, NEW y, NEW v, Unmarked(x, q), x.info.present,
           y.info.present = x.info.present, y.headers = With(x.headers, "Content-Length", v),
           y.method = x.method
    PROVE  Unmarked(y, q)
<1>1. DOMAIN y.headers = DOMAIN x.headers \cup {"Content-Length"}
  BY DEF With
<1>2. \A k \in DOMAIN x.headers : k # "Content-Length" => y.headers[k] = x.headers[k]
  BY DEF With
<1>3. IsDuplicate(y) <=> IsDuplicate(x)
  BY <1>1, <1>2 DEF IsDuplicate, Has
<1>4. DupMarks \cap DOMAIN x.headers = {} => DupMarks \cap DOMAIN y.headers = {}
  BY <1>1 DEF DupMarks
<1> QED BY <1>3, <1>4, Zenon DEF Unmarked

\* The collected text is unpacked; there is nothing behind it, unless a failure
\* was taken for its end.
UnpackedOf(x, y, q, C) ==
    /\ Streaming(y, C) /\ Reinjecting(y, q)
    /\ "pc" \in DOMAIN y /\ y.readbytes = x.readbytes
    /\ y.info.present = x.info.present /\ y.method = x.method
    /\ y.headers = x.headers \/ \E v : y.headers = With(x.headers, "Content-Length", v)

LEMMA UnpackedIs ==
    ASSUME NEW q, IsRequest(q), NEW C, C = Range(q.text), NEW x, Streaming(x, C), NothingGiven(x),
           x.info.offset = 0, ~x.cut => Drained(x) /\ x.info.mBody = q.text,
           NEW parsed, parsed = deserializeBody(x.info.mBody),
           NEW y, y = Unpacked(x, parsed)
    PROVE  UnpackedOf(x, y, q, C)
<1>1. ReadFields \subseteq DOMAIN x /\ InfoFields \subseteq DOMAIN x.info /\ x.info.mBody \in Seq(C)
  BY DEF Streaming
<1>2. parsed.ok \in BOOLEAN /\ parsed.reqBody \in Seq(C)
  BY <1>1, ParsedIs
<1>3. ASSUME WellFormed(q), ~x.cut PROVE parsed.ok /\ parsed.reqBody = q.body
  <2> DEFINE P == x.info.mBody
             R == <<>>
  <2>1. P \in Seq(Range(q.text)) /\ R \in Seq(Range(q.text)) /\ P \o R = q.text /\ parsed = deserializeBody(P)
    BY <1>1, <1>3, ConcatEmptySeq
  <2>2. R = <<>>
    OBVIOUS
  <2> HIDE DEF P, R
  <2>3. Restored(parsed, q, R)
    BY <1>3, <2>1, Restores
  <2> QED BY <2>2, <2>3, Zenon DEF Restored
<1>4. PICK headers : /\ y = [x EXCEPT !.ictx = 1, !.error = ~parsed.ok, !.headers = headers,
                                !.info.mReqBody = parsed.reqBody, !.info.mResponseHeader = parsed.respHeader,
                                !.info.mResponseBody = parsed.respBody]
                     /\ headers = x.headers \/ \E v : headers = With(x.headers, "Content-Length", v)
  BY Zenon DEF Unpacked
<1>5. /\ ReadFields \subseteq DOMAIN y /\ InfoFields \subseteq DOMAIN y.info
      /\ y.ictx = 1 /\ y.error = ~parsed.ok /\ y.headers = headers /\ y.method = x.method
      /\ y.info.mReqBody = parsed.reqBody /\ y.info.offset = x.info.offset /\ y.info.mBody = x.info.mBody
      /\ y.info.present = x.info.present /\ y.readbytes = x.readbytes
      /\ y.got = x.got /\ y.eos = x.eos /\ y.net = x.net /\ y.mig = x.mig
      /\ y.failed = x.failed /\ y.cut = x.cut
  <2> DEFINE i == [x.info EXCEPT !.mReqBody = parsed.reqBody, !.mResponseHeader = parsed.respHeader,
                                 !.mResponseBody = parsed.respBody]
  <2>1. y = [x EXCEPT !.ictx = 1, !.error = ~parsed.ok, !.headers = headers, !.info = i]
    BY <1>1, <1>4 DEF ReadFields
  <2>2. /\ InfoFields \subseteq DOMAIN i /\ i.mReqBody = parsed.reqBody
        /\ i.offset = x.info.offset /\ i.mBody = x.info.mBody /\ i.present = x.info.present
    BY <1>1 DEF InfoFields
  <2> HIDE DEF i
  <2>3. y.info = i /\ ReadFields \subseteq DOMAIN y /\ y.ictx = 1 /\ y.error = ~parsed.ok /\ y.headers = headers
        /\ y.method = x.method /\ y.readbytes = x.readbytes
        /\ y.got = x.got /\ y.eos = x.eos /\ y.net = x.net /\ y.mig = x.mig
        /\ y.failed = x.failed /\ y.cut = x.cut
    BY <1>1, <2>1 DEF ReadFields
  <2> QED BY <2>2, <2>3, Zenon
<1>6. y.got = <<>> /\ ~y.eos /\ y.info.offset = 0
  BY <1>5, Zenon DEF NothingGiven
<1>7. /\ 0 \in 0 .. Len(parsed.reqBody)
      /\ SubSeq(parsed.reqBody, 1, 0) = <<>>
  BY <1>2, SubSeqEmpty
<1>8. Streaming(y, C)
  <2>1. y.error \in BOOLEAN
    BY <1>2, <1>5, Zenon
  <2> QED BY <1>2, <1>5, <1>6, <1>7, <2>1, Zenon DEF Streaming
<1>9. ~y.cut => Drained(y)
  BY <1>5, Zenon DEF Drained
<1>10. WellFormed(q) => (y.error => y.cut) /\ (~y.cut => y.info.mReqBody = q.body)
  BY <1>3, <1>5, Zenon
<1>11. Reinjecting(y, q)
  BY <1>5, <1>6, <1>7, <1>9, <1>10, Zenon DEF Reinjecting
<1>12. "pc" \in DOMAIN y
  BY <1>5 DEF ReadFields
<1> QED BY <1>4, <1>5, <1>8, <1>11, <1>12, Zenon DEF UnpackedOf

\* Once unpacked, and y.pc is where the handler goes on.
LEMMA UnpackedReads ==
    ASSUME NEW q, NEW m, NEW C, C = Range(q.text), NEW x, Unmarked(x, q), x.info.present, IsDuplicate(q),
           x.readbytes \in Nat \ {0}, NEW y, UnpackedOf(x, y, q, C)
    PROVE  /\ Reads([y EXCEPT !.pc = "handle", !.readbytes = 0], q, m)
           /\ ~y.error => \A z \in Reinjected(y) : Reads(z, q, m)
<1>1. Unmarked(y, q)
  BY UnmarkedSame, UnmarkedWith, Zenon DEF UnpackedOf
<1>2. ASSUME NEW z, Streaming(z, C), Reinjecting(z, q), z.pc = "handle",
             z.info.present = y.info.present, z.headers = y.headers, z.method = y.method
      PROVE  Reads(z, q, m)
  <2>1. Unmarked(z, q)
    BY <1>1, <1>2, UnmarkedSame, Zenon
  <2>2. z.pc # "translate" /\ z.pc # "extract"
    BY <1>2
  <2> QED BY <1>2, <2>1, <2>2, Zenon DEF Reads
<1>3. Reads([y EXCEPT !.pc = "handle", !.readbytes = 0], q, m)
  <2> DEFINE z == [y EXCEPT !.pc = "handle", !.readbytes = 0]
  <2>1. z.pc = "handle" /\ DOMAIN z = DOMAIN y /\ \A f \in DOMAIN y \ {"pc", "readbytes"} : z[f] = y[f]
    BY DEF UnpackedOf
  <2> HIDE DEF z
  <2>2. ReadFields \subseteq DOMAIN y
    BY Zenon DEF UnpackedOf, Streaming
  <2>3. /\ z.info = y.info /\ z.headers = y.headers /\ z.method = y.method /\ z.got = y.got /\ z.eos = y.eos
        /\ z.net = y.net /\ z.mig = y.mig /\ z.ictx = y.ictx /\ z.error = y.error
        /\ z.failed = y.failed /\ z.cut = y.cut
    BY <2>1, <2>2 DEF ReadFields
  <2>4. Streaming(z, C)
    BY <2>1, <2>3, Zenon DEF UnpackedOf, Streaming
  <2>5. Reinjecting(z, q)
    BY <2>3, Zenon DEF UnpackedOf, Reinjecting, Drained
  <2>6. Reads(z, q, m)
    BY <1>2, <2>1, <2>3, <2>4, <2>5, Zenon
  <2> QED BY <2>6 DEF z
<1>4. ASSUME ~y.error, NEW z \in Reinjected(y) PROVE Reads(z, q, m)
  <2>1. Streaming(y, C) /\ Reinjecting(y, q) /\ y.readbytes \in Nat \ {0}
    BY Zenon DEF UnpackedOf
  <2>2. Injects(y, z, q, C)
    BY <1>4, <2>1, ReinjectedIs
  <2> QED BY <1>2, <2>2, Zenon DEF Injects
<1> QED BY <1>3, <1>4, Zenon

LEMMA RestSame ==
    ASSUME NEW x, NEW y, y.net = x.net, y.mig = x.mig
    PROVE  Rest(y) = Rest(x) /\ (Drained(y) <=> Drained(x))
BY Zenon DEF Rest, Drained

\* What is extracted from the brigade r: all of it, or something is cut.
Extracts(r, e, C) ==
    /\ e.data \in Seq(C) /\ e.done \in BOOLEAN
    /\ SameBut(r.x, e.x, {"cut"}) /\ e.x.cut \in BOOLEAN /\ (r.x.cut => e.x.cut)
    /\ ~e.x.cut => r.ok /\ e.data = r.data /\ e.done = r.eos

LEMMA extractBrigadeContentIs ==
    ASSUME NEW C, NEW brigades, NEW e \in extractBrigadeContent(brigades),
           \A r \in brigades : IsBrigade(r, C) /\ "cut" \in DOMAIN r.x /\ r.x.cut \in BOOLEAN
    PROVE  \E r \in brigades : Extracts(r, e, C)
<1>0. PICK r \in brigades :
        e \in {[data |-> SubSeq(r.data, 1, k), done |-> ~r.ok \/ r.eos \/ k < Len(r.data),
               x |-> [r.x EXCEPT !.cut = @ \/ ~r.ok \/ k < Len(r.data)]] : k \in Readable(r)}
  BY Zenon DEF extractBrigadeContent
<1>1. PICK k \in Readable(r) :
        e = [data |-> SubSeq(r.data, 1, k), done |-> ~r.ok \/ r.eos \/ k < Len(r.data),
             x |-> [r.x EXCEPT !.cut = @ \/ ~r.ok \/ k < Len(r.data)]]
  BY <1>0, Zenon
<1> DEFINE s == r.data
<1>2. s \in Seq(C) /\ r.ok \in BOOLEAN /\ r.eos \in BOOLEAN /\ "cut" \in DOMAIN r.x /\ r.x.cut \in BOOLEAN
  BY Zenon DEF IsBrigade
<1>3. /\ e.data = SubSeq(s, 1, k) /\ e.done = (~r.ok \/ r.eos \/ k < Len(s))
      /\ e.x = [r.x EXCEPT !.cut = @ \/ ~r.ok \/ k < Len(s)]
  BY <1>1
<1>4. k \in 0 .. Len(s)
  BY <1>2 DEF Readable
<1> HIDE DEF s
<1>5. SubSeq(s, 1, k) \in Seq(C) /\ (k = Len(s) => SubSeq(s, 1, k) = s)
  <2>1. SubSeq(s, 1, k) \in Seq(C)
    BY <1>2, <1>4, SplitAt, Zenon
  <2>2. SubSeq(s, 1, Len(s)) = s
    BY <1>2, SubSeqFull
  <2> QED BY <2>1, <2>2, Zenon
<1>6. e.x.cut = (r.x.cut \/ ~r.ok \/ k < Len(s)) /\ SameBut(r.x, e.x, {"cut"})
  BY <1>2, <1>3 DEF SameBut
<1>7. ~(k < Len(s)) => k = Len(s)
  BY <1>2, <1>4
<1>8. e.done \in BOOLEAN /\ e.x.cut \in BOOLEAN
  BY <1>3, <1>6, Zenon
<1>9. ~e.x.cut => r.ok /\ ~r.x.cut /\ k = Len(s) /\ ~(k < Len(s))
  BY <1>6, <1>7, Zenon
<1>10. ~e.x.cut => e.done = r.eos
  BY <1>2, <1>3, <1>9, SMT
<1>11. Extracts(r, e, C)
  BY <1>3, <1>5, <1>6, <1>8, <1>9, <1>10, Zenon DEF Extracts, s
<1> QED BY <1>11

\* One turn of the loop: x is the request after it, with what came last.
CollectedOf(o, e, x, q, C) ==
    /\ Streaming(x, C) /\ NotUnpacked(x) /\ NothingGiven(x)
    /\ x.pc = o.pc /\ x.readbytes = o.readbytes
    /\ x.info.present = o.info.present /\ x.headers = o.headers /\ x.method = o.method
    /\ ~x.cut => /\ x.info.mBody \o Rest(x) = q.text
                 /\ e.done => Drained(x) /\ x.info.mBody = q.text

LEMMA CollectedIs ==
    ASSUME NEW q, NEW C, C = Range(q.text), q.text \in Seq(C), NEW o, Streaming(o, C), Collecting(o, q),
           NEW r, Passes(o, r, C), NEW e, Extracts(r, e, C),
           NEW x, x = [e.x EXCEPT !.info.mBody = @ \o e.data]
    PROVE  CollectedOf(o, e, x, q, C)
<1>1. /\ IsBrigade(r, C) /\ SameBut(o, r.x, {"net", "failed", "cut", "mig"})
      /\ Rest(o) \in Seq(C) /\ Rest(r.x) \in Seq(C) /\ SameBut(r.x, e.x, {"cut"})
  BY Zenon DEF Passes, Extracts
<1>2. ReadFields \subseteq DOMAIN o /\ InfoFields \subseteq DOMAIN o.info
  BY DEF Streaming
<1>3. /\ ReadFields \subseteq DOMAIN e.x /\ e.x.info = o.info /\ e.x.pc = o.pc /\ e.x.readbytes = o.readbytes
      /\ e.x.headers = o.headers /\ e.x.method = o.method /\ e.x.got = o.got /\ e.x.eos = o.eos
      /\ e.x.error = o.error /\ e.x.ictx = o.ictx
      /\ e.x.net = r.x.net /\ e.x.failed = r.x.failed /\ e.x.mig = r.x.mig
  <2>1. /\ ReadFields \subseteq DOMAIN r.x /\ r.x.info = o.info /\ r.x.pc = o.pc /\ r.x.readbytes = o.readbytes
        /\ r.x.headers = o.headers /\ r.x.method = o.method /\ r.x.got = o.got /\ r.x.eos = o.eos
        /\ r.x.error = o.error /\ r.x.ictx = o.ictx
    BY <1>1, <1>2 DEF SameBut, ReadFields
  <2> QED BY <1>1, <2>1 DEF SameBut, ReadFields
<1> DEFINE b == o.info.mBody \o e.data
<1>4. x = [e.x EXCEPT !.info.mBody = b]
  BY <1>3
<1> HIDE DEF b
<1>5. /\ ReadFields \subseteq DOMAIN x /\ x.pc = o.pc /\ x.readbytes = o.readbytes
      /\ x.headers = o.headers /\ x.method = o.method /\ x.got = o.got /\ x.eos = o.eos
      /\ x.error = o.error /\ x.ictx = o.ictx /\ x.net = r.x.net /\ x.failed = r.x.failed
      /\ x.cut = e.x.cut /\ x.mig = r.x.mig /\ x.info = [o.info EXCEPT !.mBody = b]
  BY <1>3, <1>4 DEF ReadFields
<1>6. /\ InfoFields \subseteq DOMAIN x.info /\ x.info.mBody = b /\ x.info.present = o.info.present
      /\ x.info.offset = o.info.offset /\ x.info.mReqBody = o.info.mReqBody
  BY <1>2, <1>5 DEF InfoFields
<1>7. o.info.mBody \in Seq(C) /\ e.data \in Seq(C) /\ e.x.cut \in BOOLEAN
  BY Zenon DEF Streaming, Extracts
<1>8. b \in Seq(C)
  BY <1>7, TwoParts, Zenon DEF b
<1>9. /\ DOMAIN r.x.mig = DOMAIN o.mig /\ r.x.mig.read = o.mig.read /\ r.x.mig.body = o.mig.body
      /\ r.x.mig.ctx \in -1 .. Len(o.mig.body)
      /\ r.x.net \in Seq(C) /\ r.x.failed \in BOOLEAN
  BY Zenon DEF Passes
<1>10. Streaming(x, C)
  BY <1>5, <1>6, <1>7, <1>8, <1>9, Zenon DEF Streaming
<1>11. NotUnpacked(x) /\ NothingGiven(x)
  BY <1>5, <1>6, Zenon DEF Collecting, NotUnpacked, NothingGiven
<1>12. Rest(x) = Rest(r.x) /\ (Drained(x) <=> Drained(r.x))
  BY <1>5, RestSame, Zenon
<1>13. ASSUME ~x.cut
       PROVE  b \o Rest(x) = q.text /\ (e.done => Drained(x) /\ b = q.text)
  <2>1. r.ok /\ e.data = r.data /\ e.done = r.eos /\ ~r.x.cut
    BY <1>5, <1>13, Zenon DEF Extracts
  <2>2. ~o.cut
    BY <2>1, Zenon DEF Passes
  <2>3. o.info.mBody \o Rest(o) = q.text
    BY <2>2, Zenon DEF Collecting
  <2>4. /\ e.data \o Rest(r.x) = Rest(o)
        /\ e.done => Rest(r.x) = <<>> /\ Drained(r.x)
    BY <2>1, Zenon DEF Passes
  <2>5. Associate(o.info.mBody, e.data, Rest(r.x))
    BY <1>1, <1>7, Associative, Zenon
  <2>6. b \o Rest(x) = q.text
    BY <1>12, <2>3, <2>4, <2>5, Zenon DEF Associate, b
  <2>7. b \o <<>> = b
    BY <1>8, ConcatEmptySeq
  <2> QED BY <1>12, <2>4, <2>6, <2>7, Zenon
<1> QED BY <1>5, <1>6, <1>10, <1>11, <1>13, Zenon DEF CollectedOf

LEMMA extractReads ==
    ASSUME NEW t \in Serving, NEW q, q = Request(t), IsRequest(q), NEW m, Reads(rq[t], q, m),
           Unpacks(t)
    PROVE  \E y : Becomes(t, y) /\ Reads(y, q, m)
<1> DEFINE C == Range(q.text)
           o == rq[t]
           brigades == Brigades(o, CMaxBytes)
<1>1. PICK e \in extractBrigadeContent(brigades) :
        LET x == [e.x EXCEPT !.info.mBody = @ \o e.data]
        IN IF ~e.done THEN Becomes(t, x)
           ELSE \E parsed \in {deserializeBody(x.info.mBody)} : \E y \in {Unpacked(x, parsed)} :
                   IF y.error THEN Becomes(t, [y EXCEPT !.pc = "handle", !.readbytes = 0])
                   ELSE \E z \in Reinjected(y) : Becomes(t, z)
  BY Zenon DEF Unpacks
<1> DEFINE x == [e.x EXCEPT !.info.mBody = @ \o e.data]
<1>2. o.pc = "extract"
  BY DEF Unpacks, Running
<1>3. /\ Streaming(o, C) /\ Unmarked(o, q) /\ IsDuplicate(q) /\ o.ictx = 0 /\ o.info.present
      /\ o.readbytes \in ReadSizes /\ q.text \in Seq(C)
  BY <1>2, Zenon DEF Reads, IsRequest
<1>4. o.readbytes \in Nat \ {0} /\ CMaxBytes \in Nat \ {0}
  BY <1>3, CompareAssumption
<1>5. Collecting(o, q)
  <2>1. o.pc # "translate" /\ o.ictx # 1
    BY <1>2, <1>3
  <2> QED BY <1>3, <2>1, Zenon DEF Reads, Reinjecting
<1>6. /\ \/ ~e.done /\ Becomes(t, x)
         \/ /\ e.done
            /\ \E parsed : /\ parsed = deserializeBody(x.info.mBody)
                           /\ \/ Becomes(t, [Unpacked(x, parsed) EXCEPT !.pc = "handle", !.readbytes = 0])
                              \/ /\ ~Unpacked(x, parsed).error
                                 /\ \E z \in Reinjected(Unpacked(x, parsed)) : Becomes(t, z)
  BY <1>1, Zenon
<1>7. x = [e.x EXCEPT !.info.mBody = @ \o e.data] /\ C = Range(q.text)
  OBVIOUS
<1>8. brigades = Brigades(o, CMaxBytes) /\ o = rq[t]
  OBVIOUS
<1> HIDE DEF C, o, x, brigades
<1>9. PICK r \in brigades : Passes(o, r, C) /\ Extracts(r, e, C)
  <2>1. ASSUME NEW r \in brigades PROVE Passes(o, r, C)
    BY <1>3, <1>4, <1>8, <2>1, BrigadesIs
  <2>2. ASSUME NEW r \in brigades PROVE IsBrigade(r, C) /\ "cut" \in DOMAIN r.x /\ r.x.cut \in BOOLEAN
    <3>1. IsBrigade(r, C) /\ SameBut(o, r.x, {"net", "failed", "cut", "mig"}) /\ r.x.cut \in BOOLEAN
      BY <2>1, Zenon DEF Passes
    <3>2. "cut" \in DOMAIN o
      BY <1>3 DEF Streaming, ReadFields
    <3> QED BY <3>1, <3>2, Zenon DEF SameBut
  <2>3. \E r \in brigades : Extracts(r, e, C)
    BY <1>1, <2>2, extractBrigadeContentIs
  <2> QED BY <2>1, <2>3, Zenon
<1>10. /\ Streaming(x, C) /\ NotUnpacked(x) /\ NothingGiven(x)
       /\ x.pc = o.pc /\ x.readbytes = o.readbytes
       /\ x.info.present = o.info.present /\ x.headers = o.headers /\ x.method = o.method
       /\ ~x.cut => /\ x.info.mBody \o Rest(x) = q.text
                    /\ e.done => Drained(x) /\ x.info.mBody = q.text
  <2>1. CollectedOf(o, e, x, q, C)
    BY <1>3, <1>5, <1>7, <1>9, CollectedIs
  <2> QED BY <2>1, Zenon DEF CollectedOf
<1>11. Unmarked(x, q)
  BY <1>3, <1>10, UnmarkedSame, Zenon
<1>12. CASE ~e.done /\ Becomes(t, x)
  <2>1. Collecting(x, q)
    BY <1>3, <1>10, Zenon DEF Collecting
  <2>2. x.pc # "translate"
    BY <1>2, <1>10
  <2>3. x.ictx = 0
    BY <1>10, Zenon DEF NotUnpacked
  <2>4. Reads(x, q, m)
    BY <1>3, <1>7, <1>10, <1>11, <2>1, <2>2, <2>3, Zenon DEF Reads
  <2> QED BY <1>12, <2>4, Zenon
<1>13. CASE /\ e.done
            /\ \E parsed : /\ parsed = deserializeBody(x.info.mBody)
                           /\ \/ Becomes(t, [Unpacked(x, parsed) EXCEPT !.pc = "handle", !.readbytes = 0])
                              \/ /\ ~Unpacked(x, parsed).error
                                 /\ \E z \in Reinjected(Unpacked(x, parsed)) : Becomes(t, z)
  <2>1. PICK parsed : /\ parsed = deserializeBody(x.info.mBody)
                      /\ \/ Becomes(t, [Unpacked(x, parsed) EXCEPT !.pc = "handle", !.readbytes = 0])
                         \/ /\ ~Unpacked(x, parsed).error
                            /\ \E z \in Reinjected(Unpacked(x, parsed)) : Becomes(t, z)
    BY <1>13, Zenon
  <2>2. ~x.cut => Drained(x) /\ x.info.mBody = q.text
    BY <1>10, <1>13, Zenon
  <2> DEFINE y == Unpacked(x, parsed)
  <2>3. y = Unpacked(x, parsed)
    OBVIOUS
  <2>4. \/ Becomes(t, [y EXCEPT !.pc = "handle", !.readbytes = 0])
        \/ ~y.error /\ \E z \in Reinjected(y) : Becomes(t, z)
    BY <2>1, Zenon
  <2> HIDE DEF y
  <2>5. x.info.offset = 0
    BY <1>10, Zenon DEF NotUnpacked
  <2>6. UnpackedOf(x, y, q, C)
    BY <1>7, <1>10, <2>1, <2>2, <2>3, <2>5, UnpackedIs
  <2>7. x.info.present /\ x.readbytes \in Nat \ {0}
    BY <1>3, <1>4, <1>10, Zenon
  <2>8. /\ Reads([y EXCEPT !.pc = "handle", !.readbytes = 0], q, m)
        /\ ~y.error => \A z \in Reinjected(y) : Reads(z, q, m)
    BY <1>3, <1>7, <1>11, <2>6, <2>7, UnpackedReads
  <2> QED BY <2>4, <2>8, Zenon
<1> QED BY <1>6, <1>12, <1>13, Zenon

-----------------------------------------------------------------------------
(* initRequest removes the marks of the duplication.                       *)

\* Two tables of headers say the same of the kind of duplication.
Agree(f, g) ==
    /\ "Duplication-Type" \in DOMAIN f <=> "Duplication-Type" \in DOMAIN g
    /\ "Duplication-Type" \in DOMAIN f => f["Duplication-Type"] = g["Duplication-Type"]

LEMMA AgreeWith ==
    ASSUME NEW f, NEW key, key # "Duplication-Type", NEW v
    PROVE  Agree(With(f, key, v), f)
BY DEF Agree, With

LEMMA AgreeWithout ==
    ASSUME NEW f, NEW keys, "Duplication-Type" \notin keys
    PROVE  Agree(Without(f, keys), f) /\ DOMAIN Without(f, keys) = DOMAIN f \ keys
BY DEF Agree, Without, Restrict

LEMMA AgreeChain ==
    ASSUME NEW f, NEW g, NEW h, Agree(f, g), Agree(g, h)
    PROVE  Agree(f, h)
BY Zenon DEF Agree

Initialised(x, y, q) ==
    /\ SameBut(x, y, {"method", "headers", "info"})
    /\ InfoFields \subseteq DOMAIN y.info /\ y.info.present = TRUE
    /\ y.info.mBody = <<>> /\ y.info.mReqBody = <<>> /\ y.info.offset = 0
    /\ Unmarked(y, q)

LEMMA initRequestIs ==
    ASSUME NEW q, NEW x, {"method", "headers", "info"} \subseteq DOMAIN x, Unmarked(x, q),
           NEW y, y = initRequest(x)
    PROVE  Initialised(x, y, q)
<1> DEFINE method == IF "X_DUP_METHOD" \in DOMAIN x.headers
                     THEN changeMethod(x.method, x.headers["X_DUP_METHOD"]) ELSE x.method
           marked == IF Has(x, "Content-Type", "application/x-dup-serialized")
                     THEN With(x.headers, "X-COMPARE-TRANSLATED", "1") ELSE x.headers
           typed  == IF "X_DUP_CONTENT_TYPE" \in DOMAIN marked
                     THEN With(marked, "Content-Type", marked["X_DUP_CONTENT_TYPE"]) ELSE marked
           copied == Without(typed, {"X_DUP_METHOD", "X_DUP_CONTENT_TYPE"})
           h      == Without(copied, {"ELAPSED_TIME_BY_DUP", "X_DUP_HTTP_STATUS"})
<1>1. PICK i, a, b : /\ i = [NoInfo EXCEPT !.present = TRUE, !.mReqHeader = a, !.mReqHttpStatus = b]
                     /\ y = [x EXCEPT !.method = method, !.headers = h, !.info = i]
  BY Zenon DEF initRequest
<1>2. Agree(h, x.headers) /\ DupMarks \cap DOMAIN h = {}
  <2>1. Agree(x.headers, x.headers) /\ Agree(marked, marked)
    BY Zenon DEF Agree
  <2>2. Agree(marked, x.headers)
    <3>1. Agree(With(x.headers, "X-COMPARE-TRANSLATED", "1"), x.headers)
      BY AgreeWith
    <3> QED BY <2>1, <3>1
  <2> HIDE DEF marked
  <2>3. Agree(typed, marked)
    <3>1. Agree(With(marked, "Content-Type", marked["X_DUP_CONTENT_TYPE"]), marked)
      BY AgreeWith
    <3> QED BY <2>1, <3>1
  <2> HIDE DEF typed
  <2>4. Agree(copied, typed) /\ DOMAIN copied = DOMAIN typed \ {"X_DUP_METHOD", "X_DUP_CONTENT_TYPE"}
    BY AgreeWithout
  <2> HIDE DEF copied
  <2>5. Agree(h, copied) /\ DOMAIN h = DOMAIN copied \ {"ELAPSED_TIME_BY_DUP", "X_DUP_HTTP_STATUS"}
    BY AgreeWithout
  <2> HIDE DEF h
  <2>6. DupMarks \cap DOMAIN h = {}
    BY <2>4, <2>5 DEF DupMarks
  <2>7. Agree(h, typed)
    BY <2>4, <2>5, AgreeChain, Zenon
  <2>8. Agree(h, marked)
    BY <2>3, <2>7, AgreeChain, Zenon
  <2> QED BY <2>2, <2>6, <2>8, AgreeChain, Zenon
<1> HIDE DEF h
<1>3. ASSUME "X_DUP_METHOD" \in DOMAIN q.headers, q.headers["X_DUP_METHOD"] \in Methods
      PROVE  method = q.headers["X_DUP_METHOD"]
  <2>1. CASE x.info.present
    <3>1. x.method = q.headers["X_DUP_METHOD"] /\ DupMarks \cap DOMAIN x.headers = {}
      BY <1>3, <2>1, Zenon DEF Unmarked
    <3>2. "X_DUP_METHOD" \notin DOMAIN x.headers
      BY <3>1 DEF DupMarks
    <3> QED BY <3>1, <3>2, Zenon
  <2>2. CASE ~x.info.present
    <3>1. x.headers = q.headers
      BY <2>2, Zenon DEF Unmarked
    <3> QED BY <1>3, <3>1, Zenon DEF changeMethod
  <2> QED BY <2>1, <2>2
<1> HIDE DEF method
<1>4. /\ InfoFields \subseteq DOMAIN i /\ i.present = TRUE /\ i.mBody = <<>> /\ i.mReqBody = <<>> /\ i.offset = 0
  BY <1>1 DEF NoInfo, InfoFields
<1>5. y.method = method /\ y.headers = h /\ y.info = i /\ SameBut(x, y, {"method", "headers", "info"})
  BY <1>1 DEF SameBut
<1>6. IsDuplicate(y) <=> IsDuplicate(x)
  BY <1>2, <1>5, Zenon DEF IsDuplicate, Has, Agree
<1>7. Unmarked(y, q)
  BY <1>2, <1>3, <1>4, <1>5, <1>6, Zenon DEF Unmarked
<1> QED BY <1>4, <1>5, <1>7, Zenon DEF Initialised

\* It leaves a request that has not been unpacked as it was otherwise.
LEMMA InitialisedReads ==
    ASSUME NEW q, NEW C, NEW x, Streaming(x, C), NotUnpacked(x), NEW y, Initialised(x, y, q)
    PROVE  /\ Streaming(y, C) /\ NotUnpacked(y)
           /\ y.pc = x.pc /\ y.readbytes = x.readbytes /\ y.hooks = x.hooks /\ y.net = x.net /\ y.failed = x.failed /\ y.cut = x.cut
           /\ y.mig = x.mig /\ y.got = x.got /\ y.eos = x.eos /\ y.error = x.error
<1>1. ReadFields \subseteq DOMAIN x /\ SameBut(x, y, {"method", "headers", "info"})
  BY Zenon DEF Streaming, Initialised
<1>2. /\ ReadFields \subseteq DOMAIN y
      /\ y.pc = x.pc /\ y.readbytes = x.readbytes /\ y.hooks = x.hooks /\ y.net = x.net /\ y.failed = x.failed /\ y.cut = x.cut
      /\ y.mig = x.mig /\ y.got = x.got /\ y.eos = x.eos /\ y.error = x.error /\ y.ictx = x.ictx
  BY <1>1 DEF SameBut, ReadFields
<1>3. <<>> \in Seq(C) /\ 0 \in 0 .. Len(<<>>)
  OBVIOUS
<1>4. NotUnpacked(y)
  BY <1>2, Zenon DEF NotUnpacked, Initialised
<1> QED BY <1>2, <1>3, <1>4, Zenon DEF Streaming, Initialised

-----------------------------------------------------------------------------
(* The steps that read, and those that do not.                             *)

\* y differs from x in nothing of what the handler reads.
ReadsAlike(x, y) ==
    /\ ReadFields \subseteq DOMAIN y /\ InfoFields \subseteq DOMAIN y.info
    /\ \A f \in ReadFields \ {"pc", "hooks", "info", "readbytes"} : y[f] = x[f]
    /\ \A f \in InfoFields : y.info[f] = x.info[f]

LEMMA AlikeIs ==
    ASSUME NEW q, NEW C, NEW x, Streaming(x, C), NEW y, ReadsAlike(x, y)
    PROVE  /\ Streaming(y, C)
           /\ Unmarked(x, q) => Unmarked(y, q)
           /\ Passing(x, q) => Passing(y, q)
           /\ Collecting(x, q) => Collecting(y, q)
           /\ Reinjecting(x, q) => Reinjecting(y, q)
           /\ NotUnpacked(x) => NotUnpacked(y)
           /\ NothingGiven(x) => NothingGiven(y)
           /\ y.mig = x.mig /\ y.net = x.net /\ y.cut = x.cut /\ y.info.mBody = x.info.mBody
           /\ (IsDuplicate(y) <=> IsDuplicate(x)) /\ (Rest(y) = Rest(x))
<1>1. /\ y.net = x.net /\ y.failed = x.failed /\ y.cut = x.cut /\ y.mig = x.mig
      /\ y.method = x.method /\ y.headers = x.headers
      /\ y.ictx = x.ictx /\ y.got = x.got /\ y.eos = x.eos /\ y.error = x.error
  BY DEF ReadsAlike, ReadFields
<1>2. /\ y.info.present = x.info.present /\ y.info.mBody = x.info.mBody
      /\ y.info.mReqBody = x.info.mReqBody /\ y.info.offset = x.info.offset
  BY DEF ReadsAlike, InfoFields
<1>3. Rest(y) = Rest(x) /\ (Drained(y) <=> Drained(x))
  BY <1>1, RestSame, Zenon
<1>4. ReadFields \subseteq DOMAIN y /\ InfoFields \subseteq DOMAIN y.info
  BY Zenon DEF ReadsAlike
<1>5. Streaming(y, C)
  BY <1>1, <1>2, <1>4, Zenon DEF Streaming
<1>6. Unmarked(x, q) => Unmarked(y, q)
  BY <1>1, <1>2, UnmarkedSame, Zenon
<1>7. (NotUnpacked(x) => NotUnpacked(y)) /\ (NothingGiven(x) => NothingGiven(y))
  BY <1>1, <1>2, Zenon DEF NotUnpacked, NothingGiven
<1>8. Passing(x, q) => Passing(y, q)
  BY <1>1, <1>3, <1>7, Zenon DEF Passing
<1>9. Collecting(x, q) => Collecting(y, q)
  BY <1>1, <1>2, <1>3, <1>7, Zenon DEF Collecting
<1>10. Reinjecting(x, q) => Reinjecting(y, q)
  BY <1>1, <1>2, <1>3, Zenon DEF Reinjecting
<1>11. IsDuplicate(y) <=> IsDuplicate(x)
  BY <1>1, Zenon DEF IsDuplicate, Has
<1> QED BY <1>1, <1>2, <1>3, <1>5, <1>6, <1>7, <1>8, <1>9, <1>10, <1>11, Zenon

LEMMA AlikeReads ==
    ASSUME NEW q, NEW m, NEW x, Reads(x, q, m), x.pc # "translate",
           NEW y, ReadsAlike(x, y), y.pc # "translate", y.pc # "extract"
    PROVE  Reads(y, q, m)
<1> DEFINE C == Range(q.text)
<1>1. Streaming(x, C) /\ Unmarked(x, q)
  BY Zenon DEF Reads
<1>2. /\ Streaming(y, C)
      /\ Unmarked(x, q) => Unmarked(y, q)
      /\ Passing(x, q) => Passing(y, q)
      /\ Collecting(x, q) => Collecting(y, q)
      /\ Reinjecting(x, q) => Reinjecting(y, q)
  <2> HIDE DEF C
  <2> QED BY <1>1, AlikeIs, Zenon
<1> QED BY <1>1, <1>2, Zenon DEF Reads

LEMMA inputFilterReads ==
    ASSUME NEW t \in Serving, NEW q, q = Request(t), IsRequest(q), NEW m, Reads(rq[t], q, m),
           inputFilterHandler(t)
    PROVE  \E y : Becomes(t, y) /\ Reads(y, q, m)
<1> DEFINE C == Range(q.text)
           o == rq[t]
           X(n) == [o EXCEPT !.readbytes = n]
<1>1. PICK n \in ReadSizes :
        /\ o.pc = "handle"
        /\ \E y \in IF ~IsDuplicate(X(n)) THEN {Delivered(r) : r \in Brigades(X(n), n)}
                    ELSE IF X(n).ictx = 1 THEN Reinjected(X(n))
                    ELSE {[IF X(n).info.present THEN X(n) ELSE initRequest(X(n)) EXCEPT !.pc = "extract"]} :
               Becomes(t, y)
  BY Zenon DEF inputFilterHandler, Running
<1> DEFINE x == X(n)
<1>2. PICK y : /\ Becomes(t, y)
               /\ \/ ~IsDuplicate(x) /\ \E r \in Brigades(x, n) : y = Delivered(r)
                  \/ IsDuplicate(x) /\ x.ictx = 1 /\ y \in Reinjected(x)
                  \/ /\ IsDuplicate(x) /\ x.ictx # 1
                     /\ y = [IF x.info.present THEN x ELSE initRequest(x) EXCEPT !.pc = "extract"]
  BY <1>1, Zenon
<1>3. Streaming(o, C) /\ Unmarked(o, q) /\ q.text \in Seq(C)
  BY Zenon DEF Reads, IsRequest
<1>4. ReadFields \subseteq DOMAIN o /\ InfoFields \subseteq DOMAIN o.info
  BY <1>3, Zenon DEF Streaming
<1>5. ReadsAlike(o, x) /\ x.readbytes = n /\ x.pc = "handle"
  BY <1>1, <1>4 DEF ReadsAlike, ReadFields
<1>6. n \in Nat \ {0} /\ x.pc # "translate" /\ x.pc # "extract" /\ o.pc # "translate"
  BY <1>1, <1>5, CompareAssumption
<1>7. Reads(o, q, m) /\ C = Range(q.text)
  OBVIOUS
<1> HIDE DEF C, o, x, X
<1>8. Reads(x, q, m)
  BY <1>5, <1>6, <1>7, AlikeReads
<1>9. Streaming(x, C) /\ Unmarked(x, q) /\ (IsDuplicate(x) <=> IsDuplicate(q))
  BY <1>7, <1>8, Zenon DEF Reads, Unmarked
<1>10. CASE ~IsDuplicate(x) /\ \E r \in Brigades(x, n) : y = Delivered(r)
  <2>1. Passing(x, q)
    BY <1>6, <1>8, <1>9, <1>10, Zenon DEF Reads
  <2>2. PICK r \in Brigades(x, n) : y = Delivered(r)
    BY <1>10
  <2>3. Arrives(x, r, y, C)
    BY <1>6, <1>9, <2>2, DeliveredIs
  <2>4. Passing(y, q)
    BY <1>3, <1>6, <1>9, <2>1, <2>3, PassingStep
  <2>5. Streaming(y, C) /\ y.pc = "handle" /\ y.info = x.info /\ y.headers = x.headers /\ y.method = x.method
    BY <2>3, Zenon DEF Arrives
  <2>6. Unmarked(y, q)
    BY <1>9, <2>5, UnmarkedSame, Zenon
  <2>7. y.pc # "translate" /\ y.pc # "extract" /\ ~IsDuplicate(q)
    BY <1>9, <1>10, <2>5
  <2>8. Reads(y, q, m)
    BY <1>7, <2>4, <2>5, <2>6, <2>7, Zenon DEF Reads
  <2> QED BY <1>2, <2>8, Zenon
<1>11. CASE IsDuplicate(x) /\ x.ictx = 1 /\ y \in Reinjected(x)
  <2>1. Reinjecting(x, q)
    <3>1. x.ictx # 0
      BY <1>11
    <3> QED BY <1>6, <1>8, <1>9, <1>11, <3>1, Zenon DEF Reads, Collecting, NotUnpacked
  <2>2. x.readbytes \in Nat \ {0}
    BY <1>5, <1>6
  <2>3. Injects(x, y, q, C)
    BY <1>6, <1>9, <1>11, <2>1, <2>2, ReinjectedIs
  <2>4. Unmarked(y, q)
    BY <1>9, <2>3, UnmarkedSame, Zenon DEF Injects
  <2>5. y.pc # "translate" /\ y.pc # "extract"
    BY <2>3 DEF Injects
  <2>6. Reads(y, q, m)
    BY <1>7, <1>9, <1>11, <2>3, <2>4, <2>5, Zenon DEF Reads, Injects
  <2> QED BY <1>2, <2>6, Zenon
<1>12. CASE /\ IsDuplicate(x) /\ x.ictx # 1
            /\ y = [IF x.info.present THEN x ELSE initRequest(x) EXCEPT !.pc = "extract"]
  <2>1. Collecting(x, q)
    BY <1>6, <1>8, <1>9, <1>12, Zenon DEF Reads, Reinjecting
  <2> DEFINE z == IF x.info.present THEN x ELSE initRequest(x)
  <2>2. /\ Streaming(z, C) /\ Unmarked(z, q) /\ Collecting(z, q) /\ z.info.present
        /\ z.readbytes = x.readbytes
    <3>1. CASE x.info.present
      BY <1>9, <2>1, <3>1, Zenon
    <3>2. CASE ~x.info.present
      <4>1. z = initRequest(x)
        BY <3>2, Zenon
      <4> HIDE DEF z
      <4>2. {"method", "headers", "info"} \subseteq DOMAIN x /\ NotUnpacked(x) /\ NothingGiven(x)
        BY <1>9, <2>1 DEF Streaming, ReadFields, Collecting
      <4>3. Initialised(x, z, q)
        BY <1>9, <4>1, <4>2, initRequestIs
      <4>4. /\ Streaming(z, C) /\ NotUnpacked(z)
            /\ z.pc = x.pc /\ z.readbytes = x.readbytes /\ z.hooks = x.hooks /\ z.net = x.net /\ z.failed = x.failed /\ z.cut = x.cut
            /\ z.mig = x.mig /\ z.got = x.got /\ z.eos = x.eos /\ z.error = x.error
        BY <1>9, <4>2, <4>3, InitialisedReads
      <4>5. NothingGiven(z) /\ Rest(z) = Rest(x)
        BY <4>2, <4>4, RestSame, Zenon DEF NothingGiven
      <4>6. x.info.mBody = <<>> /\ z.info.mBody = <<>> /\ z.info.present /\ Unmarked(z, q)
        BY <2>1, <3>2, <4>3, Zenon DEF Collecting, Initialised
      <4>7. Collecting(z, q)
        BY <2>1, <4>4, <4>5, <4>6, Zenon DEF Collecting
      <4> QED BY <4>4, <4>6, <4>7, Zenon
    <3> QED BY <3>1, <3>2
  <2>3. y = [z EXCEPT !.pc = "extract"]
    BY <1>12
  <2> HIDE DEF z
  <2>4. ReadFields \subseteq DOMAIN z /\ InfoFields \subseteq DOMAIN z.info
    BY <2>2, Zenon DEF Streaming
  <2>5. ReadsAlike(z, y) /\ y.pc = "extract" /\ y.readbytes = z.readbytes /\ y.info = z.info
    BY <2>3, <2>4 DEF ReadsAlike, ReadFields
  <2>6. Streaming(y, C) /\ Unmarked(y, q) /\ Collecting(y, q)
    BY <2>2, <2>5, AlikeIs, Zenon
  <2>7. y.pc # "translate" /\ y.info.present /\ y.readbytes \in ReadSizes /\ y.ictx = 0
    <3>1. y.ictx = 0
      BY <2>6, Zenon DEF Collecting, NotUnpacked
    <3> QED BY <1>5, <2>2, <2>5, <3>1
  <2>8. Reads(y, q, m)
    BY <1>7, <1>9, <1>12, <2>6, <2>7, Zenon DEF Reads
  <2> QED BY <1>2, <2>8, Zenon
<1> QED BY <1>2, <1>10, <1>11, <1>12, Zenon

\* mod_migrate has all of the request or nothing of it.
Whole(x) == x.mig.read \/ x.mig.body = <<>>

LEMMA NextHookReads ==
    ASSUME NEW q, NEW m, NEW C, C = Range(q.text), NEW x, Streaming(x, C), Unmarked(x, q),
           NEW a, Translating(x, q, a), x.pc = "translate", Whole(x), NEW y, y = NextHook(x)
    PROVE  Reads(y, q, m)
<1>1. ReadFields \subseteq DOMAIN x /\ InfoFields \subseteq DOMAIN x.info
  BY Zenon DEF Streaming
<1>2. ReadsAlike(x, y) /\ y.pc = "translate"
  BY <1>1 DEF ReadsAlike, ReadFields, NextHook
<1>3. /\ Streaming(y, C) /\ Unmarked(y, q) /\ y.mig = x.mig /\ y.net = x.net /\ y.cut = x.cut
      /\ y.info.mBody = x.info.mBody /\ NotUnpacked(y) /\ NothingGiven(y)
  <2>1. NotUnpacked(x) /\ NothingGiven(x)
    BY Zenon DEF Translating
  <2>2. /\ Streaming(y, C) /\ (Unmarked(x, q) => Unmarked(y, q))
        /\ y.mig = x.mig /\ y.net = x.net /\ y.cut = x.cut /\ y.info.mBody = x.info.mBody
        /\ NotUnpacked(x) => NotUnpacked(y)
        /\ NothingGiven(x) => NothingGiven(y)
    BY <1>2, AlikeIs
  <2> QED BY <2>1, <2>2, Zenon
<1>4. Translating(y, q, m)
  BY <1>3, Zenon DEF Translating, Whole
<1>5. y.pc # "extract"
  BY <1>2
<1> QED BY <1>2, <1>3, <1>4, <1>5, Zenon DEF Reads

LEMMA translateHookCompareReads ==
    ASSUME NEW t \in Serving, NEW q, NEW m, Reads(rq[t], q, m), translateHookCompare(t)
    PROVE  \E y : Becomes(t, y) /\ Reads(y, q, m)
<1> DEFINE C == Range(q.text)
           o == rq[t]
           x == IF conf.compare.mIsActive THEN initRequest(o) ELSE o
           y == NextHook(x)
<1>1. Becomes(t, y) /\ o.pc = "translate" /\ o.hooks # <<>> /\ Head(o.hooks) = "compare"
  BY Zenon DEF translateHookCompare, Running
<1>2. Streaming(o, C) /\ Unmarked(o, q) /\ Translating(o, q, m)
  BY <1>1, Zenon DEF Reads
<1>3. Whole(o)
  <2>1. Head(o.hooks) # "migrate"
    BY <1>1
  <2> QED BY <1>2, <2>1, Zenon DEF Translating, Whole
<1>4. C = Range(q.text) /\ y = NextHook(x)
  OBVIOUS
<1>5. Streaming(x, C) /\ Unmarked(x, q) /\ Translating(x, q, m) /\ Whole(x) /\ x.pc = "translate"
  <2>1. CASE ~conf.compare.mIsActive
    BY <1>1, <1>2, <1>3, <2>1, Zenon
  <2>2. CASE conf.compare.mIsActive
    <3>1. x = initRequest(o)
      BY <2>2, Zenon
    <3>2. {"method", "headers", "info"} \subseteq DOMAIN o
      BY <1>2 DEF Streaming, ReadFields
    <3>3. NotUnpacked(o) /\ NothingGiven(o)
      BY <1>2, Zenon DEF Translating
    <3> HIDE DEF x, o, C
    <3>4. Initialised(o, x, q)
      BY <1>2, <3>1, <3>2, initRequestIs
    <3>5. /\ Streaming(x, C) /\ NotUnpacked(x)
          /\ x.pc = o.pc /\ x.readbytes = o.readbytes /\ x.hooks = o.hooks /\ x.net = o.net /\ x.failed = o.failed /\ x.cut = o.cut
          /\ x.mig = o.mig /\ x.got = o.got /\ x.eos = o.eos /\ x.error = o.error
      BY <1>2, <3>3, <3>4, InitialisedReads
    <3>6. NothingGiven(x) /\ x.info.mBody = <<>> /\ Unmarked(x, q) /\ Whole(x)
      BY <1>3, <3>3, <3>4, <3>5, Zenon DEF NothingGiven, Initialised, Whole
    <3>7. Translating(x, q, m)
      BY <1>2, <3>5, <3>6, Zenon DEF Translating
    <3> QED BY <1>1, <3>5, <3>6, <3>7, Zenon
  <2> QED BY <2>1, <2>2
<1> HIDE DEF x, y, o, C
<1>6. Reads(y, q, m)
  BY <1>4, <1>5, NextHookReads
<1> QED BY <1>1, <1>6, Zenon

\* One brigade is read into what mod_migrate holds.
HasRead(o, x, q, C) ==
    /\ Streaming(x, C) /\ Unmarked(x, q) /\ x.pc = "translate" /\ x.hooks = o.hooks
    /\ NotUnpacked(x) /\ NothingGiven(x) /\ x.info.mBody = <<>>
    /\ x.mig.ctx = 0 /\ (~x.cut => x.mig.body \o x.net = q.text)

LEMMA MigrateReads ==
    ASSUME NEW q, NEW C, C = Range(q.text), NEW o, Streaming(o, C), Unmarked(o, q), NEW m, Translating(o, q, m),
           o.pc = "translate", NEW r, Given(o, r, C), NEW e, Extracts(r, e, C),
           NEW x, x = [e.x EXCEPT !.mig.body = o.mig.body \o e.data]
    PROVE  HasRead(o, x, q, C)
<1>1. /\ SameBut(o, r.x, {"net", "failed"}) /\ IsBrigade(r, C) /\ r.x.net \in Seq(C) /\ r.x.failed \in BOOLEAN
      /\ SameBut(r.x, e.x, {"cut"}) /\ e.x.cut \in BOOLEAN
  BY Zenon DEF Given, Extracts
<1>2. ReadFields \subseteq DOMAIN o /\ MigFields \subseteq DOMAIN o.mig
  BY Zenon DEF Streaming
<1>3. /\ ReadFields \subseteq DOMAIN e.x /\ e.x.mig = o.mig /\ e.x.info = o.info /\ e.x.pc = o.pc /\ e.x.hooks = o.hooks
      /\ e.x.headers = o.headers /\ e.x.method = o.method /\ e.x.got = o.got /\ e.x.eos = o.eos
      /\ e.x.error = o.error /\ e.x.ictx = o.ictx /\ e.x.net = r.x.net /\ e.x.failed = r.x.failed
      /\ r.x.cut = o.cut
  <2>1. /\ ReadFields \subseteq DOMAIN r.x /\ r.x.mig = o.mig /\ r.x.info = o.info /\ r.x.pc = o.pc /\ r.x.hooks = o.hooks
        /\ r.x.headers = o.headers /\ r.x.method = o.method /\ r.x.got = o.got /\ r.x.eos = o.eos
        /\ r.x.error = o.error /\ r.x.ictx = o.ictx /\ r.x.cut = o.cut
    BY <1>1, <1>2 DEF SameBut, ReadFields
  <2> QED BY <1>1, <2>1 DEF SameBut, ReadFields
<1> DEFINE b == o.mig.body \o e.data
<1>4. x = [e.x EXCEPT !.mig.body = b]
  OBVIOUS
<1> HIDE DEF b
<1>5. /\ ReadFields \subseteq DOMAIN x /\ x.mig = [o.mig EXCEPT !.body = b]
      /\ x.info = o.info /\ x.pc = o.pc /\ x.hooks = o.hooks
      /\ x.headers = o.headers /\ x.method = o.method /\ x.got = o.got /\ x.eos = o.eos
      /\ x.error = o.error /\ x.ictx = o.ictx /\ x.net = r.x.net
      /\ x.failed = r.x.failed /\ x.cut = e.x.cut
  BY <1>3, <1>4 DEF ReadFields
<1>6. MigFields \subseteq DOMAIN x.mig /\ x.mig.body = b /\ x.mig.ctx = o.mig.ctx /\ x.mig.read = o.mig.read
  BY <1>2, <1>5 DEF MigFields
<1>7. o.mig.body \in Seq(C) /\ e.data \in Seq(C) /\ o.mig.ctx = 0
  BY Zenon DEF Streaming, Extracts, Translating
<1>8. b \in Seq(C) /\ 0 \in -1 .. Len(b)
  <2>1. b \in Seq(C)
    BY <1>7, TwoParts, Zenon DEF b
  <2> QED BY <2>1
<1>9. ASSUME ~x.cut PROVE b \o r.x.net = q.text
  <2>1. r.ok /\ e.data = r.data /\ ~o.cut
    BY <1>3, <1>5, <1>9, Zenon DEF Extracts
  <2>2. o.mig.body \o o.net = q.text
    BY <2>1, Zenon DEF Translating
  <2>3. Associate(o.mig.body, e.data, r.x.net)
    BY <1>1, <1>7, Associative, Zenon
  <2>4. e.data \o r.x.net = o.net
    BY <2>1, Zenon DEF Given
  <2> QED BY <2>2, <2>3, <2>4, Zenon DEF Associate, b
<1>10. Streaming(x, C)
  BY <1>1, <1>5, <1>6, <1>7, <1>8, Zenon DEF Streaming
<1>11. Unmarked(x, q)
  BY <1>5, UnmarkedSame, Zenon
<1>12. NotUnpacked(x) /\ NothingGiven(x) /\ x.info.mBody = <<>>
  BY <1>5, Zenon DEF NotUnpacked, NothingGiven, Translating
<1> QED BY <1>5, <1>6, <1>7, <1>9, <1>10, <1>11, <1>12, Zenon DEF HasRead

LEMMA MigrateEnds ==
    ASSUME NEW q, NEW m, NEW C, C = Range(q.text), NEW x, Streaming(x, C), Unmarked(x, q), x.pc = "translate",
           NotUnpacked(x), NothingGiven(x), x.info.mBody = <<>>, x.mig.ctx = 0,
           ~x.cut => x.mig.body \o x.net = q.text,
           NEW env, NEW z, z = [x EXCEPT !.mig.read = TRUE, !.env = env], NEW y, y = NextHook(z)
    PROVE  Reads(y, q, m)
<1>1. ReadFields \subseteq DOMAIN x /\ MigFields \subseteq DOMAIN x.mig
  BY Zenon DEF Streaming
<1>2. /\ ReadFields \subseteq DOMAIN z /\ z.mig = [x.mig EXCEPT !.read = TRUE]
      /\ z.info = x.info /\ z.pc = x.pc /\ z.headers = x.headers /\ z.method = x.method
      /\ z.got = x.got /\ z.eos = x.eos /\ z.error = x.error /\ z.ictx = x.ictx /\ z.net = x.net /\ z.failed = x.failed /\ z.cut = x.cut
  BY <1>1 DEF ReadFields
<1>3. MigFields \subseteq DOMAIN z.mig /\ z.mig.body = x.mig.body /\ z.mig.ctx = x.mig.ctx /\ z.mig.read = TRUE
  BY <1>1, <1>2 DEF MigFields
<1>4. Streaming(z, C)
  BY <1>2, <1>3, Zenon DEF Streaming
<1>5. Unmarked(z, q)
  BY <1>2, UnmarkedSame, Zenon
<1>6. NotUnpacked(z) /\ NothingGiven(z) /\ z.info.mBody = <<>> /\ Whole(z)
  BY <1>2, <1>3, Zenon DEF NotUnpacked, NothingGiven, Whole
<1>7. Translating(z, q, m)
  BY <1>2, <1>3, <1>6, Zenon DEF Translating
<1>8. z.pc = "translate"
  BY <1>2
<1> QED BY <1>4, <1>5, <1>6, <1>7, <1>8, NextHookReads

LEMMA translateHookMigrateReads ==
    ASSUME NEW t \in Serving, NEW q, NEW m, m = Migrates, Reads(rq[t], q, m), translateHookMigrate(t)
    PROVE  \E y : Becomes(t, y) /\ Reads(y, q, m)
<1> DEFINE C == Range(q.text)
           o == rq[t]
           brigades == NetBrigades(o, CMaxBytes)
           X(e) == [e.x EXCEPT !.mig.body = o.mig.body \o e.data]
           Z(e, env) == [X(e) EXCEPT !.mig.read = TRUE, !.env = env]
<1>1. o.pc = "translate" /\ o.hooks # <<>> /\ Head(o.hooks) = "migrate" /\ phase = "running"
  BY Zenon DEF translateHookMigrate, Running
<1>2. \/ ~conf.migrate.mDirName /\ Becomes(t, NextHook(o))
      \/ /\ conf.migrate.mDirName
         /\ \E e \in extractBrigadeContent(brigades) :
                \/ Becomes(t, X(e))
                \/ \E env : Becomes(t, NextHook(Z(e, env)))
  BY Zenon DEF translateHookMigrate
<1>3. Streaming(o, C) /\ Unmarked(o, q) /\ Translating(o, q, m)
  BY <1>1, Zenon DEF Reads
<1>4. C = Range(q.text)
  OBVIOUS
<1>5. CASE ~conf.migrate.mDirName /\ Becomes(t, NextHook(o))
  <2>1. Whole(o)
    BY <1>3, <1>5, Zenon DEF Translating, Whole, Migrates
  <2> DEFINE y == NextHook(o)
  <2>2. y = NextHook(o)
    OBVIOUS
  <2> HIDE DEF y, o, C
  <2>3. Reads(y, q, m)
    BY <1>1, <1>3, <1>4, <2>1, <2>2, NextHookReads
  <2> QED BY <1>5, <2>2, <2>3, Zenon
<1>6. ASSUME conf.migrate.mDirName, NEW e \in extractBrigadeContent(brigades)
      PROVE  Reads(X(e), q, m) /\ \A env : Reads(NextHook(Z(e, env)), q, m)
  <2> DEFINE x == X(e)
  <2>1. x = [e.x EXCEPT !.mig.body = o.mig.body \o e.data] /\ brigades = NetBrigades(o, CMaxBytes)
    OBVIOUS
  <2>2. /\ {"net", "failed", "cut"} \subseteq DOMAIN o /\ o.net \in Seq(C) /\ o.failed \in BOOLEAN
        /\ o.cut \in BOOLEAN /\ CMaxBytes \in Nat \ {0}
    BY <1>3, CompareAssumption DEF Streaming, ReadFields
  <2> HIDE DEF x, o, C, brigades
  <2>3. PICK r \in brigades : Given(o, r, C) /\ Extracts(r, e, C)
    <3>1. ASSUME NEW r \in brigades PROVE Given(o, r, C)
      BY <2>1, <2>2, <3>1, NetBrigadesIs
    <3>2. ASSUME NEW r \in brigades PROVE IsBrigade(r, C) /\ "cut" \in DOMAIN r.x /\ r.x.cut \in BOOLEAN
      <4>1. IsBrigade(r, C) /\ SameBut(o, r.x, {"net", "failed"})
        BY <3>1, Zenon DEF Given
      <4> QED BY <2>2, <4>1 DEF SameBut
    <3>3. \E r \in brigades : Extracts(r, e, C)
      BY <1>6, <3>2, extractBrigadeContentIs
    <3> QED BY <3>1, <3>3, Zenon
  <2>4. /\ Streaming(x, C) /\ Unmarked(x, q) /\ x.pc = "translate" /\ x.hooks = o.hooks
        /\ NotUnpacked(x) /\ NothingGiven(x) /\ x.info.mBody = <<>>
        /\ x.mig.ctx = 0 /\ (~x.cut => x.mig.body \o x.net = q.text)
    <3>1. HasRead(o, x, q, C)
      BY <1>1, <1>3, <1>4, <2>1, <2>3, MigrateReads
    <3> QED BY <3>1, Zenon DEF HasRead
  <2>5. Translating(x, q, m)
    BY <1>1, <1>6, <2>4, Zenon DEF Translating, Migrates
  <2>6. Reads(x, q, m)
    <3>1. x.pc # "extract"
      BY <2>4
    <3> QED BY <1>4, <2>4, <2>5, <3>1, Zenon DEF Reads
  <2>7. ASSUME NEW env PROVE Reads(NextHook([x EXCEPT !.mig.read = TRUE, !.env = env]), q, m)
    <3> DEFINE z == [x EXCEPT !.mig.read = TRUE, !.env = env]
               y == NextHook(z)
    <3>1. z = [x EXCEPT !.mig.read = TRUE, !.env = env] /\ y = NextHook(z)
      OBVIOUS
    <3> HIDE DEF z, y
    <3>2. Reads(y, q, m)
      BY <1>4, <2>4, <3>1, MigrateEnds
    <3> QED BY <3>1, <3>2, Zenon
  <2> QED BY <2>6, <2>7, Zenon DEF x
<1> QED BY <1>2, <1>5, <1>6, Zenon

LEMMA TranslatedReads ==
    ASSUME NEW t \in Serving, NEW q, IsRequest(q), NEW m, Reads(rq[t], q, m), Translated(t)
    PROVE  \E y : Becomes(t, y) /\ Reads(y, q, m)
<1> DEFINE C == Range(q.text)
           x == rq[t]
           y == [x EXCEPT !.pc = "handle"]
<1>1. x.pc = "translate" /\ x.hooks = <<>> /\ Becomes(t, y)
  BY Zenon DEF Translated, Running
<1>2. Streaming(x, C) /\ Unmarked(x, q) /\ Translating(x, q, m) /\ q.text \in Seq(C)
  BY <1>1, Zenon DEF Reads, IsRequest
<1>3. ReadFields \subseteq DOMAIN x /\ InfoFields \subseteq DOMAIN x.info
  BY <1>2, Zenon DEF Streaming
<1>4. ReadsAlike(x, y) /\ y.pc = "handle"
  BY <1>3 DEF ReadsAlike, ReadFields
<1>5. C = Range(q.text)
  OBVIOUS
<1> HIDE DEF x, y, C
<1>6. /\ x.mig.body \in Seq(C) /\ x.net \in Seq(C) /\ x.mig.ctx = 0
      /\ ~x.cut => x.mig.body \o x.net = q.text
      /\ NotUnpacked(x) /\ NothingGiven(x) /\ x.info.mBody = <<>> /\ Whole(x)
  BY <1>1, <1>2, Zenon DEF Streaming, Translating, Whole
<1>7. ~x.cut => Rest(x) = q.text
  <2>1. SubSeq(x.mig.body, 0 + 1, Len(x.mig.body)) = x.mig.body
    BY <1>6, SubSeqFull
  <2>2. GivenBack(x.mig.body, 0) = x.mig.body
    BY <2>1 DEF GivenBack
  <2>3. <<>> \o x.net = x.net
    BY <1>6, ConcatEmptySeq
  <2> QED BY <1>6, <2>2, <2>3, Zenon DEF Rest, Whole
<1>8. <<>> \o q.text = q.text
  BY <1>2, ConcatEmptySeq
<1>9. Passing(x, q) /\ Collecting(x, q)
  BY <1>6, <1>7, <1>8, Zenon DEF Passing, Collecting, NothingGiven
<1>10. Streaming(y, C) /\ Unmarked(y, q) /\ Passing(y, q) /\ Collecting(y, q)
  BY <1>2, <1>4, <1>9, AlikeIs, Zenon
<1>11. y.pc # "translate" /\ y.pc # "extract"
  BY <1>4
<1>12. Reads(y, q, m)
  BY <1>5, <1>10, <1>11, Zenon DEF Reads
<1> QED BY <1>1, <1>12, Zenon

Answers(t) ==
    \/ StopsReading(t) \/ outputFilterHandler(t) \/ TruncatesLog(t) \/ PassesOn(t)
    \/ writeSerializedRequest(t) \/ outputFilterHandler2(t) \/ writeDifferences(t)
    \/ RecordWritten(t) \/ PassesAgain(t) \/ Finishes(t)

\* The answer is none of what the handler reads.
LEMMA AnswersAlike ==
    ASSUME NEW t \in Serving, NEW C, Streaming(rq[t], C), Answers(t)
    PROVE  /\ rq[t].pc # "translate"
           /\ \E y : Becomes(t, y) /\ ReadsAlike(rq[t], y) /\ y.pc # "translate" /\ y.pc # "extract"
<1> DEFINE o == rq[t]
<1>1. ReadFields \subseteq DOMAIN o /\ InfoFields \subseteq DOMAIN o.info
  BY Zenon DEF Streaming
<1>2. CASE outputFilterHandler(t)
  <2>1. PICK send, e, unread, data :
          LET x == [o EXCEPT !.toSend = send, !.ended = e, !.unread = unread, !.toPass = TRUE]
          IN Becomes(t, IF Collects(x) THEN Collected(x, data, e) ELSE [x EXCEPT !.off = TRUE])
    BY <1>2, Zenon DEF outputFilterHandler
  <2> DEFINE x == [o EXCEPT !.toSend = send, !.ended = e, !.unread = unread, !.toPass = TRUE]
  <2>2. o.pc = "respond"
    BY <1>2 DEF outputFilterHandler, Running
  <2>3. ReadFields \subseteq DOMAIN x /\ x.pc = "respond" /\ \A f \in ReadFields : x[f] = o[f]
    BY <1>1, <2>2 DEF ReadFields
  <2>4. x.info = o.info
    BY <2>3 DEF ReadFields
  <2>5. Becomes(t, Collected(x, data, e)) \/ Becomes(t, [x EXCEPT !.off = TRUE])
    BY <2>1, Zenon
  <2> HIDE DEF x
  <2>6. PICK body, eos, out :
          Collected(x, data, e) =
            [x EXCEPT !.info.mDupResponseBody = body, !.info.eos = eos, !.headersOut = out]
    BY Zenon DEF Collected
  <2> DEFINE y == [x EXCEPT !.info.mDupResponseBody = body, !.info.eos = eos, !.headersOut = out]
             z == [x EXCEPT !.off = TRUE]
  <2>7. ReadsAlike(o, z) /\ z.pc = "respond"
    BY <1>1, <2>3, <2>4 DEF ReadsAlike, ReadFields
  <2>8. ReadsAlike(o, y) /\ y.pc = "respond"
    <3> DEFINE i == [x.info EXCEPT !.mDupResponseBody = body, !.eos = eos]
    <3>1. y = [x EXCEPT !.info = i, !.headersOut = out]
      BY <2>3 DEF ReadFields
    <3>2. InfoFields \subseteq DOMAIN i /\ \A f \in InfoFields : i[f] = o.info[f]
      BY <1>1, <2>4 DEF InfoFields
    <3> HIDE DEF i, y
    <3>3. /\ ReadFields \subseteq DOMAIN y /\ y.info = i /\ y.pc = "respond"
          /\ \A f \in ReadFields \ {"pc", "hooks", "info", "readbytes"} : y[f] = o[f]
      BY <2>3, <3>1 DEF ReadFields
    <3> QED BY <3>2, <3>3, Zenon DEF ReadsAlike
  <2> HIDE DEF y, z
  <2>9. Becomes(t, y) \/ Becomes(t, z)
    BY <2>5, <2>6, Zenon DEF y, z
  <2> QED BY <2>2, <2>7, <2>8, <2>9
<1>3. ASSUME NEW y, Becomes(t, y), DOMAIN y = DOMAIN o, \A f \in ReadFields \ {"pc"} : y[f] = o[f],
             o.pc # "translate", y.pc # "translate", y.pc # "extract"
      PROVE  /\ o.pc # "translate"
             /\ \E z : Becomes(t, z) /\ ReadsAlike(o, z) /\ z.pc # "translate" /\ z.pc # "extract"
  <2>1. ReadsAlike(o, y)
    BY <1>1, <1>3 DEF ReadsAlike, ReadFields
  <2> QED BY <1>3, <2>1
<1>4. CASE StopsReading(t)
  <2> DEFINE y == [o EXCEPT !.pc = "respond"]
  <2>1. Becomes(t, y) /\ o.pc = "handle"
    BY <1>4, Zenon DEF StopsReading, Running
  <2>2. y.pc = "respond" /\ DOMAIN y = DOMAIN o /\ \A f \in ReadFields \ {"pc"} : y[f] = o[f]
    BY <1>1 DEF ReadFields
  <2> HIDE DEF y
  <2> QED BY <1>3, <2>1, <2>2
<1>5. CASE TruncatesLog(t)
  <2> DEFINE y == [o EXCEPT !.pc = "reopen"]
             z == [o EXCEPT !.pc = "respond", !.off = TRUE]
  <2>1. (Becomes(t, y) \/ Becomes(t, z)) /\ o.pc \in {"respond", "reopen"}
    BY <1>5, Zenon DEF TruncatesLog, Running
  <2>2. /\ y.pc = "reopen" /\ DOMAIN y = DOMAIN o /\ \A f \in ReadFields \ {"pc"} : y[f] = o[f]
        /\ z.pc = "respond" /\ DOMAIN z = DOMAIN o /\ \A f \in ReadFields \ {"pc"} : z[f] = o[f]
    BY <1>1 DEF ReadFields
  <2> HIDE DEF y, z
  <2> QED BY <1>3, <2>1, <2>2
<1> DEFINE c == [Passed(o) EXCEPT !.pc = "respond", !.off2 = TRUE]
<1>6. c.pc = "respond" /\ DOMAIN c = DOMAIN o /\ \A f \in ReadFields \ {"pc"} : c[f] = o[f]
  BY <1>1 DEF ReadFields, Passed
<1>7. c = Compared(o)
  BY DEF Compared
<1> HIDE DEF c
<1>8. CASE PassesOn(t)
  <2> DEFINE y == [o EXCEPT !.toPass = FALSE]
  <2>1. Becomes(t, y) /\ o.pc = "respond"
    BY <1>8, Zenon DEF PassesOn, Running, Passed
  <2>2. y.pc = "respond" /\ DOMAIN y = DOMAIN o /\ \A f \in ReadFields \ {"pc"} : y[f] = o[f]
    BY <1>1, <2>1 DEF ReadFields
  <2> HIDE DEF y
  <2> QED BY <1>3, <2>1, <2>2
<1>9. CASE writeSerializedRequest(t)
  <2> DEFINE y == [o EXCEPT !.pc = "write", !.logged = TRUE]
  <2>1. Becomes(t, y) /\ o.pc = "respond"
    BY <1>9, Zenon DEF writeSerializedRequest, Running
  <2>2. y.pc = "write" /\ DOMAIN y = DOMAIN o /\ \A f \in ReadFields \ {"pc"} : y[f] = o[f]
    BY <1>1 DEF ReadFields
  <2> HIDE DEF y
  <2> QED BY <1>3, <2>1, <2>2
<1>10. CASE outputFilterHandler2(t)
  <2> DEFINE y(p) == [o EXCEPT !.pc = "differs", !.printer = p]
  <2>1. o.pc = "respond" /\ (Becomes(t, c) \/ \E p : Becomes(t, y(p)))
    BY <1>7, <1>10, Zenon DEF outputFilterHandler2, Running
  <2>2. \A p : y(p).pc = "differs" /\ DOMAIN y(p) = DOMAIN o /\ \A f \in ReadFields \ {"pc"} : y(p)[f] = o[f]
    BY <1>1 DEF ReadFields
  <2> HIDE DEF y
  <2> QED BY <1>3, <1>6, <2>1, <2>2
<1>11. CASE writeDifferences(t)
  <2> DEFINE y(p) == [o EXCEPT !.pc = "write", !.printer = p, !.logged = TRUE]
  <2>1. o.pc = "differs" /\ (Becomes(t, c) \/ \E p : Becomes(t, y(p)))
    BY <1>7, <1>11, Zenon DEF writeDifferences, Running
  <2>2. \A p : y(p).pc = "write" /\ DOMAIN y(p) = DOMAIN o /\ \A f \in ReadFields \ {"pc"} : y(p)[f] = o[f]
    BY <1>1 DEF ReadFields
  <2> HIDE DEF y
  <2> QED BY <1>3, <1>6, <2>1, <2>2
<1>12. CASE RecordWritten(t)
  <2>1. Becomes(t, c) /\ o.pc = "write"
    BY <1>7, <1>12, Zenon DEF RecordWritten, Running
  <2> QED BY <1>3, <1>6, <2>1
<1>13. CASE PassesAgain(t)
  <2> DEFINE y == [o EXCEPT !.toPass = TRUE, !.again = TRUE]
  <2>1. Becomes(t, y) /\ o.pc = "respond"
    BY <1>13, Zenon DEF PassesAgain, Running
  <2>2. y.pc = "respond" /\ DOMAIN y = DOMAIN o /\ \A f \in ReadFields \ {"pc"} : y[f] = o[f]
    BY <1>1, <2>1 DEF ReadFields
  <2> HIDE DEF y
  <2> QED BY <1>3, <2>1, <2>2
<1>14. CASE Finishes(t)
  <2> DEFINE y == [o EXCEPT !.pc = "done"]
  <2>1. Becomes(t, y) /\ o.pc = "respond"
    BY <1>14, Zenon DEF Finishes, Running
  <2>2. y.pc = "done" /\ DOMAIN y = DOMAIN o /\ \A f \in ReadFields \ {"pc"} : y[f] = o[f]
    BY <1>1 DEF ReadFields
  <2> HIDE DEF y
  <2> QED BY <1>3, <2>1, <2>2
<1> QED BY <1>2, <1>4, <1>5, <1>8, <1>9, <1>10, <1>11, <1>12, <1>13, <1>14, Zenon DEF Answers

LEMMA InitReads ==
    ASSUME NEW q, IsRequest(q), NEW hooks, NEW m
    PROVE  Reads(NewRequest(q, hooks), q, m)
<1> DEFINE x == NewRequest(q, hooks)
           C == Range(q.text)
<1>1. /\ ReadFields \subseteq DOMAIN x /\ x.pc = "translate" /\ x.net = q.text
      /\ x.failed = FALSE /\ x.cut = FALSE
      /\ x.mig = [read |-> FALSE, body |-> <<>>, ctx |-> 0] /\ x.method = q.method /\ x.headers = q.headers
      /\ x.info = NoInfo /\ x.ictx = 0 /\ x.got = <<>> /\ x.eos = FALSE /\ x.error = FALSE
  BY DEF NewRequest, ReadFields
<1>2. /\ InfoFields \subseteq DOMAIN x.info /\ x.info.present = FALSE /\ x.info.mBody = <<>>
      /\ x.info.mReqBody = <<>> /\ x.info.offset = 0
  BY <1>1 DEF NoInfo, InfoFields
<1>3. MigFields \subseteq DOMAIN x.mig /\ x.mig.read = FALSE /\ x.mig.body = <<>> /\ x.mig.ctx = 0
  BY <1>1 DEF MigFields
<1> HIDE DEF x
<1>4. q.text \in Seq(C) /\ <<>> \in Seq(C)
  BY DEF IsRequest
<1>5. 0 \in -1 .. Len(<<>>) /\ 0 \in 0 .. Len(<<>>) /\ <<>> \o q.text = q.text
  BY <1>4, ConcatEmptySeq
<1>6. Streaming(x, C)
  BY <1>1, <1>2, <1>3, <1>4, <1>5, Zenon DEF Streaming
<1>7. Unmarked(x, q)
  BY <1>1, <1>2, Zenon DEF Unmarked, IsDuplicate, Has
<1>8. Translating(x, q, m)
  BY <1>1, <1>2, <1>3, <1>5, Zenon DEF Translating, NotUnpacked, NothingGiven
<1>9. x.pc # "extract"
  BY <1>1
<1>10. Reads(x, q, m)
  BY <1>1, <1>6, <1>7, <1>8, <1>9, Zenon DEF Reads
<1> QED BY <1>10 DEF x

LEMMA ReadsStep ==
    ASSUME RequestInv, NEW t \in Threads, Step(t)
    PROVE  \/ UNCHANGED rq
           \/ t \in Serving /\ \E y : Becomes(t, y) /\ Reads(y, Request(t), Migrates)
<1>1. CASE writeDifferencesThrows(t) \/ WritesRecord(t)
  BY <1>1, Zenon DEF writeDifferencesThrows, WritesRecord
<1>2. CASE ~(writeDifferencesThrows(t) \/ WritesRecord(t))
  <2> DEFINE q == Request(t)
             m == Migrates
  <2>1. t \in Serving
    BY <1>2, Zenon DEF Step, translateHookCompare, translateHookMigrate, Translated, inputFilterHandler,
       Unpacks, StopsReading, outputFilterHandler, TruncatesLog, PassesOn,
       writeSerializedRequest, outputFilterHandler2, writeDifferences, RecordWritten, PassesAgain,
       Finishes, Running
  <2>2. Reads(rq[t], q, m) /\ q = Request(t) /\ m = Migrates
    BY <2>1, Zenon DEF RequestInv
  <2>3. IsRequest(q)
    BY <2>1, CompareAssumption, Zenon DEF RequestInv, Request, Serving
  <2>4. \/ translateHookCompare(t) \/ translateHookMigrate(t) \/ Translated(t)
        \/ inputFilterHandler(t) \/ Unpacks(t) \/ Answers(t)
    BY <1>2, Zenon DEF Step, Answers
  <2> HIDE DEF q, m
  <2>5. \E y : Becomes(t, y) /\ Reads(y, q, m)
    <3>1. CASE translateHookCompare(t)
      BY <2>1, <2>2, <3>1, translateHookCompareReads
    <3>2. CASE translateHookMigrate(t)
      BY <2>1, <2>2, <3>2, translateHookMigrateReads
    <3>3. CASE Translated(t)
      BY <2>1, <2>2, <2>3, <3>3, TranslatedReads
    <3>4. CASE inputFilterHandler(t)
      BY <2>1, <2>2, <2>3, <3>4, inputFilterReads
    <3>5. CASE Unpacks(t)
      BY <2>1, <2>2, <2>3, <3>5, extractReads
    <3>6. CASE Answers(t)
      <4>1. Streaming(rq[t], Range(q.text))
        BY <2>2, Zenon DEF Reads
      <4>2. /\ rq[t].pc # "translate"
            /\ \E y : Becomes(t, y) /\ ReadsAlike(rq[t], y) /\ y.pc # "translate" /\ y.pc # "extract"
        BY <2>1, <3>6, <4>1, AnswersAlike, Zenon
      <4> QED BY <2>2, <4>2, AlikeReads, Zenon
    <3> QED BY <2>4, <3>1, <3>2, <3>3, <3>4, <3>5, <3>6, Zenon
  <2> QED BY <2>1, <2>2, <2>5, Zenon
<1> QED BY <1>1, <1>2

\* The inductive invariant: what the handler was given, what the filters hold
\* and what the network still has are together what was sent, as long as no
\* failed read was taken for the end of the body (cut).
THEOREM RequestInvariant == Spec => []RequestInv
<1>1. Init => RequestInv
  <2> SUFFICES ASSUME Init PROVE RequestInv
    OBVIOUS
  <2>1. scenario \in Scenarios /\ rq = [t \in Serving |-> NewRequest(Request(t), scenario.hooks)]
    BY Zenon DEF Init
  <2>2. ASSUME NEW t \in Serving PROVE Reads(rq[t], Request(t), Migrates)
    <3> DEFINE q == Request(t)
               h == scenario.hooks
               m == Migrates
    <3>1. IsRequest(q)
      BY <2>1, <2>2, CompareAssumption, Zenon DEF Request, Serving
    <3>2. rq[t] = NewRequest(q, h)
      BY <2>1
    <3> HIDE DEF q, h, m
    <3>3. Reads(NewRequest(q, h), q, m)
      BY <3>1, InitReads
    <3> QED BY <3>2, <3>3, Zenon DEF q, m
  <2>3. DOMAIN rq = Serving
    BY <2>1
  <2> QED BY <2>1, <2>2, <2>3, Zenon DEF RequestInv
<1>2. RequestInv /\ [Next]_vars => RequestInv'
  <2> SUFFICES ASSUME RequestInv, [Next]_vars PROVE RequestInv'
    OBVIOUS
  <2>1. ASSUME UNCHANGED <<scenario, rq>>, (Migrates => Migrates') PROVE RequestInv'
    <3>1. ASSUME NEW t \in Serving PROVE Reads(rq[t], Request(t), Migrates')
      <4> DEFINE q == Request(t)
                 x == rq[t]
                 m == Migrates
                 n == Migrates'
      <4>1. Reads(x, q, m) /\ (m => n) /\ m \in BOOLEAN /\ n \in BOOLEAN
        BY <2>1, Zenon DEF RequestInv, Migrates
      <4> HIDE DEF q, x, m, n
      <4>2. Reads(x, q, n)
        BY <4>1, Zenon DEF Reads, Translating
      <4> QED BY <4>2, Zenon DEF q, x, n
    <3> QED BY <2>1, <3>1, Zenon DEF RequestInv, Serving, Request
  <2>2. ASSUME NEW t \in Serving, NEW y, Becomes(t, y), Reads(y, Request(t), Migrates),
               UNCHANGED <<scenario, phase, conf>>
        PROVE  RequestInv'
    <3>1. Migrates' = Migrates /\ Serving' = Serving /\ scenario' = scenario
      BY <2>2, Zenon DEF Migrates, Serving
    <3>2. DOMAIN rq = Serving /\ \A u \in Serving : Reads(rq[u], Request(u), Migrates)
      BY Zenon DEF RequestInv
    <3>3. DOMAIN rq' = Serving /\ \A u \in Serving : rq'[u] = IF u = t THEN y ELSE rq[u]
      BY <2>2, <3>2 DEF Becomes
    <3>4. \A u \in Serving : Request(u)' = Request(u)
      BY <3>1, Zenon DEF Request
    <3>5. ASSUME NEW u \in Serving PROVE Reads(rq'[u], Request(u), Migrates)
      BY <2>2, <3>2, <3>3, Zenon
    <3> QED BY <3>1, <3>3, <3>4, <3>5, Zenon DEF RequestInv
  <2>3. CASE UNCHANGED vars
    BY <2>1, <2>3, Zenon DEF vars, Migrates
  <2>4. CASE Configure
    <3>1. phase = "config" /\ UNCHANGED <<scenario, rq>>
      BY <2>4, Zenon DEF Configure, setBodyList, setHeaderList, setDiffLogType, setDisableLibwsdiff, setCompareLog,
         setCompare, setApplicationScope, setMigrateEnv, postConfig, Directive
    <3>2. ~Migrates
      BY <3>1 DEF Migrates
    <3> QED BY <2>1, <3>1, <3>2, Zenon
  <2>5. ASSUME NEW t \in Threads, Step(t) PROVE RequestInv'
    <3>1. UNCHANGED <<scenario, phase, conf>>
      BY <2>5, Zenon DEF Step, translateHookCompare, translateHookMigrate, Translated, inputFilterHandler,
         Unpacks, StopsReading, outputFilterHandler, TruncatesLog, PassesOn,
         writeSerializedRequest, outputFilterHandler2, writeDifferences, RecordWritten, PassesAgain,
         Finishes, OnlyRequest, writeDifferencesThrows, WritesRecord
    <3>2. \/ UNCHANGED rq
          \/ t \in Serving /\ \E y : Becomes(t, y) /\ Reads(y, Request(t), Migrates)
      BY <2>5, ReadsStep, Zenon
    <3> QED BY <2>1, <2>2, <3>1, <3>2, Zenon DEF Migrates
  <2>6. ASSUME NEW t \in Threads, Wakes(t) PROVE RequestInv'
    BY <2>1, <2>6, Zenon DEF Wakes, Migrates
  <2>7. ASSUME NEW p \in Processes, Crash(p) PROVE RequestInv'
    BY <2>1, <2>7, Zenon DEF Crash, Migrates
  <2> QED BY <2>3, <2>4, <2>5, <2>6, <2>7, Zenon DEF Next
<1> QED BY <1>1, <1>2, PTL DEF Spec

\* What the invariant says to the handler of a duplicate.
LEMMA RestoredIs ==
    ASSUME NEW q, IsRequest(q), WellFormed(q), NEW m, NEW x, Reads(x, q, m),
           NEW sent, sent = IF IsDuplicate(x) THEN q.body ELSE q.text
    PROVE  /\ ~x.cut => IsPrefix(x.got, sent) /\ (x.eos => x.got = sent)
           /\ x.error => x.failed \/ x.cut
<1>1. q.text \in Seq(Range(q.text)) /\ q.body \in Seq(Range(q.body))
  BY Zenon DEF IsRequest
<1>2. IsPrefix(<<>>, q.text) /\ IsPrefix(<<>>, q.body)
  <2>1. ASSUME NEW C, NEW s \in Seq(C) PROVE IsPrefix(<<>>, s)
    <3>1. <<>> \in Seq(C) /\ <<>> \o s = s
      BY ConcatEmptySeq
    <3>2. IsPrefix(<<>>, <<>> \o s)
      BY <3>1, PrefixOf, Zenon
    <3> QED BY <3>1, <3>2, Zenon
  <2> QED BY <1>1, <2>1, Zenon
<1>3. IsDuplicate(x) <=> IsDuplicate(q)
  BY Zenon DEF Reads, Unmarked
<1>4. CASE NothingGiven(x)
  BY <1>2, <1>4, Zenon DEF NothingGiven
<1>5. CASE ~IsDuplicate(q) /\ Passing(x, q)
  <2> DEFINE R == Rest(x)
             g == x.got
             C == Range(q.text)
  <2>1. ~x.cut => g \o R = q.text /\ (x.eos => g = q.text)
    BY <1>5, Zenon DEF Passing
  <2>2. g \in Seq(C) /\ R \in Seq(C)
    <3>1. Streaming(x, C)
      BY Zenon DEF Reads
    <3> HIDE DEF C
    <3>2. GivenBack(x.mig.body, x.mig.ctx) \in Seq(C)
      <4> DEFINE L == Len(x.mig.body)
                 k == x.mig.ctx
                 s == x.mig.body
      <4>1. s \in Seq(C) /\ k \in -1 .. L /\ L \in Nat /\ L = Len(s)
        BY <3>1 DEF Streaming
      <4> HIDE DEF L, k, s
      <4>2. k # -1 => k \in 0 .. Len(s)
        BY <4>1
      <4>3. k # -1 => SubSeq(s, k + 1, Len(s)) \in Seq(C)
        BY <4>1, <4>2, SplitAt, Zenon
      <4>4. <<>> \in Seq(C)
        OBVIOUS
      <4>5. GivenBack(s, k) \in Seq(C)
        BY <4>3, <4>4, Zenon DEF GivenBack
      <4> QED BY <4>5 DEF s, k
    <3>3. g \in Seq(C) /\ x.net \in Seq(C)
      BY <3>1, Zenon DEF Streaming
    <3>4. GivenBack(x.mig.body, x.mig.ctx) \o x.net \in Seq(C)
      BY <3>2, <3>3, TwoParts, Zenon
    <3> QED BY <3>3, <3>4, Zenon DEF Rest
  <2> HIDE DEF R, g, C
  <2>3. IsPrefix(g, g \o R)
    BY <2>2, PrefixOf, Zenon
  <2>4. sent = q.text /\ (x.error => x.failed \/ x.cut)
    BY <1>3, <1>5, Zenon DEF Passing
  <2> QED BY <2>1, <2>3, <2>4, Zenon DEF g
<1>6. CASE IsDuplicate(q) /\ Reinjecting(x, q)
  <2>1. sent = q.body
    BY <1>3, <1>6, Zenon
  <2>2. x.error => x.failed \/ x.cut
    BY <1>6, Zenon DEF Reinjecting
  <2>3. ASSUME ~x.cut PROVE IsPrefix(x.got, q.body) /\ (x.eos => x.got = q.body)
    <3> DEFINE s == q.body
               k == x.info.offset
               C == Range(q.body)
    <3>1. x.info.mReqBody = s /\ x.got = SubSeq(s, 1, k) /\ (x.eos => k = Len(s))
      BY <1>6, <2>3, Zenon DEF Reinjecting
    <3>2. s \in Seq(C) /\ k \in 0 .. Len(s)
      BY <1>1, <3>1, Zenon DEF Reads, Streaming
    <3> HIDE DEF s, k, C
    <3>3. IsPrefix(SubSeq(s, 1, k), s) /\ SubSeq(s, 1, Len(s)) = s
      BY <3>2, PrefixCut, SubSeqFull
    <3>4. IsPrefix(x.got, s) /\ (x.eos => x.got = s)
      BY <3>1, <3>3, Zenon
    <3> QED BY <3>4, Zenon DEF s
  <2> QED BY <2>1, <2>2, <2>3, Zenon
<1>7. NothingGiven(x) \/ (~IsDuplicate(q) /\ Passing(x, q)) \/ (IsDuplicate(q) /\ Reinjecting(x, q))
  BY Zenon DEF Reads, Translating, Collecting
<1> QED BY <1>4, <1>5, <1>6, <1>7, Zenon

\* The handler behind mod_compare reads the body of the original request,
\* whole when it is told so, however the brigades of the network, mod_migrate
\* and inputFilterHandler were cut, and the method and the headers are those of
\* the original request (RequestRestored). Reads may fail and be repeated; of the
\* body nothing is said once extractBrigadeContent took a failure for the end.
THEOREM RequestIsRestored == Spec => []RequestRestored
<1>1. RequestInv => RequestRestored
  <2> SUFFICES ASSUME RequestInv PROVE RequestRestored
    OBVIOUS
  <2>1. ASSUME NEW t \in Serving, NEW x, x = rq[t], NEW q, q = Request(t), WellFormed(q),
               NEW sent, sent = IF IsDuplicate(x) THEN q.body ELSE q.text
        PROVE  /\ ~x.cut => IsPrefix(x.got, sent) /\ (x.eos => x.got = sent)
               /\ x.error => x.failed \/ x.cut
               /\ x.info.present =>
                /\ "X_DUP_METHOD" \in DOMAIN q.headers /\ q.headers["X_DUP_METHOD"] \in Methods
                    => x.method = q.headers["X_DUP_METHOD"]
                /\ {"X_DUP_METHOD", "X_DUP_HTTP_STATUS", "X_DUP_CONTENT_TYPE"} \cap DOMAIN x.headers = {}
    <3> DEFINE m == Migrates
    <3>1. Reads(x, q, m)
      BY <2>1, Zenon DEF RequestInv
    <3>2. IsRequest(q)
      BY <2>1, CompareAssumption, Zenon DEF RequestInv, Request, Serving
    <3> HIDE DEF m
    <3>3. /\ ~x.cut => IsPrefix(x.got, sent) /\ (x.eos => x.got = sent)
          /\ x.error => x.failed \/ x.cut
      BY <2>1, <3>1, <3>2, RestoredIs
    <3>4. Unmarked(x, q)
      BY <3>1, Zenon DEF Reads
    <3> QED BY <3>3, <3>4, Zenon DEF Unmarked, DupMarks
  <2> QED BY <2>1, Zenon DEF RequestRestored
<1> QED BY <1>1, RequestInvariant, PTL

-----------------------------------------------------------------------------
(* The variables that mod_migrate sets: what enrichContext computes.       *)

\* e holds the variables after each of the first w texts.
Enriches(e, rules, info, w) ==
    e = [n \in 0 .. w |-> IF n = 0 THEN <<>> ELSE setNthVar(e[n - 1], rules, info, n)]

LEMMA EnrichesExists ==
    ASSUME NEW rules, NEW info, NEW w \in Nat
    PROVE  \E e : Enriches(e, rules, info, w)
<1> DEFINE Exists(n) == \E e : Enriches(e, rules, info, n)
           T == {n \in 0 .. w : Exists(n)}
<1>1. 0 \in T
  <2>1. Enriches([n \in 0 .. 0 |-> <<>>], rules, info, 0)
    BY DEF Enriches
  <2>2. 0 \in 0 .. w
    OBVIOUS
  <2> QED BY <2>1, <2>2, Zenon
<1>2. ASSUME NEW k \in 1 .. w, k - 1 \in T PROVE k \in T
  <2>1. PICK e : Enriches(e, rules, info, k - 1)
    BY <1>2, Zenon
  <2> DEFINE g == [n \in 0 .. k |-> IF n < k THEN e[n] ELSE setNthVar(e[n - 1], rules, info, n)]
  <2>2. k \in Nat \ {0} /\ k \in 0 .. w
    BY <1>2
  <2>3. ASSUME NEW n \in 0 .. k PROVE g[n] = IF n = 0 THEN <<>> ELSE setNthVar(g[n - 1], rules, info, n)
    <3>1. n = 0 \/ (n - 1 \in 0 .. k /\ n - 1 < k)
      BY <2>2, <2>3
    <3>2. n = 0 \/ g[n - 1] = e[n - 1]
      BY <3>1
    <3>3. CASE n < k
      <4>1. n \in 0 .. k - 1 /\ g[n] = e[n]
        BY <2>2, <3>3
      <4>2. e[n] = IF n = 0 THEN <<>> ELSE setNthVar(e[n - 1], rules, info, n)
        BY <2>1, <4>1 DEF Enriches
      <4> QED BY <3>2, <4>1, <4>2
    <3>4. CASE ~(n < k)
      <4>1. g[n] = setNthVar(e[n - 1], rules, info, n) /\ n # 0
        BY <2>2, <3>4
      <4> QED BY <3>2, <4>1
    <3> QED BY <3>3, <3>4
  <2>4. g = [n \in 0 .. k |-> g[n]]
    OBVIOUS
  <2> HIDE DEF g
  <2>5. Enriches(g, rules, info, k)
    BY <2>3, <2>4 DEF Enriches
  <2> QED BY <2>2, <2>5, Zenon
<1> HIDE DEF T
<1>3. \A k \in 0 .. w : k \in T
  BY <1>1, <1>2, UpTo
<1>4. w \in T
  BY <1>3
<1> QED BY <1>4 DEF T

\* Of the texts that all the rules look at, n is the place of text m[2] of rule m[1].
Place(m) == 3 * (m[1] - 1) + m[2]

LEMMA Places ==
    ASSUME NEW L \in Nat
    PROVE  /\ \A m \in (1 .. L) \X (1 .. 3) :
                /\ Place(m) \in 1 .. 3 * L
                /\ ((Place(m) - 1) \div 3) + 1 = m[1] /\ ((Place(m) - 1) % 3) + 1 = m[2]
                /\ 3 * m[1] + m[2] = Place(m) + 3
           /\ \A n \in 1 .. 3 * L : \E m \in (1 .. L) \X (1 .. 3) : n = Place(m)
<1>1. ASSUME NEW m \in (1 .. L) \X (1 .. 3)
      PROVE  /\ Place(m) \in 1 .. 3 * L
             /\ ((Place(m) - 1) \div 3) + 1 = m[1] /\ ((Place(m) - 1) % 3) + 1 = m[2]
             /\ 3 * m[1] + m[2] = Place(m) + 3
  <2>1. PICK a \in 1 .. L, b \in 1 .. 3 : m = <<a, b>>
    BY <1>1
  <2>2. Place(m) = 3 * (a - 1) + b /\ m[1] = a /\ m[2] = b
    BY <2>1 DEF Place
  <2> QED BY <2>2
<1>2. ASSUME NEW n \in 1 .. 3 * L PROVE \E m \in (1 .. L) \X (1 .. 3) : n = Place(m)
  <2> DEFINE a == ((n - 1) \div 3) + 1
             b == ((n - 1) % 3) + 1
  <2>1. a \in 1 .. L /\ b \in 1 .. 3 /\ n = 3 * (a - 1) + b
    OBVIOUS
  <2> HIDE DEF a, b
  <2>2. Place(<<a, b>>) = n /\ <<a, b>> \in (1 .. L) \X (1 .. 3)
    BY <2>1 DEF Place
  <2> QED BY <2>2, Zenon
<1> QED BY <1>1, <1>2, Zenon

\* The rules and texts up to the n-th with something for a variable.
SettersUpTo(texts, rules, v, n) == {m \in EnvSetters(texts, rules, v) : Place(m) <= n}

ValueOf(texts, rules, m) ==
    [k \in 1 .. Cardinality(EnvPlaces(texts, rules[m[1]], m[2])) |-> rules[m[1]].value]

Latest(S, m) == m \in S /\ \A n \in S : Place(n) <= Place(m)

EnvAfter(texts, rules, n, env) ==
    /\ env = [v \in DOMAIN env |-> env[v]]
    /\ \A v : v \in DOMAIN env <=> SettersUpTo(texts, rules, v, n) # {}
    /\ \A v \in DOMAIN env : \E m : /\ Latest(SettersUpTo(texts, rules, v, n), m)
                                    /\ env[v] = ValueOf(texts, rules, m)

\* What mod_migrate is given.
InfoOf(texts) == [args |-> texts[1], body |-> texts[2], header |-> texts[3]]
FiniteTexts(texts) == \A i \in 1 .. 3 : IsFiniteSet(DOMAIN texts[i])

\* One text: a variable is set if something was found, to one value for each place.
SetsOne(texts, rules, m, env, after) ==
    LET rule == rules[m[1]]
    IN IF EnvPlaces(texts, rule, m[2]) = {} THEN after = env
       ELSE after = [v \in DOMAIN env \cup {rule.var} |->
                        IF v = rule.var THEN ValueOf(texts, rules, m) ELSE env[v]]

LEMMA setNthVarIs ==
    ASSUME NEW rules, NEW L \in Nat, NEW texts, FiniteTexts(texts), NEW m \in (1 .. L) \X (1 .. 3), NEW env,
           NEW after, after = setNthVar(env, rules, InfoOf(texts), Place(m))
    PROVE  SetsOne(texts, rules, m, env, after)
<1> DEFINE i == m[2]
           rule == rules[m[1]]
           S == EnvPlaces(texts, rule, i)
           text == TextsOf(InfoOf(texts), rule)[i]
           found == {k \in DOMAIN text : text[k] \in rule.re}
           toSet == Replaced(text, rule)
<1>1. ((Place(m) - 1) \div 3) + 1 = m[1] /\ ((Place(m) - 1) % 3) + 1 = m[2]
  BY Places, Zenon
<1>2. after = setEnvVar(env, rule, toSet)
  BY <1>1 DEF setNthVar
<1>3. i \in 1 .. 3
  OBVIOUS
<1>4. text = IF EnvScopes[i] \in rule.scope THEN texts[i] ELSE <<>>
  <2>1. InfoOf(texts).args = texts[1] /\ InfoOf(texts).body = texts[2] /\ InfoOf(texts).header = texts[3]
    BY DEF InfoOf
  <2> HIDE DEF i
  <2>2. i = 1 \/ i = 2 \/ i = 3
    BY <1>3
  <2> QED BY <2>1, <2>2 DEF TextsOf, EnvScopes
<1>5. found = S
  <2>1. CASE EnvScopes[i] \in rule.scope
    BY <1>4, <2>1, Zenon DEF EnvPlaces
  <2>2. CASE EnvScopes[i] \notin rule.scope
    <3>1. text = <<>>
      BY <1>4, <2>2
    <3> HIDE DEF text
    <3>2. DOMAIN text = {}
      BY <3>1
    <3>3. found = {}
      BY <3>2, Zenon
    <3> QED BY <2>2, <3>3, Zenon DEF EnvPlaces
  <2> QED BY <2>1, <2>2, Zenon
<1>6. toSet = [k \in 1 .. Cardinality(S) |-> rule.value]
  BY <1>5, Zenon DEF Replaced
<1>7. IsFiniteSet(S) /\ Cardinality(S) \in Nat /\ (Cardinality(S) = 0 <=> S = {})
  <2>1. IsFiniteSet(DOMAIN texts[i])
    BY <1>3, Zenon DEF FiniteTexts
  <2>2. S \subseteq DOMAIN texts[i]
    BY Zenon DEF EnvPlaces
  <2>3. IsFiniteSet(S)
    BY <2>1, <2>2, FS_Subset
  <2> QED BY <2>3, FS_CardinalityType, FS_EmptySet
<1>8. toSet = <<>> <=> S = {}
  <2> HIDE DEF toSet
  <2>1. toSet = <<>> => Cardinality(S) = 0
    BY <1>6, <1>7
  <2>2. Cardinality(S) = 0 => toSet = <<>>
    BY <1>6, <1>7
  <2> QED BY <1>7, <2>1, <2>2
<1>9. toSet = ValueOf(texts, rules, m)
  BY <1>6, Zenon DEF ValueOf
<1> HIDE DEF toSet
<1> QED BY <1>2, <1>8, <1>9, Zenon DEF setEnvVar, SetsOne

LEMMA EnvAfterNext ==
    ASSUME NEW rules, NEW L \in Nat, DOMAIN rules = 1 .. L, NEW texts, FiniteTexts(texts),
           NEW m \in (1 .. L) \X (1 .. 3), NEW env, EnvAfter(texts, rules, Place(m) - 1, env),
           NEW after, after = setNthVar(env, rules, InfoOf(texts), Place(m))
    PROVE  EnvAfter(texts, rules, Place(m), after)
<1> DEFINE rule == rules[m[1]]
           S == EnvPlaces(texts, rule, m[2])
           Old(v) == SettersUpTo(texts, rules, v, Place(m) - 1)
           New(v) == SettersUpTo(texts, rules, v, Place(m))
           Set == [v \in DOMAIN env \cup {rule.var} |-> IF v = rule.var THEN ValueOf(texts, rules, m) ELSE env[v]]
<1>1. (S = {} => after = env) /\ (S # {} => after = Set)
  <2>1. SetsOne(texts, rules, m, env, after)
    BY setNthVarIs
  <2> QED BY <2>1, Zenon DEF SetsOne
<1>2. Place(m) \in Nat /\ \A k \in (1 .. L) \X (1 .. 3) : Place(k) \in Nat /\ (Place(k) = Place(m) => k = m)
  <2>1. \A k \in (1 .. L) \X (1 .. 3) : Place(k) \in 1 .. 3 * L
    BY Places, Zenon
  <2>2. ASSUME NEW k \in (1 .. L) \X (1 .. 3), Place(k) = Place(m) PROVE k = m
    <3>1. m[1] = k[1] /\ m[2] = k[2]
      <4>1. /\ ((Place(k) - 1) \div 3) + 1 = k[1] /\ ((Place(k) - 1) % 3) + 1 = k[2]
            /\ ((Place(m) - 1) \div 3) + 1 = m[1] /\ ((Place(m) - 1) % 3) + 1 = m[2]
        BY Places, Zenon
      <4> QED BY <2>2, <4>1, Zenon
    <3> QED BY <3>1
  <2> QED BY <2>1, <2>2
<1>3. ASSUME NEW v
      PROVE  /\ S = {} \/ v # rule.var => New(v) = Old(v)
             /\ S # {} /\ v = rule.var => m \in New(v)
             /\ New(v) \subseteq (1 .. L) \X (1 .. 3)
  <2>1. EnvSetters(texts, rules, v) \subseteq (1 .. L) \X (1 .. 3)
    BY DEF EnvSetters
  <2>2. m \in EnvSetters(texts, rules, v) <=> v = rule.var /\ S # {}
    BY DEF EnvSetters
  <2> HIDE DEF S, rule
  <2>3. \A k \in EnvSetters(texts, rules, v) : k # m => (Place(k) <= Place(m) <=> Place(k) <= Place(m) - 1)
    BY <1>2, <2>1
  <2>4. (m \notin EnvSetters(texts, rules, v)) => New(v) = Old(v)
    BY <2>3 DEF SettersUpTo
  <2>5. Place(m) <= Place(m)
    BY <1>2
  <2> QED BY <2>1, <2>2, <2>4, <2>5, Zenon DEF SettersUpTo
<1>4. /\ env = [v \in DOMAIN env |-> env[v]]
      /\ \A v : v \in DOMAIN env <=> Old(v) # {}
      /\ \A v \in DOMAIN env : \E k : Latest(Old(v), k) /\ env[v] = ValueOf(texts, rules, k)
  BY Zenon DEF EnvAfter
<1>5. CASE S = {}
  <2>1. after = env /\ \A v : New(v) = Old(v)
    BY <1>1, <1>3, <1>5, Zenon
  <2> HIDE DEF Old, New
  <2>2. /\ after = [v \in DOMAIN after |-> after[v]]
        /\ \A v : v \in DOMAIN after <=> New(v) # {}
        /\ \A v \in DOMAIN after : \E k : Latest(New(v), k) /\ after[v] = ValueOf(texts, rules, k)
    BY <1>4, <2>1, Zenon
  <2> QED BY <2>2, Zenon DEF EnvAfter, New
<1>6. CASE S # {}
  <2>1. after = Set
    BY <1>1, <1>6, Zenon
  <2>2. /\ DOMAIN after = DOMAIN env \cup {rule.var} /\ after = [v \in DOMAIN after |-> after[v]]
        /\ after[rule.var] = ValueOf(texts, rules, m)
        /\ \A v \in DOMAIN env : v # rule.var => after[v] = env[v]
    <3> HIDE DEF rule
    <3> QED BY <2>1
  <2>3. Latest(New(rule.var), m)
    <3>1. m \in New(rule.var)
      BY <1>3, <1>6, Zenon
    <3>2. \A k \in New(rule.var) : Place(k) <= Place(m)
      BY DEF SettersUpTo
    <3> QED BY <3>1, <3>2, Zenon DEF Latest
  <2>4. \A v : v # rule.var => New(v) = Old(v)
    BY <1>3, Zenon
  <2>5. m \in New(rule.var)
    BY <2>3, Zenon DEF Latest
  <2> HIDE DEF New, Old, rule
  <2>6. \A v : v \in DOMAIN after <=> New(v) # {}
    <3>1. ASSUME NEW v, v = rule.var PROVE v \in DOMAIN after /\ New(v) # {}
      BY <2>2, <2>5, <3>1
    <3>2. ASSUME NEW v, v # rule.var PROVE v \in DOMAIN after <=> New(v) # {}
      BY <1>4, <2>2, <2>4, <3>2
    <3> QED BY <3>1, <3>2
  <2>7. \A v \in DOMAIN after : \E k : Latest(New(v), k) /\ after[v] = ValueOf(texts, rules, k)
    <3>1. ASSUME NEW v \in DOMAIN after, v = rule.var
          PROVE  \E k : Latest(New(v), k) /\ after[v] = ValueOf(texts, rules, k)
      BY <2>2, <2>3, <3>1, Zenon
    <3>2. ASSUME NEW v \in DOMAIN after, v # rule.var
          PROVE  \E k : Latest(New(v), k) /\ after[v] = ValueOf(texts, rules, k)
      <4>1. v \in DOMAIN env /\ New(v) = Old(v) /\ after[v] = env[v]
        BY <2>2, <2>4, <3>2
      <4> QED BY <1>4, <4>1, Zenon
    <3> QED BY <3>1, <3>2, Zenon
  <2> QED BY <2>2, <2>6, <2>7, Zenon DEF EnvAfter, New
<1> QED BY <1>5, <1>6

\* The reference: the last rule and text with a match count.
LEMMA enrichContextIs ==
    ASSUME NEW S, NEW rules \in Seq(S), NEW texts, FiniteTexts(texts)
    PROVE  EnvOf(texts, rules, enrichContext(rules, InfoOf(texts)))
<1> DEFINE L == Len(rules)
           w == 3 * L
           info == InfoOf(texts)
           e == CHOOSE f : Enriches(f, rules, info, w)
           T == {n \in 0 .. w : EnvAfter(texts, rules, n, e[n])}
           env == e[w]
<1>1. L \in Nat /\ DOMAIN rules = 1 .. L /\ w \in Nat
  OBVIOUS
<1>2. env = enrichContext(rules, info)
  BY Zenon DEF enrichContext, Enriches
<1>3. Enriches(e, rules, info, w)
  <2>1. \E f : Enriches(f, rules, info, w)
    <3> HIDE DEF w, info
    <3> QED BY <1>1, EnrichesExists
  <2> QED BY <2>1, Zenon
<1> HIDE DEF e, L
<1>4. e[0] = <<>> /\ \A n \in 1 .. w : e[n] = setNthVar(e[n - 1], rules, info, n)
  <2> HIDE DEF info
  <2> QED BY <1>1, <1>3 DEF Enriches
<1>5. 0 \in T
  <2>1. \A v : SettersUpTo(texts, rules, v, 0) = {}
    <3>1. ASSUME NEW v, NEW m \in EnvSetters(texts, rules, v) PROVE ~(Place(m) <= 0)
      <4>1. m \in (1 .. L) \X (1 .. 3)
        BY <1>1 DEF EnvSetters
      <4>2. Place(m) \in 1 .. 3 * L
        BY <1>1, <4>1, Places, Zenon
      <4> QED BY <1>1, <4>2
    <3> QED BY <3>1 DEF SettersUpTo
  <2>2. DOMAIN <<>> = {} /\ <<>> = [v \in DOMAIN <<>> |-> <<>>[v]]
    OBVIOUS
  <2>3. EnvAfter(texts, rules, 0, <<>>)
    BY <2>1, <2>2, Zenon DEF EnvAfter
  <2>4. 0 \in 0 .. w
    BY <1>1
  <2> QED BY <1>4, <2>3, <2>4, Zenon
<1>6. ASSUME NEW n \in 1 .. w, n - 1 \in T PROVE n \in T
  <2>1. PICK m \in (1 .. L) \X (1 .. 3) : n = Place(m)
    BY <1>1, Places, Zenon
  <2>2. EnvAfter(texts, rules, Place(m) - 1, e[n - 1])
    BY <1>6, <2>1, Zenon
  <2>3. e[n] = setNthVar(e[n - 1], rules, InfoOf(texts), Place(m))
    BY <1>4, <2>1, Zenon
  <2>4. EnvAfter(texts, rules, Place(m), e[n])
    BY <1>1, <2>2, <2>3, EnvAfterNext
  <2>5. n \in 0 .. w
    BY <1>1, <1>6
  <2> QED BY <2>1, <2>4, <2>5, Zenon
<1> HIDE DEF T
<1>7. \A n \in 0 .. w : n \in T
  BY <1>1, <1>5, <1>6, UpTo
<1>8. w \in T
  BY <1>1, <1>7
<1>9. EnvAfter(texts, rules, w, env)
  BY <1>8, Zenon DEF T
<1> HIDE DEF env
<1>10. \A v : SettersUpTo(texts, rules, v, w) = EnvSetters(texts, rules, v)
  <2>1. ASSUME NEW v, NEW m \in EnvSetters(texts, rules, v) PROVE Place(m) <= w
    <3>1. m \in (1 .. L) \X (1 .. 3)
      BY <1>1 DEF EnvSetters
    <3>2. Place(m) \in 1 .. 3 * L
      BY <1>1, <3>1, Places, Zenon
    <3> QED BY <1>1, <3>2
  <2> QED BY <2>1 DEF SettersUpTo
<1>11. DOMAIN env = {rules[i].var : i \in {j \in DOMAIN rules : EnvSetters(texts, rules, rules[j].var) # {}}}
  <2>1. \A v : v \in DOMAIN env <=> EnvSetters(texts, rules, v) # {}
    BY <1>9, <1>10, Zenon DEF EnvAfter
  <2>2. ASSUME NEW v, NEW m \in EnvSetters(texts, rules, v) PROVE m[1] \in DOMAIN rules /\ rules[m[1]].var = v
    BY DEF EnvSetters
  <2>3. ASSUME NEW v, EnvSetters(texts, rules, v) # {}
        PROVE  \E i \in {j \in DOMAIN rules : EnvSetters(texts, rules, rules[j].var) # {}} : v = rules[i].var
    <3>1. PICK m \in EnvSetters(texts, rules, v) : TRUE
      BY <2>3
    <3>2. m[1] \in DOMAIN rules /\ rules[m[1]].var = v
      BY <2>2
    <3> QED BY <2>3, <3>2, Zenon
  <2> QED BY <2>1, <2>3, Zenon
<1>12. ASSUME NEW v \in DOMAIN env
       PROVE  \E m \in EnvSetters(texts, rules, v) :
                /\ \A n \in EnvSetters(texts, rules, v) : 3 * n[1] + n[2] <= 3 * m[1] + m[2]
                /\ env[v] = [k \in 1 .. Cardinality(EnvPlaces(texts, rules[m[1]], m[2])) |-> rules[m[1]].value]
  <2> DEFINE M == EnvSetters(texts, rules, v)
  <2>1. PICK m : Latest(M, m) /\ env[v] = ValueOf(texts, rules, m)
    BY <1>9, <1>10, <1>12, Zenon DEF EnvAfter
  <2>2. M \subseteq (1 .. L) \X (1 .. 3)
    BY <1>1 DEF EnvSetters
  <2>3. \A n \in M : 3 * n[1] + n[2] = Place(n) + 3 /\ Place(n) \in 1 .. 3 * L
    BY <1>1, <2>2, Places, Zenon
  <2> HIDE DEF M
  <2>4. m \in M /\ \A n \in M : Place(n) <= Place(m)
    BY <2>1, Zenon DEF Latest
  <2>5. \A n \in M : 3 * n[1] + n[2] <= 3 * m[1] + m[2]
    BY <1>1, <2>3, <2>4
  <2> QED BY <2>1, <2>4, <2>5, Zenon DEF ValueOf, M
<1>13. EnvOf(texts, rules, env)
  BY <1>11, <1>12, Zenon DEF EnvOf
<1> QED BY <1>2, <1>13, Zenon

-----------------------------------------------------------------------------
(* The variables are set once, from the whole request.                     *)

EnvShape(x) == ReadFields \subseteq DOMAIN x /\ "read" \in DOMAIN x.mig

\* From x to y the variables stay.
Fixed(x, y) == EnvShape(y) /\ y.env = x.env /\ y.mig.read = x.mig.read /\ (x.cut => y.cut)

LEMMA NetBrigadesFix ==
    ASSUME NEW x, EnvShape(x), NEW n, NEW r \in NetBrigades(x, n)
    PROVE  Fixed(x, r.x) /\ r.x.pc = x.pc
<1>1. \/ \E s : r.x = [x EXCEPT !.net = s]
      \/ r.x = [x EXCEPT !.failed = TRUE]
  <2>1. \/ \E c : r = [ok |-> TRUE, data |-> SubSeq(x.net, 1, c.cells), eos |-> c.eos,
                       x |-> [x EXCEPT !.net = SubSeq(@, c.cells + 1, Len(@))]]
        \/ r = [ok |-> FALSE, data |-> <<>>, eos |-> FALSE, x |-> [x EXCEPT !.failed = TRUE]]
    BY Zenon DEF NetBrigades
  <2>2. CASE \E c : r = [ok |-> TRUE, data |-> SubSeq(x.net, 1, c.cells), eos |-> c.eos,
                         x |-> [x EXCEPT !.net = SubSeq(@, c.cells + 1, Len(@))]]
    <3>1. PICK c : r = [ok |-> TRUE, data |-> SubSeq(x.net, 1, c.cells), eos |-> c.eos,
                        x |-> [x EXCEPT !.net = SubSeq(@, c.cells + 1, Len(@))]]
      BY <2>2
    <3>2. r.x = [x EXCEPT !.net = SubSeq(x.net, c.cells + 1, Len(x.net))]
      BY <3>1
    <3> QED BY <3>2, Zenon
  <2>3. CASE r = [ok |-> FALSE, data |-> <<>>, eos |-> FALSE, x |-> [x EXCEPT !.failed = TRUE]]
    BY <2>3
  <2> QED BY <2>1, <2>2, <2>3, Zenon
<1>2. ASSUME NEW s, r.x = [x EXCEPT !.net = s] PROVE Fixed(x, r.x) /\ r.x.pc = x.pc
  BY <1>2 DEF Fixed, EnvShape, ReadFields
<1>3. CASE r.x = [x EXCEPT !.failed = TRUE]
  BY <1>3 DEF Fixed, EnvShape, ReadFields
<1> QED BY <1>1, <1>2, <1>3, Zenon

LEMMA FixedChain ==
    ASSUME NEW x, NEW y, NEW z, Fixed(x, y), Fixed(y, z)
    PROVE  Fixed(x, z)
BY Zenon DEF Fixed

LEMMA BrigadesFix ==
    ASSUME NEW x, EnvShape(x), NEW n, NEW r \in Brigades(x, n)
    PROVE  Fixed(x, r.x) /\ r.x.pc = x.pc
<1> DEFINE b == inputFilterBody2Brigade(x.mig.body, x.mig.ctx, n)
           y == [x EXCEPT !.mig.ctx = b.ctx]
<1>1. \/ r \in NetBrigades(x, n)
      \/ r = [ok |-> TRUE, data |-> b.data, eos |-> FALSE, x |-> y]
      \/ \E s \in NetBrigades(y, n) : r = [s EXCEPT !.data = IF s.ok THEN b.data \o @ ELSE @,
                                                     !.x.cut = @ \/ (~s.ok /\ b.data # <<>>)]
  BY Zenon DEF Brigades
<1> HIDE DEF b
<1>2. Fixed(x, y) /\ y.pc = x.pc
  BY DEF Fixed, EnvShape, ReadFields
<1> HIDE DEF y
<1>3. CASE r = [ok |-> TRUE, data |-> b.data, eos |-> FALSE, x |-> y]
  <2>1. r.x = y
    BY <1>3
  <2> QED BY <1>2, <2>1
<1>4. ASSUME NEW s \in NetBrigades(y, n),
             r = [s EXCEPT !.data = IF s.ok THEN b.data \o @ ELSE @,
                           !.x.cut = @ \/ (~s.ok /\ b.data # <<>>)]
      PROVE  Fixed(x, r.x) /\ r.x.pc = x.pc
  <2> DEFINE both == IF s.ok THEN b.data \o s.data ELSE s.data
             c == s.x.cut \/ (~s.ok /\ b.data # <<>>)
  <2>0. s.x.cut => c
    OBVIOUS
  <2>1. r.x = [s.x EXCEPT !.cut = c]
    <3>1. "x" \in DOMAIN s
      BY <1>4 DEF NetBrigades
    <3>2. r = [s EXCEPT !.data = both, !.x.cut = c]
      BY <1>4
    <3> HIDE DEF c, both
    <3> QED BY <3>1, <3>2
  <2> HIDE DEF c, both
  <2>2. EnvShape(y)
    BY <1>2, Zenon DEF Fixed
  <2>3. Fixed(y, s.x) /\ s.x.pc = y.pc
    BY <1>4, <2>2, NetBrigadesFix
  <2>4. Fixed(s.x, r.x) /\ r.x.pc = s.x.pc
    <3>1. EnvShape(s.x)
      BY <2>3, Zenon DEF Fixed
    <3> QED BY <2>0, <2>1, <3>1 DEF Fixed, EnvShape, ReadFields
  <2> QED BY <1>2, <2>3, <2>4, FixedChain, Zenon
<1> QED BY <1>1, <1>3, <1>4, NetBrigadesFix, Zenon

\* The request after an extraction is that of a brigade, but for the history.
ButForTheHistory(x, y) == \E c : y = [x EXCEPT !.cut = c] /\ (x.cut => c)

LEMMA ExtractedFrom ==
    ASSUME NEW brigades, NEW e \in extractBrigadeContent(brigades)
    PROVE  \E r \in brigades : ButForTheHistory(r.x, e.x)
<1>1. PICK r \in brigades :
        e \in {[data |-> SubSeq(r.data, 1, k), done |-> ~r.ok \/ r.eos \/ k < Len(r.data),
               x |-> [r.x EXCEPT !.cut = @ \/ ~r.ok \/ k < Len(r.data)]] : k \in Readable(r)}
  BY Zenon DEF extractBrigadeContent
<1>2. PICK k \in Readable(r) :
        e = [data |-> SubSeq(r.data, 1, k), done |-> ~r.ok \/ r.eos \/ k < Len(r.data),
             x |-> [r.x EXCEPT !.cut = @ \/ ~r.ok \/ k < Len(r.data)]]
  BY <1>1, Zenon
<1> DEFINE c == r.x.cut \/ ~r.ok \/ k < Len(r.data)
<1>3. r.x.cut => c
  OBVIOUS
<1>4. e.x = [r.x EXCEPT !.cut = c]
  <2>1. e = [data |-> SubSeq(r.data, 1, k), done |-> ~r.ok \/ r.eos \/ k < Len(r.data),
             x |-> [r.x EXCEPT !.cut = c]]
    BY <1>2
  <2> HIDE DEF c
  <2> QED BY <2>1, Zenon
<1> HIDE DEF c
<1> QED BY <1>3, <1>4, Zenon DEF ButForTheHistory

LEMMA ExtractedFix ==
    ASSUME NEW x, NEW brigades, \A r \in brigades : Fixed(x, r.x) /\ r.x.pc = x.pc,
           NEW e \in extractBrigadeContent(brigades)
    PROVE  Fixed(x, e.x) /\ e.x.pc = x.pc
<1>1. PICK r \in brigades : ButForTheHistory(r.x, e.x)
  BY ExtractedFrom, Zenon
<1>2. PICK c : e.x = [r.x EXCEPT !.cut = c] /\ (r.x.cut => c)
  BY <1>1, Zenon DEF ButForTheHistory
<1>3. Fixed(r.x, e.x) /\ e.x.pc = r.x.pc
  <2>1. EnvShape(r.x)
    BY Zenon DEF Fixed
  <2> QED BY <1>2, <2>1 DEF Fixed, EnvShape, ReadFields
<1> QED BY <1>3, FixedChain, Zenon

LEMMA DeliveredFix ==
    ASSUME NEW x, NEW r, Fixed(x, r.x), NEW y, y = Delivered(r)
    PROVE  Fixed(x, y) /\ y.pc = "handle"
<1>1. EnvShape(r.x)
  BY Zenon DEF Fixed
<1>2. Fixed(r.x, y) /\ y.pc = "handle"
  BY <1>1 DEF Fixed, EnvShape, ReadFields, Delivered
<1> QED BY <1>2, FixedChain

LEMMA ReinjectedFix ==
    ASSUME NEW x, EnvShape(x), NEW z \in Reinjected(x)
    PROVE  Fixed(x, z) /\ z.pc = "handle"
<1> DEFINE toSend == Min({Len(x.info.mReqBody) - x.info.offset, x.readbytes})
           y == [x EXCEPT !.info.offset = @ + toSend]
           r == [ok |-> TRUE,
                 data |-> SubSeq(x.info.mReqBody, x.info.offset + 1, x.info.offset + toSend),
                 eos |-> FALSE, x |-> y]
<1>1. z = Delivered(r) \/ \E s \in Brigades(x, x.readbytes) : z = Delivered(s)
  BY Zenon DEF Reinjected
<1> HIDE DEF toSend
<1>2. r.x = y
  OBVIOUS
<1>3. Fixed(x, y)
  BY DEF Fixed, EnvShape, ReadFields
<1> HIDE DEF y, r
<1>4. Fixed(x, r.x)
  BY <1>2, <1>3
<1>5. CASE z = Delivered(r)
  BY <1>4, <1>5, DeliveredFix
<1>6. ASSUME NEW s \in Brigades(x, x.readbytes), z = Delivered(s) PROVE Fixed(x, z) /\ z.pc = "handle"
  <2>1. Fixed(x, s.x)
    BY <1>6, BrigadesFix
  <2> QED BY <1>6, <2>1, DeliveredFix
<1> QED BY <1>1, <1>5, <1>6, Zenon

\* The input filters read, and do not touch the variables.
LEMMA inputFilterFix ==
    ASSUME NEW t \in Serving, EnvShape(rq[t]), inputFilterHandler(t)
    PROVE  \E y : Becomes(t, y) /\ Fixed(rq[t], y) /\ y.pc # "translate"
<1> DEFINE o == rq[t]
           X(n) == [o EXCEPT !.readbytes = n]
<1>1. PICK n \in ReadSizes :
        \E y \in IF ~IsDuplicate(X(n)) THEN {Delivered(r) : r \in Brigades(X(n), n)}
                 ELSE IF X(n).ictx = 1 THEN Reinjected(X(n))
                 ELSE {[IF X(n).info.present THEN X(n) ELSE initRequest(X(n)) EXCEPT !.pc = "extract"]} :
            Becomes(t, y)
  BY Zenon DEF inputFilterHandler
<1> DEFINE x == X(n)
<1>2. PICK y : /\ Becomes(t, y)
               /\ \/ \E r \in Brigades(x, n) : y = Delivered(r)
                  \/ y \in Reinjected(x)
                  \/ y = [x EXCEPT !.pc = "extract"]
                  \/ y = [initRequest(x) EXCEPT !.pc = "extract"]
  BY <1>1, Zenon
<1>3. Fixed(o, x)
  BY DEF Fixed, EnvShape, ReadFields
<1> HIDE DEF X, x, o
<1>4. EnvShape(x)
  BY <1>3, Zenon DEF Fixed
<1>5. ASSUME NEW r \in Brigades(x, n), y = Delivered(r) PROVE Fixed(x, y) /\ y.pc = "handle"
  <2>1. Fixed(x, r.x)
    BY <1>4, <1>5, BrigadesFix
  <2> QED BY <1>5, <2>1, DeliveredFix
<1>6. ASSUME y \in Reinjected(x) PROVE Fixed(x, y) /\ y.pc = "handle"
  BY <1>4, <1>6, ReinjectedFix
<1>7. ASSUME y = [x EXCEPT !.pc = "extract"] PROVE Fixed(x, y) /\ y.pc = "extract"
  BY <1>4, <1>7 DEF Fixed, EnvShape, ReadFields
<1>8. ASSUME y = [initRequest(x) EXCEPT !.pc = "extract"] PROVE Fixed(x, y) /\ y.pc = "extract"
  <2>1. PICK method, headers, info :
            initRequest(x) = [x EXCEPT !.method = method, !.headers = headers, !.info = info]
    BY Zenon DEF initRequest
  <2>2. y = [[x EXCEPT !.method = method, !.headers = headers, !.info = info] EXCEPT !.pc = "extract"]
    BY <1>8, <2>1, Zenon
  <2> QED BY <1>4, <2>2 DEF Fixed, EnvShape, ReadFields
<1>9. Fixed(x, y) /\ y.pc \in {"handle", "extract"}
  BY <1>2, <1>5, <1>6, <1>7, <1>8
<1>10. Fixed(o, y) /\ y.pc # "translate"
  BY <1>3, <1>9, FixedChain
<1> QED BY <1>2, <1>10, Zenon DEF o

LEMMA extractFix ==
    ASSUME NEW t \in Serving, EnvShape(rq[t]), Unpacks(t)
    PROVE  \E y : Becomes(t, y) /\ Fixed(rq[t], y) /\ y.pc # "translate"
<1> DEFINE o == rq[t]
           brigades == Brigades(o, CMaxBytes)
<1>1. PICK e \in extractBrigadeContent(brigades) :
        LET x == [e.x EXCEPT !.info.mBody = @ \o e.data]
        IN IF ~e.done THEN Becomes(t, x)
           ELSE \E parsed \in {deserializeBody(x.info.mBody)} : \E y \in {Unpacked(x, parsed)} :
                   IF y.error THEN Becomes(t, [y EXCEPT !.pc = "handle", !.readbytes = 0])
                   ELSE \E z \in Reinjected(y) : Becomes(t, z)
  BY Zenon DEF Unpacks
<1> DEFINE x == [e.x EXCEPT !.info.mBody = @ \o e.data]
<1>2. o.pc = "extract"
  BY DEF Unpacks, Running
<1>3. \/ Becomes(t, x)
      \/ \E parsed : \/ Becomes(t, [Unpacked(x, parsed) EXCEPT !.pc = "handle", !.readbytes = 0])
                     \/ \E z \in Reinjected(Unpacked(x, parsed)) : Becomes(t, z)
  BY <1>1, Zenon
<1>4. Fixed(o, e.x) /\ e.x.pc = o.pc
  <2>1. \A r \in brigades : Fixed(o, r.x) /\ r.x.pc = o.pc
    BY BrigadesFix
  <2> HIDE DEF brigades, o
  <2> QED BY <1>1, <2>1, ExtractedFix
<1>5. EnvShape(e.x)
  BY <1>4, Zenon DEF Fixed
<1>6. Fixed(e.x, x) /\ x.pc = "extract"
  BY <1>2, <1>4, <1>5 DEF Fixed, EnvShape, ReadFields
<1> HIDE DEF x, o
<1>7. Fixed(o, x) /\ EnvShape(x)
  BY <1>4, <1>6, FixedChain, Zenon DEF Fixed
<1>8. ASSUME NEW parsed PROVE Fixed(x, Unpacked(x, parsed))
  <2>1. PICK error, headers, a, b, c :
            Unpacked(x, parsed) = [x EXCEPT !.ictx = 1, !.error = error, !.headers = headers,
                                            !.info.mReqBody = a, !.info.mResponseHeader = b,
                                            !.info.mResponseBody = c]
    BY Zenon DEF Unpacked
  <2> QED BY <1>7, <2>1 DEF Fixed, EnvShape, ReadFields
<1>9. CASE Becomes(t, x)
  <2>1. x.pc # "translate"
    BY <1>6
  <2> QED BY <1>7, <1>9, <2>1, Zenon DEF o
<1>10. ASSUME NEW parsed, Becomes(t, [Unpacked(x, parsed) EXCEPT !.pc = "handle", !.readbytes = 0])
       PROVE  \E y : Becomes(t, y) /\ Fixed(rq[t], y) /\ y.pc # "translate"
  <2> DEFINE u == Unpacked(x, parsed)
             y == [u EXCEPT !.pc = "handle", !.readbytes = 0]
  <2>1. Fixed(x, u) /\ EnvShape(u)
    BY <1>8, Zenon DEF Fixed
  <2> HIDE DEF u
  <2>2. Fixed(u, y) /\ y.pc # "translate"
    BY <2>1 DEF Fixed, EnvShape, ReadFields
  <2>3. Becomes(t, y)
    BY <1>10 DEF u
  <2> HIDE DEF y
  <2>4. Fixed(o, y)
    BY <1>7, <2>1, <2>2, FixedChain, Zenon
  <2> QED BY <2>2, <2>3, <2>4, Zenon DEF o
<1>11. ASSUME NEW parsed, NEW z \in Reinjected(Unpacked(x, parsed)), Becomes(t, z)
       PROVE  \E y : Becomes(t, y) /\ Fixed(rq[t], y) /\ y.pc # "translate"
  <2> DEFINE u == Unpacked(x, parsed)
  <2>1. Fixed(x, u) /\ EnvShape(u) /\ z \in Reinjected(u)
    BY <1>8, <1>11, Zenon DEF Fixed
  <2> HIDE DEF u
  <2>2. Fixed(u, z) /\ z.pc = "handle"
    BY <2>1, ReinjectedFix
  <2>3. z.pc # "translate"
    BY <2>2
  <2>4. Fixed(o, z)
    BY <1>7, <2>1, <2>2, FixedChain, Zenon
  <2> QED BY <1>11, <2>3, <2>4, Zenon DEF o
<1> QED BY <1>3, <1>9, <1>10, <1>11, Zenon

-----------------------------------------------------------------------------
(* The headers that the hook of mod_migrate sees.                          *)

\* The headers of a request after initRequest.
Unwrapped(h) ==
    LET marked == IF "Content-Type" \in DOMAIN h /\ h["Content-Type"] = "application/x-dup-serialized"
                  THEN With(h, "X-COMPARE-TRANSLATED", "1") ELSE h
        typed  == IF "X_DUP_CONTENT_TYPE" \in DOMAIN marked
                  THEN With(marked, "Content-Type", marked["X_DUP_CONTENT_TYPE"]) ELSE marked
    IN Without(Without(typed, {"X_DUP_METHOD", "X_DUP_CONTENT_TYPE"}),
               {"ELAPSED_TIME_BY_DUP", "X_DUP_HTTP_STATUS"})

LEMMA initRequestHeaders ==
    ASSUME NEW x, EnvShape(x), NEW y, y = initRequest(x)
    PROVE  Fixed(x, y) /\ y.pc = x.pc /\ y.hooks = x.hooks /\ y.headers = Unwrapped(x.headers)
<1> DEFINE h == Unwrapped(x.headers)
<1>1. PICK method, info : y = [x EXCEPT !.method = method, !.headers = h, !.info = info]
  BY Zenon DEF initRequest, Unwrapped, Has
<1> HIDE DEF h
<1>2. Fixed(x, y) /\ y.pc = x.pc /\ y.hooks = x.hooks /\ y.headers = h
  BY <1>1 DEF Fixed, EnvShape, ReadFields
<1> QED BY <1>2 DEF h

LEMMA FiniteWith ==
    ASSUME NEW f, IsFiniteSet(DOMAIN f), NEW key, NEW v, NEW keys
    PROVE  IsFiniteSet(DOMAIN With(f, key, v)) /\ IsFiniteSet(DOMAIN Without(f, keys))
<1>1. DOMAIN With(f, key, v) = DOMAIN f \cup {key}
  BY DEF With
<1>2. DOMAIN Without(f, keys) \subseteq DOMAIN f
  BY DEF Without, Restrict
<1> QED BY <1>1, <1>2, FS_AddElement, FS_Subset

LEMMA FiniteOriginal ==
    ASSUME NEW h, IsFiniteSet(DOMAIN h)
    PROVE  IsFiniteSet(DOMAIN Unwrapped(h))
<1> DEFINE marked == IF "Content-Type" \in DOMAIN h /\ h["Content-Type"] = "application/x-dup-serialized"
                     THEN With(h, "X-COMPARE-TRANSLATED", "1") ELSE h
           typed  == IF "X_DUP_CONTENT_TYPE" \in DOMAIN marked
                     THEN With(marked, "Content-Type", marked["X_DUP_CONTENT_TYPE"]) ELSE marked
           copied == Without(typed, {"X_DUP_METHOD", "X_DUP_CONTENT_TYPE"})
<1>1. IsFiniteSet(DOMAIN marked)
  <2>1. IsFiniteSet(DOMAIN With(h, "X-COMPARE-TRANSLATED", "1"))
    BY FiniteWith
  <2> QED BY <2>1
<1> HIDE DEF marked
<1>2. IsFiniteSet(DOMAIN typed)
  <2>1. IsFiniteSet(DOMAIN With(marked, "Content-Type", marked["X_DUP_CONTENT_TYPE"]))
    BY <1>1, FiniteWith
  <2> QED BY <1>1, <2>1
<1> HIDE DEF typed
<1>3. IsFiniteSet(DOMAIN copied)
  BY <1>2, FiniteWith
<1>4. Unwrapped(h) = Without(copied, {"ELAPSED_TIME_BY_DUP", "X_DUP_HTTP_STATUS"})
  BY DEF Unwrapped, copied, typed, marked
<1> HIDE DEF copied
<1> QED BY <1>3, <1>4, FiniteWith

LEMMA FiniteEnvTexts ==
    ASSUME NEW q, IsRequest(q), NEW seen, seen \in {q.headers, Unwrapped(q.headers)}
    PROVE  FiniteTexts(<<q.args, q.text, HeaderWords(seen)>>)
<1>1. IsFiniteSet(DOMAIN q.headers)
  BY Zenon DEF IsRequest
<1>2. IsFiniteSet(DOMAIN seen)
  BY <1>1, FiniteOriginal
<1>3. IsFiniteSet(DOMAIN HeaderWords(seen))
  <2>1. DOMAIN HeaderWords(seen) = (DOMAIN seen) \X {"key", "value"}
    BY DEF HeaderWords
  <2>2. IsFiniteSet({"key", "value"})
    <3>1. IsFiniteSet({} \cup {"key"})
      BY FS_EmptySet, FS_AddElement
    <3>2. IsFiniteSet(({} \cup {"key"}) \cup {"value"})
      BY <3>1, FS_AddElement
    <3>3. ({} \cup {"key"}) \cup {"value"} = {"key", "value"}
      OBVIOUS
    <3> QED BY <3>2, <3>3, Zenon
  <2> QED BY <1>2, <2>1, <2>2, FS_Product
<1>4. IsFiniteSet(DOMAIN q.args) /\ IsFiniteSet(DOMAIN q.text)
  <2>1. ASSUME NEW S, NEW s \in Seq(S) PROVE IsFiniteSet(DOMAIN s)
    <3>1. Len(s) \in Nat /\ DOMAIN s = 1 .. Len(s)
      OBVIOUS
    <3> QED BY <3>1, FS_Interval
  <2>2. q.args \in Seq(Range(q.args)) /\ q.text \in Seq(Range(q.text))
    BY Zenon DEF IsRequest
  <2> QED BY <2>1, <2>2
<1> DEFINE a == q.args
           b == q.text
           c == HeaderWords(seen)
           texts == <<a, b, c>>
<1>5. IsFiniteSet(DOMAIN a) /\ IsFiniteSet(DOMAIN b) /\ IsFiniteSet(DOMAIN c)
  BY <1>3, <1>4
<1> HIDE DEF a, b, c
<1>6. texts[1] = a /\ texts[2] = b /\ texts[3] = c
  OBVIOUS
<1> HIDE DEF texts
<1>7. \A i \in 1 .. 3 : i = 1 \/ i = 2 \/ i = 3
  OBVIOUS
<1>8. FiniteTexts(texts)
  BY <1>5, <1>6, <1>7, Zenon DEF FiniteTexts
<1> QED BY <1>8 DEF texts, a, b, c

-----------------------------------------------------------------------------
(* The variables: the inductive invariant.                                 *)

\* Where the translate hooks are, and with which headers.
HooksAt(x, q, hooks, seen) ==
    \/ x.hooks = hooks /\ x.headers = q.headers
    \/ hooks # <<>> /\ x.hooks = Tail(hooks) /\ (Head(hooks) = "compare" => x.headers = seen)
    \/ x.hooks = <<>>

EnvKept(x, q, hooks, seen, rules) ==
    /\ EnvShape(x)
    /\ x.pc = "translate" => HooksAt(x, q, hooks, seen)
    /\ x.mig.read /\ ~x.cut => EnvOf(<<q.args, q.text, HeaderWords(seen)>>, rules, x.env)

\* The headers that mod_migrate sees, if mod_compare is active.
Seen(q, hooks, active, seen) ==
    seen = IF active /\ hooks # <<>> /\ Head(hooks) = "compare" THEN Unwrapped(q.headers) ELSE q.headers

LEMMA FixedKept ==
    ASSUME NEW x, NEW y, NEW q, NEW hooks, NEW seen, NEW rules, EnvKept(x, q, hooks, seen, rules),
           Fixed(x, y), y.pc # "translate"
    PROVE  EnvKept(y, q, hooks, seen, rules)
BY Zenon DEF EnvKept, Fixed

LEMMA HookTails ==
    ASSUME NEW hooks \in HookOrders, hooks # <<>>
    PROVE  /\ Tail(hooks) # <<>> => Tail(Tail(hooks)) = <<>>
           /\ Tail(hooks) # <<>> /\ Head(Tail(hooks)) = "migrate" => Head(hooks) = "compare"
<1>1. \A a : Tail(<<a>>) = <<>> /\ Head(<<a>>) = a
  OBVIOUS
<1>2. \A a, b : Tail(<<a, b>>) = <<b>> /\ Head(<<a, b>>) = a
  OBVIOUS
<1>3. CASE \E a : hooks = <<a>>
  BY <1>1, <1>3, Zenon
<1>4. CASE hooks = <<"compare", "migrate">>
  BY <1>1, <1>2, <1>4, Zenon
<1>5. CASE hooks = <<"migrate", "compare">>
  <2>1. Tail(hooks) = <<"compare">>
    BY <1>2, <1>5, Zenon
  <2>2. Tail(Tail(hooks)) = <<>> /\ Head(Tail(hooks)) = "compare"
    BY <1>1, <2>1, Zenon
  <2>3. "compare" # "migrate"
    OBVIOUS
  <2> QED BY <2>2, <2>3, Zenon
<1> QED BY <1>3, <1>4, <1>5, Zenon DEF HookOrders

LEMMA NextHookAt ==
    ASSUME NEW x, NEW y, NEW q, NEW hooks \in HookOrders, NEW seen, HooksAt(x, q, hooks, seen),
           x.hooks # <<>>, y.hooks = Tail(x.hooks),
           Head(x.hooks) # "compare"
    PROVE  HooksAt(y, q, hooks, seen)
<1>1. CASE x.hooks = hooks /\ x.headers = q.headers
  BY <1>1, Zenon DEF HooksAt
<1>2. CASE hooks # <<>> /\ x.hooks = Tail(hooks)
  <2>1. hooks # <<>> => Tail(Tail(hooks)) = <<>> \/ Tail(hooks) = <<>>
    BY HookTails
  <2>2. y.hooks = <<>>
    BY <1>2, <2>1, Zenon
  <2> QED BY <2>2, Zenon DEF HooksAt
<1> QED BY <1>1, <1>2, Zenon DEF HooksAt

LEMMA MigrateAt ==
    ASSUME NEW x, NEW q, NEW hooks \in HookOrders, NEW active, NEW seen, Seen(q, hooks, active, seen),
           HooksAt(x, q, hooks, seen), x.hooks # <<>>, Head(x.hooks) = "migrate"
    PROVE  x.headers = seen
<1>1. CASE x.hooks = hooks /\ x.headers = q.headers
  <2>1. Head(hooks) # "compare"
    BY <1>1
  <2> QED BY <1>1, <2>1, Zenon DEF Seen
<1>2. CASE hooks # <<>> /\ x.hooks = Tail(hooks) /\ (Head(hooks) = "compare" => x.headers = seen)
  <2>1. hooks # <<>> /\ Tail(hooks) # <<>> /\ Head(Tail(hooks)) = "migrate" => Head(hooks) = "compare"
    BY HookTails
  <2>2. Tail(hooks) # <<>> /\ Head(Tail(hooks)) = "migrate"
    BY <1>2
  <2> QED BY <1>2, <2>1, <2>2, Zenon
<1> QED BY <1>1, <1>2, Zenon DEF HooksAt

LEMMA translateHookCompareKept ==
    ASSUME NEW t \in Serving, NEW q, NEW hooks \in HookOrders, NEW seen, NEW rules,
           EnvKept(rq[t], q, hooks, seen, rules), translateHookCompare(t),
           Seen(q, hooks, conf.compare.mIsActive, seen)
    PROVE  \E y : Becomes(t, y) /\ EnvKept(y, q, hooks, seen, rules)
<1> DEFINE o == rq[t]
           x == IF conf.compare.mIsActive THEN initRequest(o) ELSE o
           y == NextHook(x)
<1>1. Becomes(t, y) /\ o.pc = "translate" /\ o.hooks # <<>> /\ Head(o.hooks) = "compare"
  BY Zenon DEF translateHookCompare, Running
<1>2. EnvShape(o) /\ HooksAt(o, q, hooks, seen)
  BY <1>1, Zenon DEF EnvKept
<1>3. /\ Fixed(o, x) /\ x.pc = o.pc /\ x.hooks = o.hooks
      /\ x.headers = IF conf.compare.mIsActive THEN Unwrapped(o.headers) ELSE o.headers
  <2>1. CASE conf.compare.mIsActive
    <3>1. x = initRequest(o)
      BY <2>1, Zenon
    <3> HIDE DEF x, o
    <3>2. Fixed(o, x) /\ x.pc = o.pc /\ x.hooks = o.hooks /\ x.headers = Unwrapped(o.headers)
      BY <1>2, <3>1, initRequestHeaders
    <3> QED BY <2>1, <3>2, Zenon
  <2>2. CASE ~conf.compare.mIsActive
    <3>1. x = o
      BY <2>2, Zenon
    <3> HIDE DEF x
    <3> QED BY <1>2, <2>2, <3>1, Zenon DEF Fixed
  <2> QED BY <2>1, <2>2
<1> HIDE DEF x
<1>4. Fixed(x, y) /\ y.pc = x.pc /\ y.hooks = Tail(x.hooks) /\ y.headers = x.headers
  <2>1. EnvShape(x)
    BY <1>3, Zenon DEF Fixed
  <2> QED BY <2>1 DEF Fixed, EnvShape, ReadFields, NextHook
<1> HIDE DEF y, o
<1>5. Fixed(o, y)
  BY <1>3, <1>4, FixedChain
<1>6. HooksAt(y, q, hooks, seen)
  <2>1. CASE o.hooks = hooks /\ o.headers = q.headers
    <3>1. y.headers = seen
      BY <1>1, <1>3, <1>4, <2>1, Zenon DEF Seen
    <3> QED BY <1>1, <1>3, <1>4, <2>1, <3>1, Zenon DEF HooksAt
  <2>2. CASE hooks # <<>> /\ o.hooks = Tail(hooks)
    <3>1. hooks # <<>> => Tail(Tail(hooks)) = <<>> \/ Tail(hooks) = <<>>
      BY HookTails
    <3> QED BY <1>1, <1>3, <1>4, <2>2, <3>1, Zenon DEF HooksAt
  <2> QED BY <1>1, <1>2, <2>1, <2>2, Zenon DEF HooksAt
<1>7. EnvKept(o, q, hooks, seen, rules)
  BY DEF o
<1>8. EnvKept(y, q, hooks, seen, rules)
  BY <1>5, <1>6, <1>7, Zenon DEF EnvKept, Fixed
<1> QED BY <1>1, <1>8, Zenon

LEMMA TranslatedKept ==
    ASSUME NEW t \in Serving, NEW q, NEW hooks, NEW seen, NEW rules,
           EnvKept(rq[t], q, hooks, seen, rules), Translated(t)
    PROVE  \E y : Becomes(t, y) /\ EnvKept(y, q, hooks, seen, rules)
<1> DEFINE x == rq[t]
           y == [x EXCEPT !.pc = "handle"]
<1>1. Becomes(t, y)
  BY Zenon DEF Translated
<1>2. EnvShape(x)
  BY Zenon DEF EnvKept
<1>3. Fixed(x, y) /\ y.pc # "translate"
  BY <1>2 DEF Fixed, EnvShape, ReadFields
<1> HIDE DEF y
<1>4. EnvKept(y, q, hooks, seen, rules)
  BY <1>3, FixedKept
<1> QED BY <1>1, <1>4, Zenon

\* What mod_migrate looks at when it has read all of the request is the request.
LEMMA WholeTexts ==
    ASSUME NEW q, NEW C, q.text \in Seq(C), NEW o, Streaming(o, C), NEW m, Translating(o, q, m),
           ~o.cut, NEW r, Given(o, r, C), r.ok, r.eos
    PROVE  o.mig.body \o r.data = q.text
<1>1. /\ o.mig.body \in Seq(C) /\ r.data \in Seq(C) /\ r.x.net = <<>> /\ r.data \o r.x.net = o.net
      /\ o.mig.body \o o.net = q.text
  BY Zenon DEF Given, IsBrigade, Streaming, Translating
<1>2. r.data \o <<>> = r.data
  BY <1>1, ConcatEmptySeq
<1> QED BY <1>1, <1>2, Zenon

LEMMA InfoOfTexts ==
    ASSUME NEW a, NEW b, NEW c
    PROVE  InfoOf(<<a, b, c>>) = [args |-> a, body |-> b, header |-> c]
BY DEF InfoOf

LEMMA translateHookMigrateKept ==
    ASSUME NEW t \in Serving, NEW q, q = Request(t), IsRequest(q), NEW m, Reads(rq[t], q, m),
           NEW hooks \in HookOrders, NEW seen, NEW S, NEW rules \in Seq(S), rules = conf.migrate.mEnvLists,
           NEW active, Seen(q, hooks, active, seen),
           EnvKept(rq[t], q, hooks, seen, rules), translateHookMigrate(t)
    PROVE  \E y : Becomes(t, y) /\ EnvKept(y, q, hooks, seen, rules)
<1> DEFINE C == Range(q.text)
           o == rq[t]
           brigades == NetBrigades(o, CMaxBytes)
           B(e) == o.mig.body \o e.data
           X(e) == [e.x EXCEPT !.mig.body = B(e)]
           E(e) == enrichContext(rules, [args |-> q.args, body |-> B(e), header |-> HeaderWords(e.x.headers)])
           Z(e) == [X(e) EXCEPT !.mig.read = TRUE, !.env = E(e)]
           texts == <<q.args, q.text, HeaderWords(seen)>>
<1>1. o.pc = "translate" /\ o.hooks # <<>> /\ Head(o.hooks) = "migrate"
  BY Zenon DEF translateHookMigrate, Running
<1>2. \/ Becomes(t, NextHook(o))
      \/ \E e \in extractBrigadeContent(brigades) :
            \/ Becomes(t, X(e))
            \/ e.done /\ Becomes(t, NextHook(Z(e)))
  BY Zenon DEF translateHookMigrate
<1>3. Streaming(o, C) /\ Translating(o, q, m) /\ q.text \in Seq(C)
  BY <1>1, Zenon DEF Reads, IsRequest
<1>4. EnvKept(o, q, hooks, seen, rules) /\ EnvShape(o) /\ HooksAt(o, q, hooks, seen)
  BY <1>1, Zenon DEF EnvKept
<1>5. o.headers = seen /\ Head(o.hooks) # "compare"
  <2>1. o.headers = seen
    <3> HIDE DEF o
    <3> QED BY <1>1, <1>4, MigrateAt
  <2> QED BY <1>1, <2>1
<1>6. CASE Becomes(t, NextHook(o))
  <2> DEFINE y == NextHook(o)
  <2>1. Fixed(o, y) /\ y.hooks = Tail(o.hooks) /\ y.pc = o.pc
    BY <1>4 DEF Fixed, EnvShape, ReadFields, NextHook
  <2>2. Becomes(t, y)
    BY <1>6
  <2> HIDE DEF y, o
  <2>3. HooksAt(y, q, hooks, seen)
    BY <1>1, <1>4, <1>5, <2>1, NextHookAt
  <2>4. EnvKept(y, q, hooks, seen, rules)
    BY <1>4, <2>1, <2>3, Zenon DEF EnvKept, Fixed
  <2> QED BY <2>2, <2>4, Zenon
<1>7. ASSUME NEW e \in extractBrigadeContent(brigades)
      PROVE  /\ EnvKept(X(e), q, hooks, seen, rules)
             /\ e.done => EnvKept(NextHook(Z(e)), q, hooks, seen, rules)
  <2> DEFINE b == B(e)
             env == E(e)
             x == [e.x EXCEPT !.mig.body = b]
             z == [x EXCEPT !.mig.read = TRUE, !.env = env]
             y == NextHook(z)
  <2>1. PICK r \in brigades : Given(o, r, C) /\ Extracts(r, e, C) /\ SameBut(o, r.x, {"net", "failed"})
    <3>0. brigades = NetBrigades(o, CMaxBytes)
      OBVIOUS
    <3>1. /\ {"net", "failed", "cut"} \subseteq DOMAIN o /\ o.net \in Seq(C) /\ o.failed \in BOOLEAN
          /\ o.cut \in BOOLEAN /\ CMaxBytes \in Nat \ {0}
      BY <1>3, CompareAssumption DEF Streaming, ReadFields
    <3> HIDE DEF o, C, brigades
    <3>2. ASSUME NEW r \in brigades PROVE Given(o, r, C)
      BY <3>0, <3>1, <3>2, NetBrigadesIs
    <3>3. ASSUME NEW r \in brigades PROVE IsBrigade(r, C) /\ "cut" \in DOMAIN r.x /\ r.x.cut \in BOOLEAN
      <4>1. IsBrigade(r, C) /\ SameBut(o, r.x, {"net", "failed"})
        BY <3>2, Zenon DEF Given
      <4> QED BY <3>1, <4>1 DEF SameBut
    <3>4. \E r \in brigades : Extracts(r, e, C)
      BY <1>7, <3>3, extractBrigadeContentIs
    <3> QED BY <3>2, <3>4, Zenon DEF Given
  <2>2. /\ Fixed(o, e.x) /\ e.x.pc = o.pc /\ e.x.hooks = o.hooks /\ e.x.headers = o.headers
        /\ MigFields \subseteq DOMAIN e.x.mig /\ (o.cut => e.x.cut)
    <3>1. Fixed(o, e.x) /\ e.x.pc = o.pc
      <4>1. \A s \in brigades : Fixed(o, s.x) /\ s.x.pc = o.pc
        BY <1>4, NetBrigadesFix
      <4> HIDE DEF o, brigades
      <4> QED BY <1>7, <4>1, ExtractedFix
    <3>2. SameBut(o, r.x, {"net", "failed"}) /\ SameBut(r.x, e.x, {"cut"})
      BY <2>1, Zenon DEF Extracts
    <3>3. ReadFields \subseteq DOMAIN o /\ MigFields \subseteq DOMAIN o.mig
      BY <1>3, Zenon DEF Streaming
    <3>4. r.x.hooks = o.hooks /\ r.x.headers = o.headers /\ r.x.mig = o.mig /\ ReadFields \subseteq DOMAIN r.x
      BY <3>2, <3>3 DEF SameBut, ReadFields
    <3>5. e.x.hooks = r.x.hooks /\ e.x.headers = r.x.headers /\ e.x.mig = r.x.mig
      BY <3>2, <3>4 DEF SameBut, ReadFields
    <3> QED BY <3>1, <3>3, <3>4, <3>5, Zenon DEF Fixed
  <2>3. env = enrichContext(rules, [args |-> q.args, body |-> b, header |-> HeaderWords(seen)])
    BY <1>5, <2>2
  <2>4. X(e) = x /\ NextHook(Z(e)) = y
    OBVIOUS
  <2>5. ~e.x.cut /\ e.done => b = q.text
    <3>1. ~e.x.cut /\ e.done => r.ok /\ r.eos /\ e.data = r.data /\ ~o.cut
      BY <2>1, <2>2, Zenon DEF Extracts
    <3> HIDE DEF C, o
    <3>2. r.ok /\ r.eos /\ ~o.cut => o.mig.body \o r.data = q.text
      BY <1>3, <2>1, WholeTexts
    <3> QED BY <3>1, <3>2, Zenon
  <2> HIDE DEF b, env, o, C, brigades
  <2>6. Fixed(e.x, x) /\ x.pc = e.x.pc /\ x.hooks = e.x.hooks /\ x.headers = e.x.headers
        /\ x.cut = e.x.cut /\ MigFields \subseteq DOMAIN x.mig
    <3>1. EnvShape(e.x)
      BY <2>2, Zenon DEF Fixed
    <3> QED BY <2>2, <3>1 DEF Fixed, EnvShape, ReadFields, MigFields
  <2> HIDE DEF x
  <2>7. EnvShape(y) /\ y.env = env /\ y.cut = x.cut /\ y.hooks = Tail(x.hooks)
    <3>1. EnvShape(x)
      BY <2>6, Zenon DEF Fixed
    <3> QED BY <2>6, <3>1 DEF EnvShape, ReadFields, MigFields, NextHook
  <2> HIDE DEF y
  <2>8. EnvKept(x, q, hooks, seen, rules)
    <3>1. Fixed(o, x)
      BY <2>2, <2>6, FixedChain, Zenon
    <3>2. HooksAt(x, q, hooks, seen)
      BY <1>4, <2>2, <2>6, Zenon DEF HooksAt
    <3> QED BY <1>4, <3>1, <3>2, Zenon DEF EnvKept, Fixed
  <2>9. ASSUME e.done PROVE EnvKept(y, q, hooks, seen, rules)
    <3>1. HooksAt(y, q, hooks, seen)
      <4>1. y.hooks = Tail(o.hooks)
        BY <2>2, <2>6, <2>7, Zenon
      <4> QED BY <1>1, <1>4, <1>5, <4>1, NextHookAt
    <3>2. ASSUME ~y.cut PROVE EnvOf(texts, rules, env)
      <4>1. env = enrichContext(rules, [args |-> q.args, body |-> q.text, header |-> HeaderWords(seen)])
        BY <2>3, <2>5, <2>6, <2>7, <2>9, <3>2, Zenon
      <4>2. env = enrichContext(rules, InfoOf(texts))
        <5>1. InfoOf(texts) = [args |-> q.args, body |-> q.text, header |-> HeaderWords(seen)]
          BY InfoOfTexts
        <5> QED BY <4>1, <5>1
      <4>3. FiniteTexts(texts)
        <5>1. seen \in {q.headers, Unwrapped(q.headers)}
          BY Zenon DEF Seen
        <5> QED BY <5>1, FiniteEnvTexts, Zenon
      <4> HIDE DEF texts
      <4> QED BY <4>2, <4>3, enrichContextIs, Zenon
    <3> QED BY <2>7, <3>1, <3>2, Zenon DEF EnvKept
  <2> QED BY <2>4, <2>8, <2>9, Zenon
<1> QED BY <1>2, <1>6, <1>7, Zenon

\* What the answer leaves alone includes the variables.
LEMMA AlikeKept ==
    ASSUME NEW q, NEW hooks, NEW seen, NEW rules, NEW x, EnvKept(x, q, hooks, seen, rules),
           NEW C, Streaming(x, C), NEW y, ReadsAlike(x, y), y.pc # "translate"
    PROVE  EnvKept(y, q, hooks, seen, rules)
<1>1. ReadFields \subseteq DOMAIN y /\ y.env = x.env /\ y.mig = x.mig /\ y.cut = x.cut
  BY DEF ReadsAlike, ReadFields
<1>2. Fixed(x, y)
  BY <1>1, Zenon DEF Fixed, EnvKept, EnvShape
<1> QED BY <1>2, FixedKept

LEMMA NewRequestKept ==
    ASSUME NEW q, NEW hooks, NEW seen, NEW rules, NEW x, x = NewRequest(q, hooks)
    PROVE  EnvKept(x, q, hooks, seen, rules)
<1>1. EnvShape(x) /\ x.hooks = hooks /\ x.headers = q.headers /\ x.mig.read = FALSE
  BY DEF NewRequest, EnvShape, ReadFields
<1> QED BY <1>1, Zenon DEF EnvKept, HooksAt

\* The rules are a list.
Configured ==
    /\ "migrate" \in DOMAIN conf /\ "mEnvLists" \in DOMAIN conf.migrate
    /\ \E S : conf.migrate.mEnvLists \in Seq(S)

Fresh == phase # "running" => \A t \in Serving : rq[t] = NewRequest(Request(t), scenario.hooks)

EnvInv ==
    /\ Configured /\ Fresh
    /\ \A t \in Serving : EnvKept(rq[t], Request(t), scenario.hooks, EnvHeaders(t), conf.migrate.mEnvLists)

LEMMA EnvHeadersSeen ==
    ASSUME RequestInv, NEW t \in Serving
    PROVE  Seen(Request(t), scenario.hooks, conf.compare.mIsActive, EnvHeaders(t)) \/ scenario.hooks = <<>>
<1> DEFINE q == Request(t)
           hooks == scenario.hooks
           n == NewRequest(q, <<>>)
           y == initRequest(n)
<1>1. EnvShape(n) /\ n.headers = q.headers /\ y = initRequest(n)
  BY DEF NewRequest, EnvShape, ReadFields
<1>2. EnvHeaders(t) = IF conf.compare.mIsActive /\ hooks[1] = "compare" THEN y.headers ELSE q.headers
  BY Zenon DEF EnvHeaders
<1>3. hooks \in HookOrders
  BY CompareAssumption, Zenon DEF RequestInv
<1> HIDE DEF n, q, y, hooks
<1>4. y.headers = Unwrapped(q.headers)
  <2>1. y.headers = Unwrapped(n.headers)
    BY <1>1, initRequestHeaders
  <2> QED BY <1>1, <2>1, Zenon
<1>5. hooks # <<>> => hooks[1] = Head(hooks)
  BY <1>3 DEF HookOrders
<1>6. hooks # <<>> => Seen(q, hooks, conf.compare.mIsActive, EnvHeaders(t))
  BY <1>2, <1>4, <1>5, Zenon DEF Seen
<1> QED BY <1>6 DEF q, hooks

LEMMA KeptStep ==
    ASSUME RequestInv, EnvInv, NEW t \in Threads, Step(t)
    PROVE  \/ UNCHANGED rq
           \/ /\ t \in Serving
              /\ \E y : /\ Becomes(t, y)
                        /\ EnvKept(y, Request(t), scenario.hooks, EnvHeaders(t), conf.migrate.mEnvLists)
<1>1. CASE writeDifferencesThrows(t) \/ WritesRecord(t)
  BY <1>1, Zenon DEF writeDifferencesThrows, WritesRecord
<1>2. CASE ~(writeDifferencesThrows(t) \/ WritesRecord(t))
  <2> DEFINE q == Request(t)
             m == Migrates
             hooks == scenario.hooks
             seen == EnvHeaders(t)
             rules == conf.migrate.mEnvLists
             active == conf.compare.mIsActive
  <2>1. t \in Serving
    BY <1>2, Zenon DEF Step, translateHookCompare, translateHookMigrate, Translated, inputFilterHandler,
       Unpacks, StopsReading, outputFilterHandler, TruncatesLog, PassesOn,
       writeSerializedRequest, outputFilterHandler2, writeDifferences, RecordWritten, PassesAgain,
       Finishes, Running
  <2>2. Reads(rq[t], q, m) /\ EnvKept(rq[t], q, hooks, seen, rules)
    BY <2>1, Zenon DEF RequestInv, EnvInv
  <2>3. IsRequest(q) /\ hooks \in HookOrders
    BY <2>1, CompareAssumption, Zenon DEF RequestInv, Request, Serving
  <2>4. PICK S : rules \in Seq(S)
    BY Zenon DEF EnvInv, Configured
  <2>5. Seen(q, hooks, active, seen) \/ hooks = <<>>
    BY <2>1, EnvHeadersSeen, Zenon
  <2>6. \/ translateHookCompare(t) \/ translateHookMigrate(t) \/ Translated(t)
        \/ inputFilterHandler(t) \/ Unpacks(t) \/ Answers(t)
    BY <1>2, Zenon DEF Step, Answers
  <2>7. q = Request(t) /\ rules = conf.migrate.mEnvLists /\ active = conf.compare.mIsActive
    OBVIOUS
  <2>8. EnvShape(rq[t]) /\ Streaming(rq[t], Range(q.text))
    BY <2>2, Zenon DEF EnvKept, Reads
  <2> HIDE DEF q, m, hooks, seen, rules, active
  <2>9. ASSUME translateHookCompare(t) \/ translateHookMigrate(t) PROVE Seen(q, hooks, active, seen)
    <3>1. rq[t].pc = "translate" /\ rq[t].hooks # <<>>
      BY <2>9, Zenon DEF translateHookCompare, translateHookMigrate, Running
    <3>2. HooksAt(rq[t], q, hooks, seen)
      BY <2>2, <3>1, Zenon DEF EnvKept
    <3> QED BY <2>5, <3>1, <3>2, Zenon DEF HooksAt
  <2>10. \E y : Becomes(t, y) /\ EnvKept(y, q, hooks, seen, rules)
    <3>1. CASE translateHookCompare(t)
      BY <2>1, <2>2, <2>3, <2>7, <2>9, <3>1, translateHookCompareKept
    <3>2. CASE translateHookMigrate(t)
      BY <2>1, <2>2, <2>3, <2>4, <2>7, <2>9, <3>2, translateHookMigrateKept
    <3>3. CASE Translated(t)
      BY <2>1, <2>2, <3>3, TranslatedKept
    <3>4. CASE inputFilterHandler(t)
      <4>1. \E y : Becomes(t, y) /\ Fixed(rq[t], y) /\ y.pc # "translate"
        BY <2>1, <2>8, <3>4, inputFilterFix
      <4> QED BY <2>2, <4>1, FixedKept
    <3>5. CASE Unpacks(t)
      <4>1. \E y : Becomes(t, y) /\ Fixed(rq[t], y) /\ y.pc # "translate"
        BY <2>1, <2>8, <3>5, extractFix
      <4> QED BY <2>2, <4>1, FixedKept
    <3>6. CASE Answers(t)
      <4>1. \E y : Becomes(t, y) /\ ReadsAlike(rq[t], y) /\ y.pc # "translate"
        <5>1. /\ rq[t].pc # "translate"
              /\ \E y : Becomes(t, y) /\ ReadsAlike(rq[t], y) /\ y.pc # "translate" /\ y.pc # "extract"
          BY <2>1, <2>8, <3>6, AnswersAlike, Zenon
        <5> QED BY <5>1, Zenon
      <4> QED BY <2>2, <2>8, <4>1, AlikeKept
    <3> QED BY <2>6, <3>1, <3>2, <3>3, <3>4, <3>5, <3>6, Zenon
  <2> QED BY <2>1, <2>10, Zenon DEF q, hooks, seen, rules
<1> QED BY <1>1, <1>2

\* A directive leaves the rules a list.
LEMMA ConfiguredStep ==
    ASSUME Configured, Configure
    PROVE  Configured'
<1>1. CASE UNCHANGED conf
  BY <1>1, Zenon DEF Configured
<1>2. ASSUME NEW c, conf' = c, "migrate" \in DOMAIN c, "mEnvLists" \in DOMAIN c.migrate,
             NEW S, c.migrate.mEnvLists \in Seq(S)
      PROVE  Configured'
  BY <1>2, Zenon DEF Configured
<1>3. PICK S : conf.migrate.mEnvLists \in Seq(S)
  BY Zenon DEF Configured
<1>4. "migrate" \in DOMAIN conf /\ "mEnvLists" \in DOMAIN conf.migrate
  BY Zenon DEF Configured
<1>5. ASSUME NEW c, conf' = c, "migrate" \in DOMAIN c, c.migrate = conf.migrate PROVE Configured'
  BY <1>2, <1>3, <1>4, <1>5, Zenon
<1>6. CASE setMigrateEnv
  <2> DEFINE e == [var |-> d.var, re |-> d.re, value |-> d.value, scope |-> conf.migrate.scope]
             rules == conf.migrate.mEnvLists
             c == [conf EXCEPT !.migrate.mDirName = TRUE, !.migrate.mEnvLists = Append(@, e)]
  <2>1. conf' = c \/ UNCHANGED conf
    BY <1>6, Zenon DEF setMigrateEnv, Directive
  <2> HIDE DEF e
  <2>2. "migrate" \in DOMAIN c /\ "mEnvLists" \in DOMAIN c.migrate /\ c.migrate.mEnvLists = Append(rules, e)
    BY <1>4
  <2> HIDE DEF c
  <2>3. Append(rules, e) \in Seq(S \cup {e})
    <3>1. rules \in Seq(S)
      BY <1>3
    <3> HIDE DEF rules
    <3> QED BY <3>1
  <2>4. c.migrate.mEnvLists \in Seq(S \cup {e})
    BY <2>2, <2>3, Zenon
  <2> QED BY <1>1, <1>2, <2>1, <2>2, <2>4
<1>7. CASE setApplicationScope
  <2> DEFINE c == [conf EXCEPT !.migrate.mDirName = TRUE, !.migrate.scope = MigrateScopes[d.scope]]
  <2>1. conf' = c \/ UNCHANGED conf
    BY <1>7, Zenon DEF setApplicationScope, Directive
  <2>2. "migrate" \in DOMAIN c /\ "mEnvLists" \in DOMAIN c.migrate /\ c.migrate.mEnvLists = conf.migrate.mEnvLists
    BY <1>4
  <2> HIDE DEF c
  <2> QED BY <1>1, <1>2, <1>3, <2>1, <2>2
<1>8. CASE setBodyList
  <2> DEFINE c == [conf EXCEPT !.compare.mCompBody[ListTypes[d.list]] = Append(@, d.re)]
  <2>1. conf' = c \/ UNCHANGED conf
    BY <1>8, Zenon DEF setBodyList, Directive
  <2>2. "migrate" \in DOMAIN c /\ c.migrate = conf.migrate
    BY <1>4
  <2> HIDE DEF c
  <2> QED BY <1>1, <1>5, <2>1, <2>2
<1>9. CASE setHeaderList
  <2> DEFINE c == [conf EXCEPT !.compare.mCompHeader[ListTypes[d.list]] = AddRule(@, d.key, d.re)]
  <2>1. conf' = c \/ UNCHANGED conf
    BY <1>9, Zenon DEF setHeaderList, Directive
  <2>2. "migrate" \in DOMAIN c /\ c.migrate = conf.migrate
    BY <1>4
  <2> HIDE DEF c
  <2> QED BY <1>1, <1>5, <2>1, <2>2
<1>10. CASE setDiffLogType
  <2> DEFINE c == [conf EXCEPT !.compare.mCompareDisabled = d.type = "archive",
                   !.compare.mLogType = IF d.type = "archive" THEN @ ELSE LogTypes[d.type]]
  <2>1. conf' = c \/ UNCHANGED conf
    BY <1>10, Zenon DEF setDiffLogType, Directive
  <2>2. "migrate" \in DOMAIN c /\ c.migrate = conf.migrate
    BY <1>4
  <2> HIDE DEF c
  <2> QED BY <1>1, <1>5, <2>1, <2>2
<1>11. CASE setDisableLibwsdiff
  <2> DEFINE c == [conf EXCEPT !.compare.mCompareDisabled = d.value]
  <2>1. conf' = c \/ UNCHANGED conf
    BY <1>11, Zenon DEF setDisableLibwsdiff, Directive
  <2>2. "migrate" \in DOMAIN c /\ c.migrate = conf.migrate
    BY <1>4
  <2> HIDE DEF c
  <2> QED BY <1>1, <1>5, <2>1, <2>2
<1>12. CASE setCompareLog
  <2> DEFINE c == [conf EXCEPT !.gWriteInFile = d.type = "FILE"]
  <2>1. conf' = c \/ UNCHANGED conf
    BY <1>12, Zenon DEF setCompareLog, Directive
  <2>2. "migrate" \in DOMAIN c /\ c.migrate = conf.migrate
    BY <1>4
  <2> HIDE DEF c
  <2> QED BY <1>1, <1>5, <2>1, <2>2
<1>13. CASE setCompare
  <2> DEFINE c == [conf EXCEPT !.compare.mIsActive = TRUE]
  <2>1. conf' = c \/ UNCHANGED conf
    BY <1>13, Zenon DEF setCompare, Directive
  <2>2. "migrate" \in DOMAIN c /\ c.migrate = conf.migrate
    BY <1>4
  <2> HIDE DEF c
  <2> QED BY <1>1, <1>5, <2>1, <2>2
<1>14. CASE postConfig
  BY <1>1, <1>14, Zenon DEF postConfig
<1> QED BY <1>6, <1>7, <1>8, <1>9, <1>10, <1>11, <1>12, <1>13, <1>14, Zenon DEF Configure

\* The inductive invariant: until the hook of mod_migrate has run, the headers are
\* those it is to see; from then on the variables are those of the whole request,
\* unless a failed read was taken for the end of the body.
THEOREM EnvInvariant == Spec => []EnvInv
<1>1. Init => EnvInv
  <2> SUFFICES ASSUME Init PROVE EnvInv
    OBVIOUS
  <2>1. rq = [t \in Serving |-> NewRequest(Request(t), scenario.hooks)]
    BY Zenon DEF Init
  <2>2. \A t \in Serving : rq[t] = NewRequest(Request(t), scenario.hooks)
    BY <2>1, Zenon
  <2>3. Configured
    <3>1. conf.migrate = MigrateConf /\ "migrate" \in DOMAIN conf
      BY DEF Init
    <3>2. "mEnvLists" \in DOMAIN MigrateConf /\ MigrateConf.mEnvLists \in Seq({})
      BY DEF MigrateConf
    <3> QED BY <3>1, <3>2, Zenon DEF Configured
  <2> QED BY <2>2, <2>3, NewRequestKept, Zenon DEF EnvInv, Fresh
<1>2. RequestInv /\ EnvInv /\ [Next]_vars => EnvInv'
  <2> SUFFICES ASSUME RequestInv, EnvInv, [Next]_vars PROVE EnvInv'
    OBVIOUS
  <2>1. ASSUME UNCHANGED <<scenario, phase, conf, rq>> PROVE EnvInv'
    BY <2>1, Zenon DEF EnvInv, Configured, Fresh, Serving, Request, EnvHeaders
  <2>2. ASSUME NEW t \in Serving, NEW y, Becomes(t, y), UNCHANGED <<scenario, phase, conf>>, phase = "running",
               EnvKept(y, Request(t), scenario.hooks, EnvHeaders(t), conf.migrate.mEnvLists)
        PROVE  EnvInv'
    <3>1. Configured' /\ Fresh' /\ Serving' = Serving /\ scenario' = scenario
      BY <2>2, Zenon DEF EnvInv, Configured, Fresh, Serving
    <3>2. DOMAIN rq = Serving
      BY Zenon DEF RequestInv
    <3>3. \A u \in Serving : rq'[u] = IF u = t THEN y ELSE rq[u]
      BY <2>2, <3>2 DEF Becomes
    <3>4. \A u \in Serving : Request(u)' = Request(u) /\ EnvHeaders(u)' = EnvHeaders(u)
      BY <2>2, Zenon DEF Request, EnvHeaders
    <3>5. ASSUME NEW u \in Serving
          PROVE  EnvKept(rq'[u], Request(u), scenario.hooks, EnvHeaders(u), conf.migrate.mEnvLists)
      BY <2>2, <3>3, Zenon DEF EnvInv
    <3> QED BY <2>2, <3>1, <3>4, <3>5, Zenon DEF EnvInv
  <2>3. CASE UNCHANGED vars
    BY <2>1, <2>3, Zenon DEF vars
  <2>4. CASE Configure
    <3>1. phase = "config" /\ UNCHANGED <<scenario, rq>>
      BY <2>4, Zenon DEF Configure, setBodyList, setHeaderList, setDiffLogType, setDisableLibwsdiff, setCompareLog,
         setCompare, setApplicationScope, setMigrateEnv, postConfig, Directive
    <3>2. Configured'
      BY <2>4, ConfiguredStep, Zenon DEF EnvInv
    <3>3. \A t \in Serving : rq[t] = NewRequest(Request(t), scenario.hooks)
      <4>1. phase # "running"
        BY <3>1
      <4> QED BY <4>1, Zenon DEF EnvInv, Fresh
    <3>4. Serving' = Serving /\ \A t \in Serving : Request(t)' = Request(t)
      BY <3>1, Zenon DEF Serving, Request
    <3>5. Fresh'
      BY <3>1, <3>3, <3>4, Zenon DEF Fresh
    <3>6. ASSUME NEW t \in Serving
          PROVE  EnvKept(rq[t], Request(t), scenario.hooks, EnvHeaders(t)', conf'.migrate.mEnvLists)
      BY <3>3, NewRequestKept, Zenon
    <3> QED BY <3>1, <3>2, <3>4, <3>5, <3>6, Zenon DEF EnvInv
  <2>5. ASSUME NEW t \in Threads, Step(t) PROVE EnvInv'
    <3>1. UNCHANGED <<scenario, phase, conf>> /\ phase = "running"
      BY <2>5, Zenon DEF Step, translateHookCompare, translateHookMigrate, Translated, inputFilterHandler,
         Unpacks, StopsReading, outputFilterHandler, TruncatesLog, PassesOn,
         writeSerializedRequest, outputFilterHandler2, writeDifferences, RecordWritten, PassesAgain,
         Finishes, OnlyRequest, writeDifferencesThrows, WritesRecord, Running
    <3>2. \/ UNCHANGED rq
          \/ /\ t \in Serving
             /\ \E y : /\ Becomes(t, y)
                       /\ EnvKept(y, Request(t), scenario.hooks, EnvHeaders(t), conf.migrate.mEnvLists)
      BY <2>5, KeptStep, Zenon
    <3> QED BY <2>1, <2>2, <3>1, <3>2, Zenon
  <2>6. ASSUME NEW t \in Threads, Wakes(t) PROVE EnvInv'
    BY <2>1, <2>6, Zenon DEF Wakes
  <2>7. ASSUME NEW p \in Processes, Crash(p) PROVE EnvInv'
    BY <2>1, <2>7, Zenon DEF Crash
  <2> QED BY <2>3, <2>4, <2>5, <2>6, <2>7, Zenon DEF Next
<1> QED BY <1>1, <1>2, RequestInvariant, PTL DEF Spec

\* mod_migrate sets the variables that its rules find in the whole of the request:
\* those of the last rule and text that match, with the headers as the hook of
\* mod_compare left them if Apache called it before (enrichContext).
THEOREM EnvIsSet == Spec => []EnvMatches
<1>1. EnvInv => EnvMatches
  BY Zenon DEF EnvInv, EnvKept, EnvMatches, EnvTexts
<1> QED BY <1>1, EnvInvariant, PTL
=============================================================================
