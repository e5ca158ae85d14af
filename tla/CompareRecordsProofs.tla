------------------------ MODULE CompareRecordsProofs ------------------------
(***************************************************************************)
(* The records of differences come out whole: the parts of a record are    *)
(* together in the log, whichever threads and processes write at the same  *)
(* time and whichever are killed (RecordsWhole). Rests on the mutex        *)
(* (CompareProofs), and on the last part being flushed before the unlock.  *)
(* And every record that was written is in the log, each part once and in  *)
(* order, unless two threads of its process used the stream at once, which *)
(* only archives and an early mutex let them do (RecordsKept). What the    *)
(* records say of Cassandra is in one of them (CassandraReported). Then    *)
(* the types, and what is in the records: the differences of the two       *)
(* answers that the rules leave (DifferencesLogged) and all that Cassandra *)
(* had (CassandraComplete).                                                *)
(***************************************************************************)
EXTENDS CompareProofs, SequenceTheorems

-----------------------------------------------------------------------------
(* The inductive invariant.                                                *)

Cells == Threads \X (1 .. Parts)
Buf(t) == gFile[Process[t]].buf

FileShape ==
    /\ DOMAIN gFile = Processes
    /\ \A p \in Processes : /\ DOMAIN gFile[p] = {"mode", "pos", "buf", "torn"}
                            /\ gFile[p].mode \in {"closed", "app", "closing", "trunc"}

Streams == log \in Seq(Cells) /\ \A t \in Threads : Buf(t) \in Seq(Cells)

\* The directives are the same for all records.
Alike == \A t \in Threads :
    writer[t].pc # "idle" => /\ writer[t].file = conf.gWriteInFile
                             /\ writer[t].form = conf.compare.mLogType

\* Before its critical section a thread has written nothing, after it all.
Before == {"start", "mutex", "ftruncate", "init", "mmap", "lock", "asleep"}
Inside == (Before \ {"start"}) \cup {"write", "unlock"}

Progress == \A t \in Threads :
    /\ writer[t].pc \in Before \cup Resting \cup {"write", "unlock"}
    /\ writer[t].pc \in Before => writer[t].part = 1
    /\ writer[t].pc = "write" => writer[t].part \in 1 .. Parts
    /\ writer[t].pc = "write" /\ ~NeedsMutex(t) => writer[t].part = 1
    /\ writer[t].pc = "unlock" => writer[t].part = Parts + 1
    /\ writer[t].pc \in Inside /\ writer[t].file => gFile[Process[t]].mode = "app"

\* A stream holds back parts of the record being written, and nothing else.
NobodyWrites(p) == p \in alive /\ \A u \in Threads : Process[u] = p => writer[u].pc # "write"

Unflushed ==
    /\ \A t \in Threads : NobodyWrites(Process[t]) => Buf(t) = <<>>
    /\ \A t \in Threads : Process[t] \in alive /\ writer[t].pc = "write" =>
        /\ Len(Buf(t)) < writer[t].part
        /\ \A i \in 1 .. Len(Buf(t)) : Buf(t)[i] = <<t, writer[t].part - 1 - Len(Buf(t)) + i>>
    /\ ~conf.gWriteInFile => \A t \in Threads : Buf(t) = <<>>

\* A record that ends in the middle is being written, or its writer was killed.
Broken(t) == writer[t].pc = "write" /\ Process[t] \notin alive

Chained ==
    /\ \A i \in 1 .. Len(log) - 1 :
        log[i][2] < Parts => log[i + 1][1] = log[i][1] \/ Broken(log[i][1])
    /\ log # <<>> /\ log[Len(log)][2] < Parts =>
        writer[log[Len(log)][1]].pc = "write" /\ NeedsMutex(log[Len(log)][1])

Records == Streams /\ Alike /\ Progress /\ Unflushed /\ Chained

\* Before the server runs there is nothing to write.
Quiet ==
    /\ log = <<>>
    /\ \A t \in Threads : writer[t] = NoWriter
    /\ gFile = [p \in Processes |-> [mode |-> "closed", pos |-> 0, buf |-> <<>>, torn |-> FALSE]]

\* What a record may meet: a reopened log, a mutex used too early, archives.
Undisturbed == ~early /\ ~Truncated /\ ~conf.compare.mCompareDisabled

\* The directives change values of the configuration, and no other type of log.
ConfShape(c) ==
    /\ {"compare", "migrate", "gWriteInFile"} \subseteq DOMAIN c
    /\ {"mLogType", "mCompareDisabled"} \subseteq DOMAIN c.compare
    /\ c.compare.mLogType \in {"json", "multiline"}
    /\ c.gWriteInFile \in BOOLEAN

RecordsInv ==
    /\ FileShape
    /\ ConfShape(conf)
    /\ phase # "running" => Quiet
    /\ phase = "running" /\ Undisturbed => Records

-----------------------------------------------------------------------------
(* Facts about the definitions.                                            *)

LEMMA ProcessOf == ASSUME NEW t \in Threads PROVE Process[t] \in Processes
BY CompareLogAssumption DEF Processes, Range

LEMMA MaxOfTwo ==
    ASSUME NEW m \in Nat, NEW n \in Nat, m <= n
    PROVE  Max({m, n}) = n
BY DEF Max

\* A buffer that is written at the end of the file is appended to it.
LEMMA OverwriteEnd ==
    ASSUME NEW S, NEW a \in Seq(S), NEW b \in Seq(S)
    PROVE  Overwrite(a, Len(a), b) = a \o b
<1>1. Len(a) \in Nat /\ Len(b) \in Nat /\ Len(a) <= Len(a) + Len(b)
  OBVIOUS
<1>2. Max({Len(a), Len(a) + Len(b)}) = Len(a) + Len(b)
  BY <1>1, MaxOfTwo
<1>3. Overwrite(a, Len(a), b) =
        [i \in 1 .. Len(a) + Len(b) |->
            IF i \in Len(a) + 1 .. Len(a) + Len(b) THEN b[i - Len(a)]
            ELSE IF i <= Len(a) THEN a[i] ELSE Hole]
  BY <1>2 DEF Overwrite
<1>4. /\ a \o b \in Seq(S) /\ Len(a \o b) = Len(a) + Len(b)
      /\ \A i \in 1 .. Len(a) + Len(b) : (a \o b)[i] = IF i <= Len(a) THEN a[i] ELSE b[i - Len(a)]
  OBVIOUS
<1> DEFINE o == Overwrite(a, Len(a), b)
           ab == a \o b
<1>5. \A i \in 1 .. Len(a) + Len(b) : o[i] = ab[i] /\ o[i] \in S
  BY <1>1, <1>3, <1>4
<1>6. DOMAIN o = 1 .. Len(a) + Len(b) /\ o = [i \in 1 .. Len(a) + Len(b) |-> o[i]]
  BY <1>3
<1>7. ab \in Seq(S) /\ Len(ab) = Len(a) + Len(b)
  BY <1>4
<1> HIDE DEF o, ab
<1>8. o \in Seq(S) /\ Len(o) = Len(a) + Len(b)
  BY <1>1, <1>5, <1>6
<1>9. o = ab
  BY <1>5, <1>7, <1>8, SeqEqual
<1> QED BY <1>9 DEF o, ab

LEMMA AppendCell ==
    ASSUME NEW S, NEW a \in Seq(S), NEW e \in S
    PROVE  /\ Append(a, e) \in Seq(S) /\ Append(a, e) # <<>> /\ Len(Append(a, e)) = Len(a) + 1
           /\ \A i \in 1 .. Len(a) : Append(a, e)[i] = a[i]
           /\ Append(a, e)[Len(a) + 1] = e
OBVIOUS

LEMMA LogCells ==
    ASSUME Streams
    PROVE  /\ Len(log) \in Nat /\ (log # <<>> => Len(log) >= 1)
           /\ \A i \in 1 .. Len(log) : log[i][1] \in Threads /\ log[i][2] \in 1 .. Parts
<1>1. log \in Seq(Cells)
  BY DEF Streams
<1>2. \A i \in 1 .. Len(log) : log[i] \in Threads \X (1 .. Parts)
  BY <1>1 DEF Cells
<1> QED BY <1>1, <1>2

LEMMA StillUndisturbed ==
    ASSUME RecordsInv, \A p \in Processes : gFile'[p].mode = gFile[p].mode, early => early',
           UNCHANGED conf, Undisturbed'
    PROVE  Undisturbed
BY DEF Undisturbed, Truncated

LEMMA KeepsInv ==
    ASSUME RecordsInv, phase = "running", UNCHANGED <<phase, conf>>, FileShape', Undisturbed' => Records'
    PROVE  RecordsInv'
BY DEF RecordsInv

-----------------------------------------------------------------------------
(* Steps that write nothing.                                               *)

\* A thread moves, to the start of its critical section only with nothing of
\* another record in the stream.
LEMMA MoveStep ==
    ASSUME LogInv, Records, NEW t \in Threads,
           \A u \in Threads : u # t => writer'[u] = writer[u],
           writer[t].pc # "write",
           writer'[t].file = conf.gWriteInFile, writer'[t].form = conf.compare.mLogType,
           writer'[t].pc \in Before \cup Resting \cup {"write"},
           writer'[t].pc \in Before \cup {"write"} => writer'[t].part = 1,
           writer'[t].pc \in Inside /\ writer'[t].file => gFile[Process[t]].mode = "app",
           writer'[t].pc = "write" => Process[t] \in alive /\ Buf(t) = <<>>,
           UNCHANGED <<log, gFile, alive, conf>>
    PROVE  Records'
<1>1. Streams'
  BY DEF Records, Streams, Buf
<1>2. Alike'
  BY DEF Records, Alike
<1>3. Progress'
  BY DEF Records, Progress, NeedsMutex, Before, Resting, Parts
<1>4. Unflushed'
  <2>1. ASSUME NEW s \in Threads, NobodyWrites(Process[s])' PROVE Buf(s) = <<>>
    <3>1. CASE NobodyWrites(Process[s])
      BY <3>1 DEF Records, Unflushed
    <3>2. CASE ~NobodyWrites(Process[s])
      BY <2>1, <3>2 DEF NobodyWrites
    <3> QED BY <3>1, <3>2
  <2>2. ASSUME NEW s \in Threads, Process[s] \in alive, writer'[s].pc = "write"
        PROVE  /\ Len(Buf(s)) < writer'[s].part
               /\ \A i \in 1 .. Len(Buf(s)) : Buf(s)[i] = <<s, writer'[s].part - 1 - Len(Buf(s)) + i>>
    <3>1. CASE s = t
      BY <2>2, <3>1
    <3>2. CASE s # t
      BY <2>2, <3>2 DEF Records, Unflushed
    <3> QED BY <3>1, <3>2
  <2>3. ~conf.gWriteInFile => \A s \in Threads : Buf(s) = <<>>
    BY DEF Records, Unflushed
  <2> QED BY <2>1, <2>2, <2>3 DEF Unflushed, Buf
<1>5. Chained'
  <2>1. \A u \in Threads : Broken(u)' <=> Broken(u)
    BY DEF Broken
  <2>2. log # <<>> => log[Len(log)][1] \in Threads
    BY LogCells DEF Records
  <2>3. \A i \in 1 .. Len(log) - 1 : log[i][1] \in Threads
    BY LogCells DEF Records
  <2>4. \A u \in Threads : writer[u].pc = "write" /\ NeedsMutex(u) => writer'[u].pc = "write" /\ NeedsMutex(u)'
    BY DEF NeedsMutex
  <2>5. \A i \in 1 .. Len(log) - 1 :
            log[i][2] < Parts => log[i + 1][1] = log[i][1] \/ Broken(log[i][1])'
    BY <2>1, <2>3 DEF Records, Chained
  <2>6. log # <<>> /\ log[Len(log)][2] < Parts =>
            writer'[log[Len(log)][1]].pc = "write" /\ NeedsMutex(log[Len(log)][1])'
    BY <2>2, <2>4 DEF Records, Chained
  <2> QED BY <2>5, <2>6 DEF Chained
<1> QED BY <1>1, <1>2, <1>3, <1>4, <1>5 DEF Records

\* A process is killed: the record it was writing stays as it is.
LEMMA DieKeeps ==
    ASSUME RecordsInv, NEW p, phase = "running", UNCHANGED <<phase, conf>>, Die(p)
    PROVE  RecordsInv'
<1>1. UNCHANGED <<early, gFile, log, writer>> /\ alive' = alive \ {p}
  BY DEF Die
<1>2. FileShape'
  BY <1>1 DEF RecordsInv, FileShape
<1>3. ASSUME Undisturbed' PROVE Records'
  <2>1. Undisturbed
    BY <1>1, <1>3 DEF Undisturbed, Truncated
  <2>2. Records
    BY <2>1 DEF RecordsInv
  <2>3. Streams' /\ Alike' /\ Progress'
    BY <1>1, <2>2 DEF Records, Streams, Buf, Alike, Progress, NeedsMutex
  <2>4. \A s \in Threads : NobodyWrites(Process[s])' => NobodyWrites(Process[s])
    BY <1>1 DEF NobodyWrites
  <2>5. Unflushed'
    BY <1>1, <2>2, <2>4 DEF Records, Unflushed, Buf
  <2>6. \A u \in Threads : Broken(u) => Broken(u)'
    BY <1>1 DEF Broken
  <2>7. \A i \in 1 .. Len(log) - 1 : log[i][1] \in Threads
    BY <2>2, LogCells DEF Records
  <2>8. Chained'
    BY <1>1, <2>2, <2>6, <2>7 DEF Records, Chained, NeedsMutex
  <2> QED BY <2>3, <2>5, <2>8 DEF Records
<1> QED BY <1>2, <1>3, KeepsInv

-----------------------------------------------------------------------------
(* Steps that write.                                                       *)

\* The mutex: nobody else who is alive is in the middle of a record.
LEMMA Alone ==
    ASSUME LogInv, Records, ~early, NEW t \in Threads, NEW u \in Threads,
           Process[t] \in alive, writer[t].pc = "write", NeedsMutex(t),
           Process[u] \in alive, writer[u].pc = "write"
    PROVE  u = t
<1>1. NeedsMutex(u)
  BY DEF Records, Alike, NeedsMutex
<1>2. Critical(t) /\ Critical(u)
  BY <1>1 DEF Critical
<1> QED BY <1>2 DEF LogInv, Owns

\* Parts k + 1 and following of the record of t go to the end of the log.
LEMMA AppendStep ==
    ASSUME LogInv, Records, ~early, NEW t \in Threads,
           Process[t] \in alive, writer[t].pc = "write",
           NEW b \in Seq(Cells), b # <<>>, NEW k \in Int, \A i \in 1 .. Len(b) : b[i] = <<t, k + i>>,
           log' = log \o b, UNCHANGED alive,
           \A u \in Threads : u # t => writer'[u] = writer[u],
           k + Len(b) < Parts => writer'[t].pc = "write" /\ NeedsMutex(t)'
    PROVE  log' \in Seq(Cells) /\ Chained'
<1>1. /\ log \in Seq(Cells) /\ Len(log) \in Nat /\ Len(b) \in Nat /\ Len(b) >= 1
      /\ log' \in Seq(Cells) /\ Len(log') = Len(log) + Len(b)
      /\ \A i \in 1 .. Len(log) : log'[i] = log[i]
      /\ \A i \in Len(log) + 1 .. Len(log) + Len(b) : log'[i] = b[i - Len(log)]
  BY DEF Records, Streams
<1>2. \A i \in Len(log) + 1 .. Len(log) + Len(b) : log'[i] = <<t, k + i - Len(log)>>
  <2> SUFFICES ASSUME NEW i \in Len(log) + 1 .. Len(log) + Len(b)
               PROVE  log'[i] = <<t, k + i - Len(log)>>
    OBVIOUS
  <2>1. i - Len(log) \in 1 .. Len(b)
    BY <1>1
  <2>2. b[i - Len(log)] = <<t, k + (i - Len(log))>>
    BY <2>1
  <2> QED BY <1>1, <2>2
<1> DEFINE BrokenNow(u) == writer'[u].pc = "write" /\ Process[u] \notin alive
<1>3. \A u \in Threads : Broken(u) => BrokenNow(u)
  BY DEF Broken
<1> HIDE DEF BrokenNow
<1>4. \A i \in 1 .. Len(log) : log[i][1] \in Threads
  BY LogCells DEF Records
<1>5. ASSUME NEW i \in 1 .. Len(log') - 1, log'[i][2] < Parts
      PROVE  log'[i + 1][1] = log'[i][1] \/ BrokenNow(log'[i][1])
  <2>1. CASE i < Len(log)
    <3>1. i \in 1 .. Len(log) - 1 /\ log'[i] = log[i] /\ log'[i + 1] = log[i + 1]
      BY <1>1, <2>1
    <3>2. log[i][1] \in Threads
      BY <1>1, <1>4, <3>1
    <3>3. log[i + 1][1] = log[i][1] \/ Broken(log[i][1])
      BY <1>5, <3>1 DEF Records, Chained
    <3> QED BY <1>3, <3>1, <3>2, <3>3
  <2>2. CASE i = Len(log)
    <3>1. log'[i] = log[i] /\ log # <<>> /\ log[i][2] < Parts /\ log[i][1] \in Threads
      BY <1>1, <1>4, <1>5, <2>2
    <3>2. log'[i + 1][1] = t
      <4>1. i + 1 \in Len(log) + 1 .. Len(log) + Len(b)
        BY <1>1, <2>2
      <4>2. log'[i + 1] = <<t, k + (i + 1) - Len(log)>>
        BY <1>2, <4>1
      <4> QED BY <4>2
    <3>3. writer[log[i][1]].pc = "write" /\ NeedsMutex(log[i][1])
      BY <2>2, <3>1 DEF Records, Chained
    <3>4. CASE Process[log[i][1]] \in alive
      <4>1. NeedsMutex(t)
        BY <3>1, <3>3 DEF Records, Alike, NeedsMutex
      <4>2. log[i][1] = t
        BY <3>1, <3>3, <3>4, <4>1, Alone
      <4> QED BY <3>1, <3>2, <4>2
    <3>5. CASE Process[log[i][1]] \notin alive
      <4>1. Broken(log[i][1])
        BY <3>3, <3>5 DEF Broken
      <4> QED BY <1>3, <3>1, <4>1
    <3> QED BY <3>4, <3>5
  <2>3. CASE i > Len(log)
    <3>1. i \in Len(log) + 1 .. Len(log) + Len(b) /\ i + 1 \in Len(log) + 1 .. Len(log) + Len(b)
      BY <1>1, <2>3
    <3>2. log'[i] = <<t, k + i - Len(log)>>
      BY <1>2, <3>1
    <3>3. log'[i + 1] = <<t, k + (i + 1) - Len(log)>>
      BY <1>2, <3>1
    <3> QED BY <3>2, <3>3
  <2> QED BY <1>1, <2>1, <2>2, <2>3
<1>6. log'[Len(log')] = <<t, k + Len(b)>>
  <2>1. Len(log') \in Len(log) + 1 .. Len(log) + Len(b) /\ k + Len(log') - Len(log) = k + Len(b)
    BY <1>1
  <2> QED BY <1>2, <2>1
<1>7. log'[Len(log')][1] = t /\ log'[Len(log')][2] = k + Len(b)
  BY <1>6
<1>8. k + Len(b) < Parts => writer'[t].pc = "write" /\ (writer'[t].file \/ writer'[t].form = "multiline")
  BY DEF NeedsMutex
<1>9. log'[Len(log')][2] < Parts =>
        /\ writer'[log'[Len(log')][1]].pc = "write"
        /\ writer'[log'[Len(log')][1]].file \/ writer'[log'[Len(log')][1]].form = "multiline"
  BY <1>7, <1>8
<1> QED BY <1>1, <1>5, <1>9 DEF Chained, Broken, BrokenNow, NeedsMutex

\* Whatever a part of a record does to a stream, no other is changed, and it is
\* open as it was. A stream is torn by a race alone.
LEMMA PutShape ==
    ASSUME FileShape, NEW t \in Threads, NEW flush, Put(t, flush)
    PROVE  /\ FileShape'
           /\ \A p \in Processes : gFile'[p].mode = gFile[p].mode
           /\ \A p \in Processes : p # Process[t] => gFile'[p] = gFile[p]
           /\ gFile'[Process[t]].torn <=> gFile[Process[t]].torn \/ Races(t)
<1>1. PICK buf \in BuffersAfter(t) :
        LET f == gFile[Process[t]]
            out == f.mode \notin Closed /\ (flush \/ Len(buf) >= BufSize)
            pos == IF f.mode = "app" THEN Len(log) ELSE f.pos
        IN gFile' = [gFile EXCEPT ![Process[t]].buf = IF out \/ f.mode \in Closed THEN <<>> ELSE buf,
                                  ![Process[t]].pos = IF out THEN pos + Len(buf) ELSE @,
                                  ![Process[t]].torn = @ \/ Races(t)]
  BY Zenon DEF Put
<1> DEFINE q == Process[t]
           f == gFile[q]
           out == f.mode \notin Closed /\ (flush \/ Len(buf) >= BufSize)
           pos == IF f.mode = "app" THEN Len(log) ELSE f.pos
           a == IF out \/ f.mode \in Closed THEN <<>> ELSE buf
           b == IF out THEN pos + Len(buf) ELSE f.pos
           c == f.torn \/ Races(t)
<1>2. gFile' = [gFile EXCEPT ![q].buf = a, ![q].pos = b, ![q].torn = c]
  BY <1>1
<1>3. c <=> gFile[q].torn \/ Races(t)
  OBVIOUS
<1>4. q \in Processes
  BY ProcessOf
<1> HIDE DEF a, b, c, out, pos, q
<1>5. /\ DOMAIN gFile' = Processes /\ gFile'[q] = [gFile[q] EXCEPT !.buf = a, !.pos = b, !.torn = c]
      /\ \A p \in Processes : p # q => gFile'[p] = gFile[p]
  BY <1>2, <1>4 DEF FileShape
<1>6. DOMAIN gFile'[q] = {"mode", "pos", "buf", "torn"} /\ gFile'[q].mode = gFile[q].mode /\ gFile'[q].torn = c
  BY <1>4, <1>5 DEF FileShape
<1>7. \A p \in Processes : gFile'[p].mode = gFile[p].mode /\ DOMAIN gFile'[p] = DOMAIN gFile[p]
  BY <1>4, <1>5, <1>6 DEF FileShape
<1>8. FileShape'
  BY <1>5, <1>7 DEF FileShape
<1>9. gFile'[q].torn <=> gFile[q].torn \/ Races(t)
  BY <1>3, <1>6
<1> QED BY <1>5, <1>7, <1>8, <1>9 DEF q

\* Of a buffer after a race nobody knows more than whose cells are in it.
LEMMA BuffersAfterAre ==
    ASSUME NEW t \in Threads, Buf(t) \in Seq(Cells), writer[t].part \in 1 .. Parts,
           NEW b \in BuffersAfter(t)
    PROVE  /\ b \in Seq(Cells) /\ Len(b) \in Nat
           /\ \A j \in 1 .. Len(b) : \/ b[j] = <<t, writer[t].part>>
                                     \/ \E i \in 1 .. Len(Buf(t)) : b[j] = Buf(t)[i]
           /\ ~Races(t) => b = Append(Buf(t), <<t, writer[t].part>>)
<1> DEFINE a == Buf(t)
           c == <<t, writer[t].part>>
<1>1. /\ b \in {Append(a, c), a, a \o <<c, c>>, <<c>>}
      /\ ~Races(t) => b = Append(a, c)
  BY Zenon DEF BuffersAfter, Buf
<1>2. c \in Cells /\ a \in Seq(Cells)
  BY DEF Cells
<1> HIDE DEF a, c
<1>3. ASSUME NEW j \in 1 .. Len(b) PROVE b[j] = c \/ \E i \in 1 .. Len(a) : b[j] = a[i]
  <2>1. CASE b = Append(a, c)
    BY <1>2, <2>1
  <2>2. CASE b = a
    BY <2>2
  <2>3. CASE b = a \o <<c, c>>
    <3>1. /\ Len(b) = Len(a) + 2 /\ Len(a) \in Nat
          /\ j \in 1 .. Len(a) => b[j] = a[j]
          /\ j = Len(a) + 1 \/ j = Len(a) + 2 => b[j] = c
      BY <1>2, <2>3
    <3>2. j \in 1 .. Len(a) \/ j = Len(a) + 1 \/ j = Len(a) + 2
      BY <3>1
    <3> QED BY <3>1, <3>2
  <2>4. CASE b = <<c>>
    BY <2>4
  <2> QED BY <1>1, <2>1, <2>2, <2>3, <2>4
<1>4. b \in Seq(Cells) /\ Len(b) \in Nat
  <2>1. <<c>> \in Seq(Cells) /\ <<c, c>> \in Seq(Cells)
    BY <1>2
  <2>2. Append(a, c) \in Seq(Cells)
    BY <1>2
  <2>3. a \o <<c, c>> \in Seq(Cells)
    BY <1>2, <2>1
  <2>4. b \in Seq(Cells)
    BY <1>1, <1>2, <2>1, <2>2, <2>3
  <2> QED BY <2>4
<1> QED BY <1>1, <1>3, <1>4 DEF a, c

\* What a part of a record does to the stream of its process, with b as the
\* buffer after it: that stays in the buffer, or goes to the end of the file.
Goes(t, flush, b) ==
    /\ \/ log' = log \o b /\ Buf(t)' = <<>>
       \/ ~flush /\ log' = log /\ Buf(t)' = b
    /\ \A u \in Threads : Process[u] # Process[t] => Buf(u)' = Buf(u)

LEMMA PutGoes ==
    ASSUME RecordsInv, Streams, NEW t \in Threads, writer[t].part \in 1 .. Parts,
           gFile[Process[t]].mode = "app", NEW flush \in BOOLEAN, Put(t, flush)
    PROVE  \E b \in BuffersAfter(t) : Goes(t, flush, b)
<1>0. PICK b \in BuffersAfter(t) :
        LET f == gFile[Process[t]]
            out == f.mode \notin Closed /\ (flush \/ Len(b) >= BufSize)
            pos == IF f.mode = "app" THEN Len(log) ELSE f.pos
        IN /\ log' = IF out THEN Overwrite(log, pos, b) ELSE log
           /\ gFile' = [gFile EXCEPT ![Process[t]].buf = IF out \/ f.mode \in Closed THEN <<>> ELSE b,
                                     ![Process[t]].pos = IF out THEN pos + Len(b) ELSE @,
                                     ![Process[t]].torn = @ \/ Races(t)]
  BY Zenon DEF Put
<1> DEFINE p == Process[t]
           out == gFile[p].mode \notin Closed /\ (flush \/ Len(b) >= BufSize)
           pos == IF gFile[p].mode = "app" THEN Len(log) ELSE gFile[p].pos
<1>1. gFile[p].mode = "app"
  OBVIOUS
<1>2. /\ log' = IF out THEN Overwrite(log, pos, b) ELSE log
      /\ gFile' = [gFile EXCEPT ![p].buf = IF out \/ gFile[p].mode \in Closed THEN <<>> ELSE b,
                                ![p].pos = IF out THEN pos + Len(b) ELSE @,
                                ![p].torn = @ \/ Races(t)]
  BY <1>0
<1>3. gFile[p].mode \notin Closed /\ pos = Len(log)
  BY <1>1 DEF Closed
<1>4. log \in Seq(Cells) /\ b \in Seq(Cells)
  BY BuffersAfterAre DEF Streams
<1> HIDE DEF pos
<1>5. Process[t] \in Processes /\ \A u \in Threads : Process[u] \in Processes
  BY ProcessOf
<1>6. Buf(t)' = IF out THEN <<>> ELSE b
  BY <1>2, <1>3, <1>5 DEF RecordsInv, FileShape, Buf
<1>7. \A u \in Threads : Process[u] # Process[t] => Buf(u)' = Buf(u)
  BY <1>2, <1>5 DEF RecordsInv, FileShape, Buf
<1>8. CASE out
  <2>1. Overwrite(log, pos, b) = log \o b
    BY <1>3, <1>4, OverwriteEnd
  <2>2. Goes(t, flush, b)
    BY <1>2, <1>6, <1>7, <1>8, <2>1 DEF Goes
  <2> QED BY <2>2
<1>9. CASE ~out
  <2>1. ~flush
    BY <1>3, <1>9
  <2>2. Goes(t, flush, b)
    BY <1>2, <1>6, <1>7, <1>9, <2>1 DEF Goes
  <2> QED BY <2>2
<1> QED BY <1>8, <1>9

\* If nobody else of the process is using the stream, the part goes behind the others.
LEMMA PutStep ==
    ASSUME RecordsInv, Streams, NEW t \in Threads, writer[t].part \in 1 .. Parts, ~Races(t),
           gFile[Process[t]].mode = "app", NEW flush \in BOOLEAN, Put(t, flush)
    PROVE  LET b == Append(Buf(t), <<t, writer[t].part>>)
           IN /\ \/ log' = log \o b /\ Buf(t)' = <<>>
                 \/ ~flush /\ log' = log /\ Buf(t)' = b
              /\ \A u \in Threads : Process[u] # Process[t] => Buf(u)' = Buf(u)
<1>1. PICK b \in BuffersAfter(t) : Goes(t, flush, b)
  BY PutGoes
<1>2. Buf(t) \in Seq(Cells)
  BY DEF Streams
<1>3. b = Append(Buf(t), <<t, writer[t].part>>)
  BY <1>2, BuffersAfterAre
<1> QED BY <1>1, <1>3 DEF Goes

\* Under the mutex nobody else of the process uses the stream.
LEMMA NoRace ==
    ASSUME LogInv, Records, ~early, NEW t \in Threads,
           Process[t] \in alive, writer[t].pc = "write", NeedsMutex(t)
    PROVE  ~Races(t)
<1>1. SUFFICES ASSUME NEW u \in Threads \ {t}, Process[u] = Process[t], writer[u].pc \in {"write", "endl"}
               PROVE  FALSE
  BY Zenon DEF Races
<1>2. writer[u].pc # "endl"
  BY DEF Records, Progress, Before, Resting
<1>3. u = t
  BY <1>1, <1>2, Alone
<1> QED BY <1>3

LEMMA WritesPartKeeps ==
    ASSUME LogInv, RecordsInv, NEW t \in Threads, phase = "running", UNCHANGED <<phase, conf>>,
           WritesPart(t)
    PROVE  RecordsInv'
<1> DEFINE part == writer[t].part
           b == Append(Buf(t), <<t, part>>)
<1>1. /\ writer[t].pc = "write" /\ Process[t] \in alive /\ writer[t].file
      /\ Put(t, part = Parts) /\ UNCHANGED <<mutexVars, alive>>
  BY DEF WritesPart, At
<1>2. FileShape' /\ \A p \in Processes : gFile'[p].mode = gFile[p].mode
  BY <1>1, PutShape DEF RecordsInv
<1>3. ASSUME Undisturbed' PROVE Records'
  <2>1. Undisturbed
    BY <1>1, <1>2, <1>3, StillUndisturbed DEF mutexVars
  <2>2. Records /\ ~early
    BY <2>1 DEF RecordsInv, Undisturbed
  <2>3. /\ writer[t].form # "archive" /\ NeedsMutex(t) /\ conf.gWriteInFile
        /\ part \in 1 .. Parts
    BY <1>1, <2>2 DEF RecordsInv, ConfShape, Records, Alike, Progress, NeedsMutex
  <2> DEFINE to == IF part = Parts THEN "unlock" ELSE "write"
  <2>4. writer' = [writer EXCEPT ![t].part = part + 1, ![t].pc = to]
    BY <2>3 DEF WritesPart
  <2>5. to \in {"unlock", "write"} /\ (to = "unlock" <=> part = Parts)
    OBVIOUS
  <2>6. /\ \A u \in Threads : u # t => writer'[u] = writer[u]
        /\ writer'[t].pc = to /\ writer'[t].part = part + 1
        /\ writer'[t].form = writer[t].form /\ writer'[t].file = writer[t].file
    BY <2>4 DEF LogInv, Shape, Fields
  <2>7. (part = Parts) \in BOOLEAN
    OBVIOUS
  <2>8. /\ \/ log' = log \o b /\ Buf(t)' = <<>>
           \/ part # Parts /\ log' = log /\ Buf(t)' = b
        /\ \A u \in Threads : Process[u] # Process[t] => Buf(u)' = Buf(u)
    <3>1. Streams /\ gFile[Process[t]].mode = "app"
      BY <1>1, <2>2 DEF Records, Progress, Inside
    <3>2. ~Races(t)
      BY <1>1, <2>2, <2>3, NoRace
    <3> QED BY <1>1, <2>3, <2>7, <3>1, <3>2, PutStep
  <2>9. /\ Buf(t) \in Seq(Cells) /\ Len(Buf(t)) \in Nat /\ Len(Buf(t)) < part
        /\ \A i \in 1 .. Len(Buf(t)) : Buf(t)[i] = <<t, part - 1 - Len(Buf(t)) + i>>
    BY <1>1, <2>2 DEF Records, Streams, Unflushed
  <2>10. /\ b \in Seq(Cells) /\ b # <<>> /\ Len(b) = Len(Buf(t)) + 1
         /\ \A i \in 1 .. Len(Buf(t)) : b[i] = Buf(t)[i]
         /\ b[Len(Buf(t)) + 1] = <<t, part>>
    <3>1. <<t, part>> \in Cells
      BY <2>3 DEF Cells
    <3> QED BY <2>9, <3>1, AppendCell
  <2> DEFINE k == part - 1 - Len(Buf(t))
  <2>11. k \in Int /\ k + Len(b) = part /\ Len(b) < part + 1 /\ k = (part + 1) - 1 - Len(b)
    BY <2>3, <2>9, <2>10 DEF Parts
  <2>12. ASSUME NEW i \in 1 .. Len(b) PROVE b[i] = <<t, k + i>>
    <3>1. CASE i \in 1 .. Len(Buf(t))
      BY <2>9, <2>10, <3>1
    <3>2. CASE i = Len(Buf(t)) + 1
      <4>1. k + i = part
        BY <2>3, <2>9, <3>2 DEF Parts
      <4> QED BY <2>10, <3>2, <4>1
    <3> QED BY <2>9, <2>10, <3>1, <3>2
  <2> HIDE DEF b, k, to, part
  <2>13. NeedsMutex(t)'
    BY <2>3, <2>6 DEF NeedsMutex
  <2>14. log' \in Seq(Cells) /\ Chained'
    <3>1. CASE log' = log \o b
      <4>1. k + Len(b) < Parts => writer'[t].pc = "write" /\ NeedsMutex(t)'
        BY <2>3, <2>5, <2>6, <2>11, <2>13 DEF Parts
      <4> QED BY <1>1, <2>2, <2>6, <2>10, <2>11, <2>12, <3>1, <4>1, AppendStep
    <3>2. CASE part # Parts /\ log' = log
      <4>1. writer'[t].pc = "write"
        BY <2>5, <2>6, <3>2
      <4>2. \A u \in Threads : Broken(u)' <=> Broken(u)
        BY <1>1, <2>6, <4>1 DEF Broken
      <4>3. \A u \in Threads : writer[u].pc = "write" /\ NeedsMutex(u)
                => writer'[u].pc = "write" /\ NeedsMutex(u)'
        BY <2>6, <2>13, <4>1 DEF NeedsMutex
      <4>4. log \in Seq(Cells) /\ \A i \in 1 .. Len(log) : log[i][1] \in Threads
        BY <2>2, LogCells DEF Records, Streams
      <4>5. log # <<>> => Len(log) \in 1 .. Len(log)
        BY <4>4
      <4>6. \A i \in 1 .. Len(log) - 1 : i \in 1 .. Len(log)
        BY <4>4
      <4>7. \A i \in 1 .. Len(log) - 1 :
                log[i][2] < Parts => log[i + 1][1] = log[i][1] \/ Broken(log[i][1])'
        BY <2>2, <3>2, <4>2, <4>4, <4>6 DEF Records, Chained
      <4>8. log # <<>> /\ log[Len(log)][2] < Parts =>
                writer'[log[Len(log)][1]].pc = "write" /\ NeedsMutex(log[Len(log)][1])'
        BY <2>2, <3>2, <4>3, <4>4, <4>5 DEF Records, Chained
      <4> QED BY <3>2, <4>4, <4>7, <4>8 DEF Chained
    <3> QED BY <2>8, <3>1, <3>2
  <2>15. \A u \in Threads : Process[u] = Process[t] => Buf(u)' = Buf(t)'
    BY DEF Buf
  <2>16. Streams'
    <3>1. Buf(t)' = <<>> \/ Buf(t)' = b
      BY <2>8
    <3>2. <<>> \in Seq(Cells)
      OBVIOUS
    <3>3. Buf(t)' \in Seq(Cells)
      BY <2>10, <3>1, <3>2
    <3> QED BY <2>2, <2>8, <2>14, <2>15, <3>3 DEF Records, Streams
  <2>17. Alike'
    BY <1>1, <2>2, <2>6 DEF Records, Alike
  <2>18. Progress'
    <3>1. ASSUME NEW u \in Threads, u # t
          PROVE  /\ writer'[u] = writer[u] /\ (NeedsMutex(u)' <=> NeedsMutex(u))
                 /\ gFile'[Process[u]].mode = gFile[Process[u]].mode
      BY <1>2, <2>6, <3>1, ProcessOf DEF NeedsMutex
    <3>2. /\ writer'[t].pc \in Before \cup Resting \cup {"write", "unlock"}
          /\ writer'[t].pc \notin Before
          /\ writer'[t].pc = "write" => writer'[t].part \in 1 .. Parts
          /\ writer'[t].pc = "unlock" => writer'[t].part = Parts + 1
          /\ gFile'[Process[t]].mode = "app"
      <4>1. gFile[Process[t]].mode = "app"
        BY <1>1, <2>2 DEF Records, Progress, Inside
      <4> QED BY <1>2, <2>3, <2>5, <2>6, <4>1, ProcessOf DEF Before, Parts
    <3> QED BY <2>2, <2>13, <3>1, <3>2 DEF Records, Progress
  <2>19. Unflushed'
    <3>1. ASSUME NEW u \in Threads, NobodyWrites(Process[u])' PROVE Buf(u)' = <<>>
      <4>1. CASE Process[u] = Process[t]
        <5>1. writer'[t].pc # "write"
          BY <3>1, <4>1 DEF NobodyWrites
        <5> QED BY <2>5, <2>6, <2>8, <2>15, <4>1, <5>1
      <4>2. CASE Process[u] # Process[t]
        <5>1. NobodyWrites(Process[u])
          BY <1>1, <2>6, <3>1, <4>2 DEF NobodyWrites
        <5> QED BY <2>2, <2>8, <4>2, <5>1 DEF Records, Unflushed
      <4> QED BY <4>1, <4>2
    <3>2. ASSUME NEW u \in Threads, Process[u] \in alive', writer'[u].pc = "write" PROVE u = t
      <4>1. SUFFICES ASSUME u # t PROVE FALSE
        OBVIOUS
      <4>2. writer[u].pc = "write" /\ Process[u] \in alive
        BY <1>1, <2>6, <3>2, <4>1
      <4> QED BY <1>1, <2>2, <2>3, <4>1, <4>2, Alone
    <3>3. /\ Len(Buf(t)') < part + 1
          /\ \A i \in 1 .. Len(Buf(t)') : Buf(t)'[i] = <<t, (part + 1) - 1 - Len(Buf(t)') + i>>
      <4>1. CASE Buf(t)' = <<>>
        BY <2>3, <4>1 DEF Parts
      <4>2. CASE Buf(t)' = b
        BY <2>11, <2>12, <4>2
      <4> QED BY <2>8, <4>1, <4>2
    <3>4. \A u \in Threads : Process[u] \in alive' /\ writer'[u].pc = "write" =>
            /\ Len(Buf(u)') < writer'[u].part
            /\ \A i \in 1 .. Len(Buf(u)') : Buf(u)'[i] = <<u, writer'[u].part - 1 - Len(Buf(u)') + i>>
      BY <2>6, <3>2, <3>3
    <3>5. conf'.gWriteInFile
      BY <2>3
    <3> QED BY <3>1, <3>4, <3>5 DEF Unflushed
  <2> QED BY <2>14, <2>16, <2>17, <2>18, <2>19 DEF Records
<1> QED BY <1>2, <1>3, KeepsInv

LEMMA writeInFacilityKeeps ==
    ASSUME LogInv, RecordsInv, NEW t \in Threads, phase = "running", UNCHANGED <<phase, conf>>,
           writeInFacility(t)
    PROVE  RecordsInv'
<1> DEFINE part == writer[t].part
           upto == IF writer[t].form = "json" THEN Parts ELSE part
           b == [i \in 1 .. upto - part + 1 |-> <<t, part + i - 1>>]
           to == IF upto < Parts THEN "write" ELSE IF writer[t].form = "multiline" THEN "unlock" ELSE "written"
<1>1. /\ writer[t].pc = "write" /\ Process[t] \in alive /\ ~writer[t].file
      /\ log' = log \o b /\ writer' = [writer EXCEPT ![t].part = upto + 1, ![t].pc = to]
      /\ UNCHANGED <<mutexVars, gFile, alive>>
  BY DEF writeInFacility, At
<1>2. FileShape'
  BY <1>1 DEF RecordsInv, FileShape
<1>3. ASSUME Undisturbed' PROVE Records'
  <2>1. Undisturbed
    BY <1>1, <1>3, StillUndisturbed DEF mutexVars
  <2>2. Records /\ ~early
    BY <2>1 DEF RecordsInv, Undisturbed
  <2>3. /\ writer[t].form \in {"json", "multiline"} /\ ~conf.gWriteInFile
        /\ part \in 1 .. Parts /\ (writer[t].form = "json" => part = 1)
    BY <1>1, <2>2 DEF RecordsInv, ConfShape, Records, Alike, Progress, NeedsMutex
  <2>4. /\ upto \in part .. Parts
        /\ upto < Parts => to = "write" /\ writer[t].form = "multiline"
        /\ upto = Parts => to = IF writer[t].form = "multiline" THEN "unlock" ELSE "written"
    BY <2>3 DEF Parts
  <2>5. /\ b \in Seq(Cells) /\ b # <<>> /\ Len(b) = upto - part + 1
        /\ \A i \in 1 .. Len(b) : b[i] = <<t, (part - 1) + i>>
    <3>1. upto - part + 1 \in Nat /\ upto - part + 1 >= 1
      BY <2>3, <2>4 DEF Parts
    <3>2. \A i \in 1 .. upto - part + 1 : <<t, part + i - 1>> \in Cells /\ part + i - 1 = (part - 1) + i
      BY <2>3, <2>4 DEF Cells, Parts
    <3> HIDE DEF upto, part
    <3>3. b \in Seq(Cells) /\ Len(b) = upto - part + 1
      BY <3>1, <3>2
    <3> QED BY <3>1, <3>2, <3>3
  <2> HIDE DEF b, upto, to, part
  <2>6. /\ \A u \in Threads : u # t => writer'[u] = writer[u]
        /\ writer'[t].pc = to /\ writer'[t].part = upto + 1
        /\ writer'[t].form = writer[t].form /\ writer'[t].file = writer[t].file
    BY <1>1 DEF LogInv, Shape, Fields
  <2>7. (part - 1) + Len(b) < Parts => writer'[t].pc = "write" /\ NeedsMutex(t)'
    BY <2>3, <2>4, <2>5, <2>6 DEF NeedsMutex, Parts
  <2>8. part - 1 \in Int
    BY <2>3
  <2>9. log' \in Seq(Cells) /\ Chained'
    BY <1>1, <2>2, <2>5, <2>6, <2>7, <2>8, AppendStep
  <2>10. Streams'
    BY <1>1, <2>2, <2>9 DEF Records, Streams, Buf
  <2>11. Alike'
    BY <1>1, <2>2, <2>6 DEF Records, Alike
  <2>12. Progress'
    <3>1. ASSUME NEW u \in Threads, u # t
          PROVE  writer'[u] = writer[u] /\ (NeedsMutex(u)' <=> NeedsMutex(u))
      BY <2>6, <3>1 DEF NeedsMutex
    <3>2. /\ writer'[t].pc \in Before \cup Resting \cup {"write", "unlock"}
          /\ writer'[t].pc \notin Before
          /\ writer'[t].pc = "write" => writer'[t].part \in 1 .. Parts /\ NeedsMutex(t)'
          /\ writer'[t].pc = "unlock" => writer'[t].part = Parts + 1
          /\ ~writer'[t].file
      BY <1>1, <2>3, <2>4, <2>6 DEF Before, Resting, Parts, NeedsMutex
    <3> QED BY <1>1, <2>2, <3>1, <3>2 DEF Records, Progress
  <2>13. Unflushed'
    <3>1. \A u \in Threads : Buf(u) = <<>> /\ Buf(u)' = Buf(u)
      BY <1>1, <2>2, <2>3 DEF Records, Unflushed, Buf
    <3>2. \A u \in Threads : writer'[u].pc = "write" => writer'[u].part \in 1 .. Parts
      BY <2>12 DEF Progress
    <3>3. \A u \in Threads : Len(Buf(u)') = 0
      BY <3>1
    <3>4. \A u \in Threads : writer'[u].pc = "write" =>
            /\ Len(Buf(u)') < writer'[u].part
            /\ \A i \in 1 .. Len(Buf(u)') : Buf(u)'[i] = <<u, writer'[u].part - 1 - Len(Buf(u)') + i>>
      BY <3>2, <3>3 DEF Parts
    <3>5. \A u \in Threads : Buf(u)' = <<>>
      BY <3>1
    <3> QED BY <3>4, <3>5 DEF Unflushed
  <2> QED BY <2>9, <2>10, <2>11, <2>12, <2>13 DEF Records
<1> QED BY <1>2, <1>3, KeepsInv

-----------------------------------------------------------------------------
(* Before and after the parts.                                             *)

\* A step of a thread outside of its record, which leaves log and stream alone.
LEMMA GotoKeeps ==
    ASSUME LogInv, RecordsInv, NEW t \in Threads, phase = "running",
           UNCHANGED <<phase, conf, log, gFile, alive>>, NEW c, Goto(t, c),
           writer[t].pc \in Before \cup {"unlock", "endl"}, early => early',
           c \in Before \cup Resting \cup {"write", "endl"}, c # "start", c # "idle",
           c \in Before \cup {"write"} => writer[t].pc \in Before,
           c = "endl" => writer[t].pc = "unlock" /\ writer[t].part <= Parts,
           c \in Inside /\ writer[t].pc = "start" /\ writer[t].file => gFile[Process[t]].mode \notin Closed,
           ASSUME Records, ~early, ~early', c = "write" PROVE Process[t] \in alive /\ Buf(t) = <<>>
    PROVE  RecordsInv'
<1>1. FileShape'
  BY DEF RecordsInv, FileShape
<1>2. ASSUME Undisturbed' PROVE Records'
  <2>1. Undisturbed
    BY <1>2, StillUndisturbed
  <2>2. Records /\ ~early /\ ~early'
    BY <1>2, <2>1 DEF RecordsInv, Undisturbed
  <2>3. /\ \A u \in Threads : u # t => writer'[u] = writer[u]
        /\ writer'[t].pc = c /\ writer'[t].part = writer[t].part
        /\ writer'[t].form = writer[t].form /\ writer'[t].file = writer[t].file
    BY DEF LogInv, Shape, Fields, Goto
  <2>4. /\ writer[t].pc # "endl" /\ writer[t].pc # "write" /\ writer[t].pc # "idle"
        /\ writer[t].pc = "unlock" => writer[t].part = Parts + 1
        /\ writer[t].pc \in Before => writer[t].part = 1
    BY <2>2 DEF Records, Progress, Before, Resting
  <2>5. c # "endl"
    BY <2>4 DEF Parts, Before
  <2>6. writer'[t].file = conf.gWriteInFile /\ writer'[t].form = conf.compare.mLogType
    BY <2>2, <2>3, <2>4 DEF Records, Alike
  <2>7. writer'[t].pc \in Inside /\ writer'[t].file => gFile[Process[t]].mode = "app"
    <3>1. writer[t].pc \in {"start"} \cup Inside
      BY <2>4 DEF Before, Inside
    <3>2. gFile[Process[t]].mode \in {"closed", "app"}
      BY <2>1, ProcessOf DEF RecordsInv, FileShape, Undisturbed, Truncated
    <3> QED BY <2>2, <2>3, <3>1, <3>2 DEF Records, Progress, Closed
  <2>8. writer'[t].pc = "write" => Process[t] \in alive /\ Buf(t) = <<>>
    BY <2>2, <2>3
  <2> QED BY <2>2, <2>3, <2>4, <2>5, <2>6, <2>7, <2>8, MoveStep
<1> QED BY <1>1, <1>2, KeepsInv

LEMMA StartsWritingKeeps ==
    ASSUME LogInv, RecordsInv, NEW t \in Threads, phase = "running", UNCHANGED <<phase, conf>>,
           StartsWriting(t)
    PROVE  RecordsInv'
<1> DEFINE c == IF writer[t].file /\ gFile[Process[t]].mode \in Closed THEN "dropped"
                ELSE IF NeedsMutex(t) THEN "mutex" ELSE "write"
<1>1. /\ Goto(t, c) /\ UNCHANGED <<early, log, gFile, alive>>
      /\ writer[t].pc = "start" /\ Process[t] \in alive
  BY DEF StartsWriting, At, mutexVars
<1>2. /\ c \in {"dropped", "mutex", "write"} /\ (c = "write" => ~writer[t].file)
      /\ c # "dropped" /\ writer[t].file => gFile[Process[t]].mode \notin Closed
  BY DEF NeedsMutex
<1> HIDE DEF c
<1>3. ASSUME Records, c = "write" PROVE Buf(t) = <<>>
  <2>1. ~conf.gWriteInFile
    BY <1>1, <1>2, <1>3 DEF Records, Alike
  <2> QED BY <1>3, <2>1 DEF Records, Unflushed
<1> QED BY <1>1, <1>2, <1>3, GotoKeeps DEF Before, Resting, Inside

\* On its way to the mutex a thread writes nothing; whoever gets it finds the
\* stream of its process empty.
LEMMA MutexKeeps ==
    ASSUME LogInv, RecordsInv, NEW t \in Threads, phase = "running", UNCHANGED <<phase, conf>>,
           \/ createGlobalMutex(t) \/ ftruncate(t) \/ pthread_mutex_init(t) \/ getGlobalMutex(t)
           \/ LockSleeps(t) \/ LockWakes(t)
    PROVE  RecordsInv'
<1>1. PICK c \in {"ftruncate", "dropped", "mmap", "init", "lock", "asleep"} : Goto(t, c)
  <2>1. CASE createGlobalMutex(t)
    BY <2>1 DEF createGlobalMutex
  <2>2. CASE \/ ftruncate(t) \/ pthread_mutex_init(t) \/ getGlobalMutex(t)
             \/ LockSleeps(t) \/ LockWakes(t)
    BY <2>2 DEF ftruncate, pthread_mutex_init, getGlobalMutex, LockSleeps, LockWakes
  <2> QED BY <2>1, <2>2
<1>2. /\ writer[t].pc \in Before \ {"start"}
      /\ UNCHANGED <<log, gFile, alive>>
  BY DEF createGlobalMutex, ftruncate, pthread_mutex_init, getGlobalMutex, LockSleeps, LockWakes,
     At, Before
<1>3. early => early'
  BY DEF createGlobalMutex, ftruncate, pthread_mutex_init, getGlobalMutex, LockSleeps, LockWakes,
     mutexVars
<1> QED BY <1>1, <1>2, <1>3, GotoKeeps DEF Before, Resting, Inside

LEMMA LockKeeps ==
    ASSUME LogInv, RecordsInv, NEW t \in Threads, phase = "running", UNCHANGED <<phase, conf>>,
           pthread_mutex_lock(t)
    PROVE  RecordsInv'
<1>1. /\ Goto(t, "write") /\ UNCHANGED <<log, gFile, alive>>
      /\ writer[t].pc = "lock" /\ Process[t] \in alive /\ MayLock
  BY DEF pthread_mutex_lock, At
<1>2. early => early'
  BY DEF pthread_mutex_lock
<1>3. ASSUME Records, ~early PROVE Buf(t) = <<>>
  <2>1. CASE ~conf.gWriteInFile
    BY <1>3, <2>1 DEF Records, Unflushed
  <2>2. ASSUME conf.gWriteInFile, NEW u \in Threads, Process[u] = Process[t], writer[u].pc = "write"
        PROVE  FALSE
    <3>1. Critical(u)
      BY <1>1, <1>3, <2>2 DEF Records, Alike, Critical, NeedsMutex
    <3>2. owner = u
      BY <1>3, <3>1 DEF LogInv, Owns
    <3> QED BY <1>1, <2>2, <3>2, CompareLogAssumption DEF MayLock, LogInv, DeadOwner
  <2>3. CASE conf.gWriteInFile
    <3>1. NobodyWrites(Process[t])
      BY <1>1, <2>2, <2>3 DEF NobodyWrites
    <3> QED BY <1>3, <3>1 DEF Records, Unflushed
  <2> QED BY <2>1, <2>3 DEF RecordsInv
<1> QED BY <1>1, <1>2, <1>3, GotoKeeps DEF Before, Resting, Inside

LEMMA UnlockKeeps ==
    ASSUME LogInv, RecordsInv, NEW t \in Threads, phase = "running", UNCHANGED <<phase, conf>>,
           pthread_mutex_unlock(t)
    PROVE  RecordsInv'
<1> DEFINE c == IF writer[t].part <= Parts THEN "endl" ELSE "written"
<1>1. Goto(t, c) /\ UNCHANGED <<early, log, gFile, alive>> /\ writer[t].pc = "unlock"
  BY DEF pthread_mutex_unlock, At
<1>2. c \in {"endl", "written"} /\ (c = "endl" => writer[t].part <= Parts)
  OBVIOUS
<1> HIDE DEF c
<1> QED BY <1>1, <1>2, GotoKeeps DEF Before, Resting, Inside

\* Only archives have a part after the unlock.
LEMMA text_oarchiveKeeps ==
    ASSUME LogInv, RecordsInv, NEW t \in Threads, phase = "running", UNCHANGED <<phase, conf>>,
           text_oarchive(t)
    PROVE  RecordsInv'
<1>1. writer[t].pc = "endl" /\ Put(t, TRUE) /\ UNCHANGED mutexVars
  BY DEF text_oarchive, At
<1>2. FileShape' /\ \A p \in Processes : gFile'[p].mode = gFile[p].mode
  BY <1>1, PutShape DEF RecordsInv
<1>3. ASSUME Undisturbed' PROVE FALSE
  <2>1. Undisturbed
    BY <1>1, <1>2, <1>3, StillUndisturbed DEF mutexVars
  <2>2. Progress
    BY <2>1 DEF RecordsInv, Records
  <2> QED BY <1>1, <2>2 DEF Progress, Before, Resting
<1> QED BY <1>2, <1>3, KeepsInv

LEMMA WriterKeeps ==
    ASSUME LogInv, RecordsInv, NEW t \in Threads, WritesRecord(t) \/ Wakes(t)
    PROVE  RecordsInv'
<1>1. phase = "running" /\ UNCHANGED <<phase, conf>> /\ (WriterStep(t) \/ LockWakes(t))
  BY DEF WritesRecord, Wakes, Running
<1>2. ASSUME LockWithoutMemory(t) PROVE RecordsInv'
  BY <1>1, <1>2, DieKeeps DEF LockWithoutMemory
<1>3. CASE StartsWriting(t) \/ WritesPart(t) \/ text_oarchive(t) \/ writeInFacility(t)
  BY <1>1, <1>3, StartsWritingKeeps, WritesPartKeeps, text_oarchiveKeeps, writeInFacilityKeeps
<1>4. CASE \/ createGlobalMutex(t) \/ ftruncate(t) \/ pthread_mutex_init(t) \/ getGlobalMutex(t)
           \/ LockSleeps(t) \/ LockWakes(t)
  BY <1>1, <1>4, MutexKeeps
<1>5. CASE pthread_mutex_lock(t) \/ pthread_mutex_unlock(t)
  BY <1>1, <1>5, LockKeeps, UnlockKeeps
<1> QED BY <1>1, <1>2, <1>3, <1>4, <1>5 DEF WriterStep

-----------------------------------------------------------------------------
(* The requests and the directives.                                        *)

\* A record is begun by a thread that is writing none.
LEMMA BeginKeeps ==
    ASSUME LogInv, RecordsInv, NEW t \in Threads, phase = "running",
           UNCHANGED <<phase, conf, log, gFile, alive, mutexVars>>,
           rq[t].pc # "write", NEW form, Writes(t, form),
           conf.compare.mCompareDisabled \/ form = conf.compare.mLogType
    PROVE  RecordsInv'
<1>1. FileShape'
  BY DEF RecordsInv, FileShape
<1>2. ASSUME Undisturbed' PROVE Records'
  <2>1. Undisturbed
    BY <1>2, StillUndisturbed DEF mutexVars
  <2>2. Records /\ form = conf.compare.mLogType
    BY <2>1 DEF RecordsInv, Undisturbed
  <2>3. /\ \A u \in Threads : u # t => writer'[u] = writer[u]
        /\ writer'[t] = [NoWriter EXCEPT !.pc = "start", !.form = form, !.file = conf.gWriteInFile]
    BY DEF LogInv, Shape, Writes
  <2>4. /\ writer'[t].pc = "start" /\ writer'[t].part = 1 /\ writer'[t].form = form
        /\ writer'[t].file = conf.gWriteInFile
    BY <2>3 DEF NoWriter
  <2>5. writer[t].pc # "write"
    BY DEF LogInv, UnderWay, Resting
  <2> QED BY <2>2, <2>3, <2>4, <2>5, MoveStep DEF Before, Resting, Inside
<1> QED BY <1>1, <1>2, KeepsInv

\* The other steps leave the records alone, or reopen the log.
LEMMA SameRecords ==
    ASSUME LogInv, RecordsInv, phase = "running", UNCHANGED <<phase, conf, logVars>>
    PROVE  RecordsInv'
<1>1. UNCHANGED <<early, gFile, log, alive, writer>>
  BY DEF logVars, mutexVars
<1>2. FileShape'
  BY <1>1 DEF RecordsInv, FileShape
<1>3. ASSUME Undisturbed' PROVE Records'
  <2>1. Records
    BY <1>1, <1>3 DEF RecordsInv, Undisturbed, Truncated
  <2>2. Streams' /\ Alike' /\ Progress'
    BY <1>1, <2>1 DEF Records, Streams, Buf, Alike, Progress, NeedsMutex
  <2>3. Unflushed'
    BY <1>1, <2>1 DEF Records, Unflushed, Buf, NobodyWrites
  <2>4. Chained'
    BY <1>1, <2>1 DEF Records, Chained, Broken, NeedsMutex
  <2> QED BY <2>2, <2>3, <2>4 DEF Records
<1> QED BY <1>2, <1>3, KeepsInv

LEMMA TruncateKeeps ==
    ASSUME RecordsInv, NEW t \in Threads, TruncatesLog(t)
    PROVE  RecordsInv'
<1>1. phase = "running" /\ UNCHANGED <<phase, conf>>
  BY DEF TruncatesLog, Running
<1>2. Process[t] \in Processes
  BY ProcessOf
<1>3. \/ TruncateCloses(Process[t], conf.gWriteInFile)
      \/ TruncateOpens(Process[t], conf.gWriteInFile)
  BY DEF TruncatesLog
<1>4. FileShape' /\ gFile'[Process[t]].mode \in {"closing", "trunc"}
  BY <1>2, <1>3 DEF TruncateCloses, TruncateOpens, RecordsInv, FileShape
<1>5. ~Undisturbed'
  BY <1>2, <1>4 DEF Undisturbed, Truncated
<1> QED BY <1>1, <1>4, <1>5, KeepsInv

LEMMA RequestKeeps ==
    ASSUME LogInv, RecordsInv, NEW t \in Threads, Step(t)
    PROVE  RecordsInv'
<1>1. CASE \/ translateHookCompare(t) \/ translateHookMigrate(t) \/ Translated(t)
           \/ inputFilterHandler(t) \/ Unpacks(t) \/ StopsReading(t)
  <2>1. phase = "running" /\ UNCHANGED <<phase, conf, logVars>>
    BY <1>1 DEF translateHookCompare, translateHookMigrate, Translated, inputFilterHandler,
       Unpacks, StopsReading, Running, OnlyRequest
  <2> QED BY <2>1, SameRecords
<1>2. CASE \/ outputFilterHandler(t) \/ PassesOn(t) \/ outputFilterHandler2(t)
           \/ RecordWritten(t) \/ PassesAgain(t) \/ Finishes(t)
  <2>1. phase = "running" /\ UNCHANGED <<phase, conf, logVars>>
    BY <1>2 DEF outputFilterHandler, PassesOn, outputFilterHandler2, RecordWritten, PassesAgain,
       Finishes, Running, OnlyRequest
  <2> QED BY <2>1, SameRecords
<1>3. CASE writeSerializedRequest(t)
  <2>1. /\ phase = "running" /\ UNCHANGED <<phase, conf, log, gFile, alive, mutexVars>>
        /\ rq[t].pc # "write" /\ Writes(t, "archive") /\ conf.compare.mCompareDisabled
    BY <1>3 DEF writeSerializedRequest, Running
  <2> QED BY <2>1, BeginKeeps
<1>4. CASE writeDifferences(t)
  <2>1. /\ phase = "running" /\ UNCHANGED <<phase, conf, log, gFile, alive, mutexVars>>
        /\ rq[t].pc # "write"
    BY <1>4 DEF writeDifferences, Running
  <2>2. Writes(t, conf.compare.mLogType) \/ UNCHANGED writer
    BY <1>4, Zenon DEF writeDifferences
  <2>3. CASE UNCHANGED writer
    BY <2>1, <2>3, SameRecords DEF logVars
  <2>4. CASE Writes(t, conf.compare.mLogType)
    BY <2>1, <2>4, BeginKeeps
  <2> QED BY <2>2, <2>3, <2>4
<1>5. CASE writeDifferencesThrows(t)
  BY <1>5, DieKeeps DEF writeDifferencesThrows, Running
<1>6. CASE TruncatesLog(t)
  BY <1>6, TruncateKeeps
<1>7. CASE WritesRecord(t)
  BY <1>7, WriterKeeps
<1> QED BY <1>1, <1>2, <1>3, <1>4, <1>5, <1>6, <1>7 DEF Step

\* A directive leaves a log type that has a name, and nothing in the log.
LEMMA DirectiveKeeps ==
    ASSUME RecordsInv, NEW name, NEW accepted, NEW newConf, Directive(name, accepted, newConf),
           accepted => ConfShape(newConf)
    PROVE  RecordsInv'
<1>1. phase = "config" /\ phase' \in {"config", "refused"} /\ UNCHANGED <<gFile, log, writer>>
  BY DEF Directive, logVars
<1>2. ConfShape(conf)'
  <2>1. CASE accepted
    BY <2>1 DEF Directive, ConfShape
  <2>2. CASE ~accepted
    BY <2>2 DEF Directive, RecordsInv, ConfShape
  <2> QED BY <2>1, <2>2
<1> QED BY <1>1, <1>2 DEF RecordsInv, FileShape, Quiet

\* One field of the configuration of one module is changed.
LEMMA CompareChanged ==
    ASSUME NEW c, ConfShape(c), NEW new,
           DOMAIN new = DOMAIN c.compare, new.mLogType \in {"json", "multiline"}
    PROVE  ConfShape([c EXCEPT !.compare = new])
BY DEF ConfShape

LEMMA MigrateChanged ==
    ASSUME NEW c, ConfShape(c), NEW new
    PROVE  ConfShape([c EXCEPT !.migrate = new])
BY DEF ConfShape

LEMMA ConfigureKeeps ==
    ASSUME RecordsInv, Configure, ~postConfig
    PROVE  RecordsInv'
<1>1. ConfShape(conf)
  BY DEF RecordsInv
<1>2. CASE setBodyList
  <2> DEFINE v == Append(conf.compare.mCompBody[ListTypes[d.list]], d.re)
             new == [conf.compare EXCEPT !.mCompBody[ListTypes[d.list]] = v]
  <2>1. ConfShape([conf EXCEPT !.compare = new])
    BY <1>1, CompareChanged DEF ConfShape
  <2> QED BY <1>2, <2>1, DirectiveKeeps DEF setBodyList
<1>3. CASE setHeaderList
  <2> DEFINE v == AddRule(conf.compare.mCompHeader[ListTypes[d.list]], d.key, d.re)
             new == [conf.compare EXCEPT !.mCompHeader[ListTypes[d.list]] = v]
  <2>1. ConfShape([conf EXCEPT !.compare = new])
    BY <1>1, CompareChanged DEF ConfShape
  <2> QED BY <1>3, <2>1, DirectiveKeeps DEF setHeaderList
<1>4. CASE setDiffLogType
  <2> DEFINE type == IF d.type = "archive" THEN conf.compare.mLogType ELSE LogTypes[d.type]
             new == [conf.compare EXCEPT !.mCompareDisabled = d.type = "archive", !.mLogType = type]
  <2>1. d.type \in DOMAIN LogTypes \cup {"archive"} => type \in {"json", "multiline"}
    BY <1>1 DEF LogTypes, ConfShape
  <2>2. DOMAIN new = DOMAIN conf.compare /\ new.mLogType = type
    BY <1>1 DEF ConfShape
  <2>3. d.type \in DOMAIN LogTypes \cup {"archive"} => ConfShape([conf EXCEPT !.compare = new])
    BY <1>1, <2>1, <2>2, CompareChanged
  <2> QED BY <1>4, <2>3, DirectiveKeeps DEF setDiffLogType
<1>5. CASE setDisableLibwsdiff
  <2> DEFINE new == [conf.compare EXCEPT !.mCompareDisabled = d.value]
  <2>1. ConfShape([conf EXCEPT !.compare = new])
    BY <1>1, CompareChanged DEF ConfShape
  <2> QED BY <1>5, <2>1, DirectiveKeeps DEF setDisableLibwsdiff
<1>6. CASE setCompareLog
  <2> DEFINE new == [conf EXCEPT !.gWriteInFile = d.type = "FILE"]
  <2>1. ConfShape(new)
    BY <1>1 DEF ConfShape
  <2> QED BY <1>6, <2>1, DirectiveKeeps DEF setCompareLog
<1>7. CASE setCompare
  <2> DEFINE new == [conf.compare EXCEPT !.mIsActive = TRUE]
  <2>1. ConfShape([conf EXCEPT !.compare = new])
    BY <1>1, CompareChanged DEF ConfShape
  <2> QED BY <1>7, <2>1, DirectiveKeeps DEF setCompare
<1>8. CASE setApplicationScope
  <2> DEFINE new == [conf.migrate EXCEPT !.mDirName = TRUE, !.scope = MigrateScopes[d.scope]]
  <2>1. ConfShape([conf EXCEPT !.migrate = new])
    BY <1>1, MigrateChanged
  <2> QED BY <1>8, <2>1, DirectiveKeeps DEF setApplicationScope
<1>9. CASE setMigrateEnv
  <2> DEFINE env == [var |-> d.var, re |-> d.re, value |-> d.value, scope |-> conf.migrate.scope]
             new == [conf.migrate EXCEPT !.mDirName = TRUE, !.mEnvLists = Append(@, env)]
  <2>1. ConfShape([conf EXCEPT !.migrate = new])
    BY <1>1, MigrateChanged
  <2> QED BY <1>9, <2>1, DirectiveKeeps DEF setMigrateEnv
<1> QED BY <1>2, <1>3, <1>4, <1>5, <1>6, <1>7, <1>8, <1>9 DEF Configure

LEMMA postConfigKeeps ==
    ASSUME RecordsInv, postConfig
    PROVE  RecordsInv'
<1> DEFINE opens == conf.gWriteInFile /\ scenario.file = "open"
           mode == IF opens THEN "app" ELSE "closed"
<1>1. /\ Quiet /\ UNCHANGED <<conf, mutexVars, log, alive, writer>>
      /\ phase' = IF conf.gWriteInFile /\ scenario.file = "denied" THEN "refused" ELSE "running"
      /\ gFile' = [p \in Processes |-> [gFile[p] EXCEPT !.mode = mode]]
  BY DEF postConfig, RecordsInv, childInit
<1>2. mode \in {"app", "closed"} /\ (phase' # "running" => mode = "closed")
  BY <1>1
<1> HIDE DEF mode
<1>3. gFile' = [p \in Processes |-> [mode |-> mode, pos |-> 0, buf |-> <<>>, torn |-> FALSE]]
  <2>1. ASSUME NEW p \in Processes
        PROVE  [gFile[p] EXCEPT !.mode = mode] = [mode |-> mode, pos |-> 0, buf |-> <<>>, torn |-> FALSE]
    <3>1. gFile[p] = [mode |-> "closed", pos |-> 0, buf |-> <<>>, torn |-> FALSE]
      BY <1>1, Zenon DEF Quiet
    <3> DEFINE r == [gFile[p] EXCEPT !.mode = mode]
    <3>2. /\ r.mode = mode /\ r.pos = 0 /\ r.buf = <<>> /\ r.torn = FALSE
          /\ DOMAIN r = {"mode", "pos", "buf", "torn"} /\ r = [f \in DOMAIN r |-> r[f]]
      BY <3>1
    <3> HIDE DEF r
    <3>3. r = [mode |-> mode, pos |-> 0, buf |-> <<>>, torn |-> FALSE]
      BY <3>2
    <3> QED BY <3>3 DEF r
  <2> QED BY <1>1, <2>1, Zenon
<1>4. FileShape'
  BY <1>2, <1>3 DEF FileShape
<1>5. phase' # "running" => Quiet'
  BY <1>1, <1>2, <1>3 DEF Quiet
<1>6. \A t \in Threads : Buf(t)' = <<>>
  BY <1>3, ProcessOf DEF Buf
<1>7. \A t \in Threads : writer'[t].pc = "idle"
  BY <1>1 DEF Quiet, NoWriter
<1>8. log' = <<>>
  BY <1>1 DEF Quiet
<1>9. Streams' /\ Alike' /\ Progress'
  <2>1. <<>> \in Seq(Cells)
    OBVIOUS
  <2> QED BY <1>6, <1>7, <1>8, <2>1 DEF Streams, Alike, Progress, Before, Inside, Resting
<1>10. Unflushed' /\ Chained'
  BY <1>6, <1>7, <1>8 DEF Unflushed, Chained
<1> QED BY <1>1, <1>4, <1>5, <1>9, <1>10 DEF RecordsInv, Records

-----------------------------------------------------------------------------
(* A request has one record, in the form that its location asks for.       *)

\* No request of a location that archives is in writeDifferences, and none
\* comes back to it: outputFilterHandler2 removes itself (off2).
OneRecord ==
    /\ \A t \in Serving :
        /\ {"pc", "off2", "printer"} \subseteq DOMAIN rq[t] /\ rq[t].off2 \in BOOLEAN
        /\ rq[t].pc = "differs" =>
            phase = "running" /\ ~conf.compare.mCompareDisabled /\ rq[t].off2 = FALSE
    /\ \A t \in Threads :
        writer[t].pc # "idle" =>
            /\ phase = "running" /\ (conf.compare.mCompareDisabled => writer[t].form = "archive")
            /\ t \in Serving /\ (rq[t].pc = "write" \/ rq[t].off2 = TRUE)

\* The request x is at one of the steps C, and off2 is o and the printer p.
Keeps(x, C, o, p) ==
    /\ {"pc", "off2", "printer"} \subseteq DOMAIN x
    /\ x.pc \in C /\ x.off2 = o /\ x.printer = p

Reading == {"translate", "handle", "extract"}

\* The request x is not on its way to writeDifferences.
Elsewhere(x, o) == {"pc", "off2", "printer"} \subseteq DOMAIN x /\ x.pc # "differs" /\ x.off2 = o

LEMMA RequestMoves ==
    ASSUME LogInv, OneRecord, NEW t \in Serving, NEW x, Becomes(t, x),
           {"pc", "off2", "printer"} \subseteq DOMAIN x, x.off2 \in BOOLEAN,
           x.pc = "differs" => phase = "running" /\ ~conf.compare.mCompareDisabled /\ x.off2 = FALSE,
           writer[t].pc # "idle" => x.pc = "write" \/ x.off2 = TRUE,
           UNCHANGED <<scenario, phase, conf, writer>>
    PROVE  OneRecord'
<1>1. \A u \in Serving : rq'[u] = IF u = t THEN x ELSE rq[u]
  BY DEF Becomes, LogInv, Shape
<1> QED BY <1>1 DEF OneRecord, Serving

\* What the filters read and unpack is no reason to compare.
LEMMA NetBrigadesPc ==
    ASSUME NEW C, NEW o, NEW p, NEW x, NEW n, NEW r \in NetBrigades(x, n), Keeps(x, C, o, p)
    PROVE  Keeps(r.x, C, o, p)
<1>1. \/ \E b : r = [ok |-> TRUE, data |-> SubSeq(x.net, 1, b.cells), eos |-> b.eos,
                   x |-> [x EXCEPT !.net = SubSeq(@, b.cells + 1, Len(@))]]
      \/ r = [ok |-> FALSE, data |-> <<>>, eos |-> FALSE, x |-> [x EXCEPT !.failed = TRUE]]
  BY Zenon DEF NetBrigades
<1>2. ASSUME NEW b, r = [ok |-> TRUE, data |-> SubSeq(x.net, 1, b.cells), eos |-> b.eos,
                         x |-> [x EXCEPT !.net = SubSeq(@, b.cells + 1, Len(@))]]
      PROVE  Keeps(r.x, C, o, p)
  <2>1. r.x = [x EXCEPT !.net = SubSeq(@, b.cells + 1, Len(@))]
    BY <1>2
  <2> QED BY <2>1 DEF Keeps
<1>3. ASSUME r = [ok |-> FALSE, data |-> <<>>, eos |-> FALSE, x |-> [x EXCEPT !.failed = TRUE]]
      PROVE  Keeps(r.x, C, o, p)
  BY <1>3 DEF Keeps
<1> QED BY <1>1, <1>2, <1>3

LEMMA BrigadesPc ==
    ASSUME NEW C, NEW o, NEW p, NEW x, NEW n, NEW r \in Brigades(x, n), Keeps(x, C, o, p)
    PROVE  Keeps(r.x, C, o, p)
<1> DEFINE b == inputFilterBody2Brigade(x.mig.body, x.mig.ctx, n)
           y == [x EXCEPT !.mig.ctx = b.ctx]
<1> HIDE DEF b
<1>1. Keeps(y, C, o, p)
  BY DEF Keeps
<1> HIDE DEF y
<1>2. \/ r \in NetBrigades(x, n)
      \/ r = [ok |-> TRUE, data |-> b.data, eos |-> FALSE, x |-> y]
      \/ \E q \in NetBrigades(y, n) : \E content, c : r = [q EXCEPT !.data = content, !.x.cut = c]
  BY Zenon DEF Brigades, b, y
<1>3. ASSUME NEW q \in NetBrigades(y, n), NEW content, NEW c, r = [q EXCEPT !.data = content, !.x.cut = c]
      PROVE  Keeps(r.x, C, o, p)
  <2>1. "x" \in DOMAIN q
    BY <1>3 DEF NetBrigades
  <2>2. r.x = [q.x EXCEPT !.cut = c]
    BY <1>3, <2>1
  <2>3. Keeps(q.x, C, o, p)
    BY <1>1, NetBrigadesPc
  <2> QED BY <2>2, <2>3 DEF Keeps
<1>4. ASSUME r = [ok |-> TRUE, data |-> b.data, eos |-> FALSE, x |-> y] PROVE Keeps(r.x, C, o, p)
  BY <1>1, <1>4
<1>5. ASSUME r \in NetBrigades(x, n) PROVE Keeps(r.x, C, o, p)
  BY <1>5, NetBrigadesPc
<1> QED BY <1>2, <1>3, <1>4, <1>5, Zenon

LEMMA ExtractedPc ==
    ASSUME NEW C, NEW o, NEW p, NEW brigades, \A r \in brigades : Keeps(r.x, C, o, p),
           NEW e \in extractBrigadeContent(brigades)
    PROVE  Keeps(e.x, C, o, p)
<1>1. PICK r \in brigades : ButForTheHistory(r.x, e.x)
  BY ExtractedFrom, Zenon
<1>2. PICK c : e.x = [r.x EXCEPT !.cut = c]
  BY <1>1, Zenon DEF ButForTheHistory
<1>3. Keeps(r.x, C, o, p)
  BY Zenon
<1> QED BY <1>2, <1>3 DEF Keeps

LEMMA DeliveredPc ==
    ASSUME NEW C, "handle" \in C, NEW o, NEW p, NEW r, Keeps(r.x, C, o, p)
    PROVE  Keeps(Delivered(r), C, o, p)
BY DEF Keeps, Delivered

LEMMA initRequestPc ==
    ASSUME NEW C, NEW o, NEW p, NEW x, Keeps(x, C, o, p)
    PROVE  Keeps(initRequest(x), C, o, p)
<1>1. PICK method, headers, info :
        initRequest(x) = [x EXCEPT !.method = method, !.headers = headers, !.info = info]
  BY Zenon DEF initRequest
<1> QED BY <1>1 DEF Keeps

LEMMA ReinjectedPc ==
    ASSUME NEW C, "handle" \in C, NEW o, NEW p, NEW x, NEW z \in Reinjected(x), Keeps(x, C, o, p)
    PROVE  Keeps(z, C, o, p)
<1>1. \/ \E data, k : z = Delivered([ok |-> TRUE, data |-> data, eos |-> FALSE,
                                    x |-> [x EXCEPT !.info.offset = @ + k]])
      \/ \E r \in Brigades(x, x.readbytes) : z = Delivered(r)
  BY Zenon DEF Reinjected
<1>2. ASSUME NEW data, NEW k, z = Delivered([ok |-> TRUE, data |-> data, eos |-> FALSE,
                                             x |-> [x EXCEPT !.info.offset = @ + k]])
      PROVE  Keeps(z, C, o, p)
  <2> DEFINE y == [x EXCEPT !.info.offset = @ + k]
             r == [ok |-> TRUE, data |-> data, eos |-> FALSE, x |-> y]
  <2>1. r.x = y /\ Keeps(y, C, o, p) /\ z = Delivered(r)
    BY <1>2 DEF Keeps
  <2> HIDE DEF r, y
  <2> QED BY <2>1, DeliveredPc
<1>3. ASSUME NEW r \in Brigades(x, x.readbytes), z = Delivered(r) PROVE Keeps(z, C, o, p)
  BY <1>3, BrigadesPc, DeliveredPc
<1> QED BY <1>1, <1>2, <1>3

LEMMA UnpackedPc ==
    ASSUME NEW C, NEW o, NEW p, NEW x, NEW parsed, Keeps(x, C, o, p)
    PROVE  Keeps(Unpacked(x, parsed), C, o, p)
<1>1. PICK headers : Unpacked(x, parsed) =
        [x EXCEPT !.ictx = 1, !.error = ~parsed.ok, !.headers = headers,
                  !.info.mReqBody = parsed.reqBody, !.info.mResponseHeader = parsed.respHeader,
                  !.info.mResponseBody = parsed.respBody]
  BY Zenon DEF Unpacked
<1> QED BY <1>1 DEF Keeps

LEMMA inputFilterHandlerPc ==
    ASSUME NEW t \in Serving, inputFilterHandler(t), NEW o, NEW p, Keeps(rq[t], Reading, o, p)
    PROVE  \E y : Becomes(t, y) /\ Keeps(y, Reading, o, p)
<1>1. PICK n \in ReadSizes :
        LET x == [rq[t] EXCEPT !.readbytes = n]
        IN \E y \in IF ~IsDuplicate(x) THEN {Delivered(r) : r \in Brigades(x, n)}
                    ELSE IF x.ictx = 1 THEN Reinjected(x)
                    ELSE {[IF x.info.present THEN x ELSE initRequest(x) EXCEPT !.pc = "extract"]} :
               Becomes(t, y)
  BY Zenon DEF inputFilterHandler
<1>2. rq[t].pc = "handle"
  BY DEF inputFilterHandler, Running
<1> DEFINE x == [rq[t] EXCEPT !.readbytes = n]
<1>3. Keeps(x, Reading, o, p)
  BY <1>2 DEF Keeps
<1> HIDE DEF x
<1>4. \E y : /\ Becomes(t, y)
             /\ \/ \E r \in Brigades(x, n) : y = Delivered(r)
                \/ y \in Reinjected(x)
                \/ y = [IF x.info.present THEN x ELSE initRequest(x) EXCEPT !.pc = "extract"]
  BY <1>1, Zenon DEF x
<1>5. PICK y : /\ Becomes(t, y)
               /\ \/ \E r \in Brigades(x, n) : y = Delivered(r)
                  \/ y \in Reinjected(x)
                  \/ y = [IF x.info.present THEN x ELSE initRequest(x) EXCEPT !.pc = "extract"]
  BY <1>4
<1>6. ASSUME y = [IF x.info.present THEN x ELSE initRequest(x) EXCEPT !.pc = "extract"] PROVE Keeps(y, Reading, o, p)
  <2> DEFINE z == IF x.info.present THEN x ELSE initRequest(x)
  <2>1. Keeps(z, Reading, o, p)
    BY <1>3, initRequestPc
  <2> HIDE DEF z
  <2>2. y = [z EXCEPT !.pc = "extract"]
    BY <1>6 DEF z
  <2> QED BY <2>1, <2>2 DEF Keeps, Reading
<1>7. Keeps(y, Reading, o, p)
  BY <1>3, <1>5, <1>6, BrigadesPc, DeliveredPc, ReinjectedPc DEF Reading
<1> QED BY <1>5, <1>7

LEMMA UnpacksPc ==
    ASSUME NEW t \in Serving, Unpacks(t), NEW o, NEW p, Keeps(rq[t], Reading, o, p)
    PROVE  \E y : Becomes(t, y) /\ Keeps(y, Reading, o, p)
<1>1. Keeps(rq[t], Reading, o, p)
  BY DEF Unpacks, Running, Keeps
<1> DEFINE brigades == Brigades(rq[t], CMaxBytes)
<1>0. \A r \in brigades : Keeps(r.x, Reading, o, p)
  BY <1>1, BrigadesPc
<1>2. PICK r \in extractBrigadeContent(brigades) :
        LET x == [r.x EXCEPT !.info.mBody = @ \o r.data]
        IN IF ~r.done THEN Becomes(t, x)
           ELSE \E parsed \in {deserializeBody(x.info.mBody)} : \E y \in {Unpacked(x, parsed)} :
                   IF y.error THEN Becomes(t, [y EXCEPT !.pc = "handle", !.readbytes = 0])
                   ELSE \E z \in Reinjected(y) : Becomes(t, z)
  BY Zenon DEF Unpacks
<1> HIDE DEF brigades
<1> DEFINE x == [r.x EXCEPT !.info.mBody = @ \o r.data]
<1>3. Keeps(x, Reading, o, p)
  <2>1. Keeps(r.x, Reading, o, p)
    BY <1>0, ExtractedPc
  <2> QED BY <2>1 DEF Keeps
<1> HIDE DEF x
<1>4. \/ Becomes(t, x)
      \/ \E parsed : \/ Becomes(t, [Unpacked(x, parsed) EXCEPT !.pc = "handle", !.readbytes = 0])
                     \/ \E z \in Reinjected(Unpacked(x, parsed)) : Becomes(t, z)
  BY <1>2, Zenon DEF x
<1>5. ASSUME NEW parsed, Becomes(t, [Unpacked(x, parsed) EXCEPT !.pc = "handle", !.readbytes = 0])
      PROVE  \E y : Becomes(t, y) /\ Keeps(y, Reading, o, p)
  <2> DEFINE u == Unpacked(x, parsed)
             y == [u EXCEPT !.pc = "handle", !.readbytes = 0]
  <2>1. Keeps(u, Reading, o, p)
    BY <1>3, UnpackedPc
  <2> HIDE DEF u
  <2>2. Keeps(y, Reading, o, p)
    BY <2>1 DEF Keeps, Reading
  <2>3. Becomes(t, y)
    BY <1>5 DEF u
  <2> QED BY <2>2, <2>3
<1>6. ASSUME NEW parsed, NEW z \in Reinjected(Unpacked(x, parsed)), Becomes(t, z)
      PROVE  \E y : Becomes(t, y) /\ Keeps(y, Reading, o, p)
  BY <1>3, <1>6, UnpackedPc, ReinjectedPc DEF Reading
<1> QED BY <1>3, <1>4, <1>5, <1>6

LEMMA NextHookPc ==
    ASSUME NEW C, NEW o, NEW p, NEW x, Keeps(x, C, o, p)
    PROVE  Keeps(NextHook(x), C, o, p)
BY DEF Keeps, NextHook

LEMMA translateHookPc ==
    ASSUME NEW t \in Serving, NEW o, NEW p, Keeps(rq[t], Reading, o, p), translateHookCompare(t) \/ translateHookMigrate(t)
    PROVE  \E y : Becomes(t, y) /\ Keeps(y, Reading, o, p)
<1>1. Keeps(rq[t], Reading, o, p)
  BY DEF translateHookCompare, translateHookMigrate, Running, Keeps
<1>2. CASE translateHookCompare(t)
  <2> DEFINE x == IF conf.compare.mIsActive THEN initRequest(rq[t]) ELSE rq[t]
  <2>1. Becomes(t, NextHook(x))
    BY <1>2, Zenon DEF translateHookCompare
  <2>2. Keeps(x, Reading, o, p)
    BY <1>1, initRequestPc
  <2> HIDE DEF x
  <2> QED BY <2>1, <2>2, NextHookPc
<1>3. CASE translateHookMigrate(t)
  <2> DEFINE brigades == NetBrigades(rq[t], CMaxBytes)
  <2>1. \/ Becomes(t, NextHook(rq[t]))
        \/ \E r \in extractBrigadeContent(brigades) : \E body, env :
            \/ Becomes(t, [r.x EXCEPT !.mig.body = body])
            \/ Becomes(t, NextHook([[r.x EXCEPT !.mig.body = body] EXCEPT !.mig.read = TRUE, !.env = env]))
    BY <1>3, Zenon DEF translateHookMigrate
  <2>0. \A r \in brigades : Keeps(r.x, Reading, o, p)
    BY <1>1, NetBrigadesPc
  <2> HIDE DEF brigades
  <2>2. ASSUME NEW r \in extractBrigadeContent(brigades), NEW body, NEW env
        PROVE  /\ Keeps([r.x EXCEPT !.mig.body = body], Reading, o, p)
               /\ Keeps([[r.x EXCEPT !.mig.body = body] EXCEPT !.mig.read = TRUE, !.env = env], Reading, o, p)
    <3>1. Keeps(r.x, Reading, o, p)
      BY <2>0, ExtractedPc
    <3> DEFINE y == [r.x EXCEPT !.mig.body = body]
    <3>2. Keeps(y, Reading, o, p)
      BY <3>1 DEF Keeps
    <3> HIDE DEF y
    <3>3. Keeps([y EXCEPT !.mig.read = TRUE, !.env = env], Reading, o, p)
      BY <3>2 DEF Keeps
    <3> QED BY <3>2, <3>3 DEF y
  <2>3. CASE Becomes(t, NextHook(rq[t]))
    BY <1>1, <2>3, NextHookPc
  <2>4. ASSUME NEW r \in extractBrigadeContent(brigades), NEW body, NEW env,
               \/ Becomes(t, [r.x EXCEPT !.mig.body = body])
               \/ Becomes(t, NextHook([[r.x EXCEPT !.mig.body = body] EXCEPT !.mig.read = TRUE, !.env = env]))
        PROVE  \E y : Becomes(t, y) /\ Keeps(y, Reading, o, p)
    <3> DEFINE y == [r.x EXCEPT !.mig.body = body]
               z == [[r.x EXCEPT !.mig.body = body] EXCEPT !.mig.read = TRUE, !.env = env]
    <3>1. Keeps(y, Reading, o, p) /\ Keeps(z, Reading, o, p) /\ (Becomes(t, y) \/ Becomes(t, NextHook(z)))
      BY <2>2, <2>4
    <3> HIDE DEF y, z
    <3> QED BY <3>1, NextHookPc
  <2> QED BY <2>1, <2>3, <2>4
<1> QED BY <1>2, <1>3

LEMMA outputFilterHandlerPc ==
    ASSUME NEW t \in Serving, NEW o, NEW p, Keeps(rq[t], {"respond"}, o, p), outputFilterHandler(t)
    PROVE  \E y : Becomes(t, y) /\ Keeps(y, {"respond"}, o, p)
<1>1. Keeps(rq[t], {"respond"}, o, p)
  BY DEF outputFilterHandler, Running, Keeps
<1>2. PICK send, e, unread, data :
        LET x == [rq[t] EXCEPT !.toSend = send, !.ended = e, !.unread = unread, !.toPass = TRUE]
        IN Becomes(t, IF Collects(x) THEN Collected(x, data, e) ELSE [x EXCEPT !.off = TRUE])
  BY Zenon DEF outputFilterHandler
<1> DEFINE x == [rq[t] EXCEPT !.toSend = send, !.ended = e, !.unread = unread, !.toPass = TRUE]
<1>3. Keeps(x, {"respond"}, o, p)
  BY <1>1 DEF Keeps
<1> HIDE DEF x
<1>4. Keeps(Collected(x, data, e), {"respond"}, o, p)
  <2>1. PICK body, eos, out :
          Collected(x, data, e) =
            [x EXCEPT !.info.mDupResponseBody = body, !.info.eos = eos, !.headersOut = out]
    BY Zenon DEF Collected
  <2> QED BY <1>3, <2>1 DEF Keeps
<1>5. Keeps([x EXCEPT !.off = TRUE], {"respond"}, o, p)
  BY <1>3 DEF Keeps
<1>6. Becomes(t, Collected(x, data, e)) \/ Becomes(t, [x EXCEPT !.off = TRUE])
  BY <1>2, Zenon DEF x
<1> QED BY <1>4, <1>5, <1>6

\* Of the steps of a request, those that leave the writers alone.
LEMMA RequestOneRecord ==
    ASSUME LogInv, OneRecord, NEW t \in Threads,
           \/ translateHookCompare(t) \/ translateHookMigrate(t) \/ Translated(t)
           \/ inputFilterHandler(t) \/ Unpacks(t) \/ StopsReading(t)
           \/ outputFilterHandler(t) \/ TruncatesLog(t) \/ PassesOn(t) \/ outputFilterHandler2(t)
           \/ PassesAgain(t) \/ Finishes(t) \/ RecordWritten(t)
    PROVE  OneRecord'
<1>1. t \in Serving /\ phase = "running" /\ UNCHANGED <<scenario, phase, conf, writer>>
  BY DEF translateHookCompare, translateHookMigrate, Translated, inputFilterHandler,
     Unpacks, StopsReading, outputFilterHandler, TruncatesLog, PassesOn,
     outputFilterHandler2, PassesAgain, Finishes, RecordWritten, Running, OnlyRequest, logVars
<1>2. {"pc", "off2", "printer"} \subseteq DOMAIN rq[t] /\ rq[t].off2 \in BOOLEAN
  BY <1>1 DEF OneRecord
<1> DEFINE o == rq[t].off2
<1>3. ASSUME NEW y, Becomes(t, y), Elsewhere(y, o), rq[t].pc # "write" PROVE OneRecord'
  <2>1. writer[t].pc # "idle" => o = TRUE
    BY <1>3 DEF OneRecord
  <2> HIDE DEF o
  <2>2. y.off2 = o /\ y.pc # "differs" /\ {"pc", "off2", "printer"} \subseteq DOMAIN y
    BY <1>3 DEF Elsewhere
  <2>3. o \in BOOLEAN
    BY <1>2 DEF o
  <2> QED BY <1>1, <1>3, <2>1, <2>2, <2>3, RequestMoves
<1>4. CASE \/ translateHookCompare(t) \/ translateHookMigrate(t)
           \/ inputFilterHandler(t) \/ Unpacks(t) \/ outputFilterHandler(t)
  <2> DEFINE p == rq[t].printer
  <2>0. \/ /\ translateHookCompare(t) \/ translateHookMigrate(t)
              \/ inputFilterHandler(t) \/ Unpacks(t)
           /\ Keeps(rq[t], Reading, o, p)
        \/ outputFilterHandler(t) /\ Keeps(rq[t], {"respond"}, o, p)
    BY <1>2, <1>4 DEF translateHookCompare, translateHookMigrate, inputFilterHandler, Unpacks,
       outputFilterHandler, Running, Keeps, Reading
  <2> HIDE DEF o, p
  <2>1. \E y : Becomes(t, y) /\ (Keeps(y, Reading, o, p) \/ Keeps(y, {"respond"}, o, p))
    BY <1>1, <2>0, translateHookPc, inputFilterHandlerPc, UnpacksPc,
       outputFilterHandlerPc
  <2>3. \A y : Keeps(y, Reading, o, p) \/ Keeps(y, {"respond"}, o, p) => Elsewhere(y, o)
    BY DEF Keeps, Reading, Elsewhere
  <2>2. rq[t].pc # "write"
    BY <1>4 DEF translateHookCompare, translateHookMigrate, inputFilterHandler, Unpacks,
       outputFilterHandler, Running
  <2> QED BY <1>3, <2>1, <2>2, <2>3 DEF o
<1>5. CASE Translated(t) \/ StopsReading(t) \/ Finishes(t)
  <2>1. \E c \in {"handle", "respond", "done"} : Becomes(t, [rq[t] EXCEPT !.pc = c])
    BY <1>5, Zenon DEF Translated, StopsReading, Finishes
  <2>2. \A c \in {"handle", "respond", "done"} : Elsewhere([rq[t] EXCEPT !.pc = c], o)
    BY <1>2 DEF Elsewhere
  <2>3. rq[t].pc # "write"
    BY <1>5 DEF Translated, StopsReading, Finishes, Running
  <2> QED BY <1>3, <2>1, <2>2, <2>3
<1>6. CASE PassesOn(t) \/ PassesAgain(t)
  <2>1. rq[t].pc = "respond"
    BY <1>6 DEF PassesOn, PassesAgain, Running
  <2>2. Elsewhere([rq[t] EXCEPT !.toPass = FALSE], o)
    BY <1>2, <2>1 DEF Elsewhere
  <2>3. Elsewhere([rq[t] EXCEPT !.toPass = TRUE, !.again = TRUE], o)
    BY <1>2, <2>1 DEF Elsewhere
  <2>4. \/ Becomes(t, [rq[t] EXCEPT !.toPass = FALSE])
        \/ Becomes(t, [rq[t] EXCEPT !.toPass = TRUE, !.again = TRUE])
    BY <1>6, Zenon DEF PassesOn, PassesAgain, Passed
  <2> QED BY <1>3, <2>1, <2>2, <2>3, <2>4
<1>7. CASE TruncatesLog(t)
  <2>1. Elsewhere([rq[t] EXCEPT !.pc = "reopen"], o)
    BY <1>2 DEF Elsewhere
  <2>2. Elsewhere([rq[t] EXCEPT !.pc = "respond", !.off = TRUE], o)
    BY <1>2 DEF Elsewhere
  <2>3. \/ Becomes(t, [rq[t] EXCEPT !.pc = "reopen"])
        \/ Becomes(t, [rq[t] EXCEPT !.pc = "respond", !.off = TRUE])
    BY <1>7, Zenon DEF TruncatesLog
  <2>4. rq[t].pc # "write"
    BY <1>7 DEF TruncatesLog, Running
  <2> QED BY <1>3, <2>1, <2>2, <2>3, <2>4
<1>8. ASSUME Becomes(t, Compared(rq[t])) PROVE OneRecord'
  <2> DEFINE y == Compared(rq[t])
  <2>1. Elsewhere(y, TRUE)
    BY <1>2 DEF Elsewhere, Compared, Passed
  <2> HIDE DEF y
  <2>2. Becomes(t, y)
    BY <1>8 DEF y
  <2> QED BY <1>1, <2>1, <2>2, RequestMoves DEF Elsewhere
<1>9. CASE RecordWritten(t)
  BY <1>8, <1>9 DEF RecordWritten
<1>10. CASE outputFilterHandler2(t)
  <2>1. ~conf.compare.mCompareDisabled /\ rq[t].pc = "respond" /\ o = FALSE
    BY <1>2, <1>10 DEF outputFilterHandler2, Running, Compares
  <2>2. \/ \E p : Becomes(t, [rq[t] EXCEPT !.pc = "differs", !.printer = p])
        \/ Becomes(t, Compared(rq[t]))
    BY <1>10, Zenon DEF outputFilterHandler2
  <2>3. ASSUME NEW p, Becomes(t, [rq[t] EXCEPT !.pc = "differs", !.printer = p]) PROVE OneRecord'
    <3> DEFINE y == [rq[t] EXCEPT !.pc = "differs", !.printer = p]
    <3>1. {"pc", "off2", "printer"} \subseteq DOMAIN y /\ y.off2 = FALSE
      BY <1>2, <2>1
    <3> HIDE DEF y
    <3>2. Becomes(t, y)
      BY <2>3 DEF y
    <3>3. writer[t].pc = "idle"
      BY <2>1 DEF OneRecord
    <3> QED BY <1>1, <2>1, <3>1, <3>2, <3>3, RequestMoves
  <2> QED BY <1>8, <2>2, <2>3
<1> QED BY <1>4, <1>5, <1>6, <1>7, <1>9, <1>10

\* A record keeps its form while it is written.
LEMMA WriterOneRecord ==
    ASSUME LogInv, OneRecord, NEW t \in Threads, WritesRecord(t) \/ Wakes(t)
    PROVE  OneRecord'
<1>1. phase = "running" /\ UNCHANGED <<scenario, phase, conf, rq>> /\ (WriterStep(t) \/ LockWakes(t))
  BY DEF WritesRecord, Wakes, Running
<1>2. ASSUME UNCHANGED writer PROVE OneRecord'
  BY <1>1, <1>2 DEF OneRecord, Serving
<1>3. ASSUME writer[t].pc # "idle", writer'[t].form = writer[t].form,
             \A u \in Threads : u # t => writer'[u] = writer[u]
      PROVE  OneRecord'
  BY <1>1, <1>3 DEF OneRecord, Serving
<1>4. CASE LockWithoutMemory(t)
  BY <1>2, <1>4 DEF LockWithoutMemory, Die
<1>5. ASSUME NEW c, writer[t].pc # "idle", Goto(t, c) PROVE OneRecord'
  BY <1>3, <1>5, GotoOne DEF LogInv
<1>6. ASSUME NEW c, NEW k, writer[t].pc # "idle", writer' = [writer EXCEPT ![t].part = k, ![t].pc = c]
      PROVE  OneRecord'
  BY <1>3, <1>6, GotoPart DEF LogInv
<1>7. CASE \/ StartsWriting(t) \/ createGlobalMutex(t) \/ ftruncate(t) \/ pthread_mutex_init(t)
           \/ getGlobalMutex(t) \/ pthread_mutex_lock(t) \/ LockSleeps(t) \/ LockWakes(t)
           \/ pthread_mutex_unlock(t)
  <2>1. writer[t].pc # "idle"
    BY <1>7 DEF StartsWriting, createGlobalMutex, ftruncate, pthread_mutex_init, getGlobalMutex,
       pthread_mutex_lock, LockSleeps, LockWakes, pthread_mutex_unlock, At
  <2>2. \E c : Goto(t, c)
    BY <1>7, Zenon DEF StartsWriting, createGlobalMutex, ftruncate, pthread_mutex_init,
       getGlobalMutex, pthread_mutex_lock, LockSleeps, LockWakes, pthread_mutex_unlock
  <2> QED BY <1>5, <2>1, <2>2
<1>8. CASE WritesPart(t) \/ text_oarchive(t) \/ writeInFacility(t)
  <2>1. writer[t].pc # "idle"
    BY <1>8 DEF WritesPart, text_oarchive, writeInFacility, At
  <2>2. \E c, k : writer' = [writer EXCEPT ![t].part = k, ![t].pc = c]
    BY <1>8, Zenon DEF WritesPart, text_oarchive, writeInFacility
  <2> QED BY <1>6, <2>1, <2>2
<1> QED BY <1>1, <1>4, <1>7, <1>8 DEF WriterStep

\* A record is begun in the form that the location asks for, and once.
LEMMA BeginOneRecord ==
    ASSUME LogInv, OneRecord, NEW t \in Threads,
           writeSerializedRequest(t) \/ writeDifferences(t) \/ writeDifferencesThrows(t)
    PROVE  OneRecord' /\ writer[t].pc = "idle"
<1>1. /\ t \in Serving /\ phase = "running" /\ UNCHANGED <<scenario, phase, conf>>
      /\ {"pc", "off2", "printer"} \subseteq DOMAIN rq[t] /\ rq[t].off2 \in BOOLEAN
  BY DEF writeSerializedRequest, writeDifferences, writeDifferencesThrows, Running, OneRecord
<1>2. ASSUME NEW y, Becomes(t, y), {"pc", "off2", "printer"} \subseteq DOMAIN y, y.off2 \in BOOLEAN, y.pc = "write",
             NEW form, Writes(t, form), conf.compare.mCompareDisabled => form = "archive"
      PROVE  OneRecord'
  <2>1. \A u \in Serving : rq'[u] = IF u = t THEN y ELSE rq[u]
    BY <1>1, <1>2 DEF Becomes, LogInv, Shape
  <2>2. writer'[t].form = form /\ \A u \in Threads : u # t => writer'[u] = writer[u]
    BY <1>2 DEF Writes, NoWriter, LogInv, Shape
  <2> QED BY <1>1, <1>2, <2>1, <2>2 DEF OneRecord, Serving
<1>3. CASE writeSerializedRequest(t)
  <2> DEFINE y == [rq[t] EXCEPT !.pc = "write", !.logged = TRUE]
  <2>1. Becomes(t, y) /\ Writes(t, "archive")
    BY <1>3 DEF writeSerializedRequest
  <2>2. {"pc", "off2", "printer"} \subseteq DOMAIN y /\ y.off2 = rq[t].off2 /\ y.pc = "write"
    BY <1>1
  <2> HIDE DEF y
  <2>3. rq[t].pc = "respond" /\ rq[t].off2 = FALSE
    BY <1>1, <1>3 DEF writeSerializedRequest, Running, Compares
  <2>4. writer[t].pc = "idle"
    BY <2>3 DEF OneRecord
  <2> QED BY <1>1, <1>2, <2>1, <2>2, <2>4
<1>4. CASE writeDifferences(t) \/ writeDifferencesThrows(t)
  <2>1. rq[t].pc = "differs" /\ ~conf.compare.mCompareDisabled /\ rq[t].off2 = FALSE
    BY <1>1, <1>4 DEF writeDifferences, writeDifferencesThrows, Running, OneRecord
  <2>2. writer[t].pc = "idle"
    BY <2>1 DEF OneRecord
  <2>3. CASE writeDifferencesThrows(t)
    BY <1>1, <2>2, <2>3 DEF writeDifferencesThrows, Die, OneRecord, Serving
  <2>4. CASE writeDifferences(t)
    <3>1. \/ \E p : /\ Becomes(t, [rq[t] EXCEPT !.pc = "write", !.printer = p, !.logged = TRUE])
                    /\ Writes(t, conf.compare.mLogType)
          \/ Becomes(t, Compared(rq[t])) /\ UNCHANGED writer
      BY <2>4, Zenon DEF writeDifferences
    <3>2. ASSUME NEW p, Becomes(t, [rq[t] EXCEPT !.pc = "write", !.printer = p, !.logged = TRUE]),
                 Writes(t, conf.compare.mLogType)
          PROVE  OneRecord'
      <4> DEFINE y == [rq[t] EXCEPT !.pc = "write", !.printer = p, !.logged = TRUE]
      <4>1. {"pc", "off2", "printer"} \subseteq DOMAIN y /\ y.off2 = rq[t].off2 /\ y.pc = "write"
        BY <1>1
      <4> HIDE DEF y
      <4>2. Becomes(t, y)
        BY <3>2 DEF y
      <4> QED BY <1>1, <1>2, <2>1, <3>2, <4>1, <4>2
    <3>3. ASSUME Becomes(t, Compared(rq[t])), UNCHANGED writer PROVE OneRecord'
      <4> DEFINE y == Compared(rq[t])
      <4>1. Elsewhere(y, TRUE)
        BY <1>1 DEF Elsewhere, Compared, Passed
      <4> HIDE DEF y
      <4>2. Becomes(t, y)
        BY <3>3 DEF y
      <4> QED BY <1>1, <3>3, <4>1, <4>2, RequestMoves DEF Elsewhere
    <3>4. OneRecord'
      BY <3>1, <3>2, <3>3, Zenon
    <3> QED BY <2>2, <3>4
  <2> QED BY <1>4, <2>3, <2>4
<1> QED BY <1>3, <1>4

\* A request writes one record at most, in the form of the directives: an
\* archive where CompareLogType or DisableLibwsdiff disabled the comparison.
THEOREM OneRecordInvariant == Spec => []OneRecord
<1>1. Init => OneRecord
  <2> SUFFICES ASSUME Init PROVE OneRecord
    OBVIOUS
  <2>1. /\ writer = [t \in Threads |-> NoWriter]
        /\ rq = [t \in Serving |-> NewRequest(Request(t), scenario.hooks)]
    BY DEF Init, LogInit
  <2> QED BY <2>1 DEF OneRecord, NoWriter, NewRequest
<1>2. LogInv /\ OneRecord /\ [Next]_vars => OneRecord'
  <2> SUFFICES ASSUME LogInv, OneRecord, [Next]_vars PROVE OneRecord'
    OBVIOUS
  <2>1. CASE Configure
    <3>1. phase = "config" /\ UNCHANGED <<scenario, rq, writer>>
      BY <2>1 DEF Configure, setBodyList, setHeaderList, setDiffLogType, setDisableLibwsdiff,
         setCompareLog, setCompare, setApplicationScope, setMigrateEnv, postConfig, Directive, logVars
    <3> QED BY <3>1 DEF OneRecord, Serving
  <2>2. ASSUME NEW t \in Threads, Step(t) \/ Wakes(t) PROVE OneRecord'
    BY <2>2, RequestOneRecord, BeginOneRecord, WriterOneRecord DEF Step
  <2>3. ASSUME NEW p \in Processes, Crash(p) PROVE OneRecord'
    BY <2>3 DEF Crash, Die, OneRecord, Serving
  <2>4. CASE UNCHANGED vars
    BY <2>4 DEF vars, logVars, OneRecord, Serving
  <2> QED BY <2>1, <2>2, <2>3, <2>4 DEF Next
<1> QED BY <1>1, <1>2, LogInvariant, PTL DEF Spec

-----------------------------------------------------------------------------
(* Every part that a thread has written is in the file or in the stream of *)
(* its process, once and in order, whoever else writes, and in the file    *)
(* when the record is written. The mutex plays no part in this but to keep *)
(* the threads of a process from using their stream at once (torn).        *)

\* Of the parts of t, those below n are in the file a and the stream b.
Fits(a, b, t, n) ==
    /\ \A i \in 1 .. Len(a) : a[i][1] = t => a[i][2] < n
    /\ \A i \in 1 .. Len(b) : b[i][1] = t => b[i][2] < n
    /\ \A i, j \in 1 .. Len(a) : i < j /\ a[i][1] = t /\ a[j][1] = t => a[i][2] < a[j][2]
    /\ \A i, j \in 1 .. Len(b) : i < j /\ b[i][1] = t /\ b[j][1] = t => b[i][2] < b[j][2]
    /\ \A i \in 1 .. Len(a), j \in 1 .. Len(b) : a[i][1] = t /\ b[j][1] = t => a[i][2] < b[j][2]
    /\ \A k \in 1 .. n - 1 : \/ \E i \in 1 .. Len(a) : a[i] = <<t, k>>
                             \/ \E j \in 1 .. Len(b) : b[j] = <<t, k>>

Absent(b, t) == \A j \in 1 .. Len(b) : b[j][1] # t

\* Where a writer w is that has its parts below w.part behind it, and m how its
\* stream is open.
Placed(w, m) ==
    /\ w.pc \in Before \cup Resting \cup {"write", "unlock", "endl"}
    /\ w.part \in 1 .. Parts + 1
    /\ w.pc \in Before \cup {"idle", "dropped"} => w.part = 1
    /\ w.pc = "write" => w.part <= (IF w.file /\ w.form = "archive" THEN Parts - 1 ELSE Parts)
    /\ w.pc = "unlock" => w.part = Parts + 1 \/ (w.part = Parts /\ w.file)
    /\ w.pc = "endl" => w.part = Parts /\ w.file
    /\ w.pc = "written" => w.part = Parts + 1
    /\ w.pc \in Inside \cup {"endl"} /\ w.file => m = "app"

Mode(t) == gFile[Process[t]].mode
Torn(t) == gFile[Process[t]].torn

Kept ==
    /\ Streams
    /\ \A t \in Threads : \A j \in 1 .. Len(Buf(t)) : Process[Buf(t)[j][1]] = Process[t]
    /\ \A t \in Threads : Placed(writer[t], Mode(t))
    /\ \A t \in Threads : ~Torn(t) => Fits(log, Buf(t), t, writer[t].part)
    /\ \A t \in Threads : ~Torn(t) /\ (writer[t].part = Parts + 1 \/ ~writer[t].file) => Absent(Buf(t), t)

KeptInv == phase = "running" /\ ~Truncated => Kept

LEMMA FitsOwn ==
    ASSUME NEW a \in Seq(Cells), NEW b \in Seq(Cells), NEW t \in Threads, NEW n \in 1 .. Parts,
           Fits(a, b, t, n)
    PROVE  Fits(a, Append(b, <<t, n>>), t, n + 1)
<1> DEFINE c == Append(b, <<t, n>>)
<1>1. /\ Len(a) \in Nat /\ Len(b) \in Nat /\ Len(c) = Len(b) + 1
      /\ c[Len(b) + 1] = <<t, n>> /\ \A i \in 1 .. Len(b) : c[i] = b[i]
  BY AppendCell DEF Cells
<1>2. /\ c[Len(b) + 1][1] = t /\ c[Len(b) + 1][2] = n
  BY <1>1
<1>3. /\ \A i \in 1 .. Len(a) : a[i][2] \in Nat
      /\ \A i \in 1 .. Len(b) : b[i][2] \in Nat
  BY DEF Cells
<1> HIDE DEF c
<1>4. \A i \in 1 .. Len(c) : i # Len(b) + 1 => i \in 1 .. Len(b)
  BY <1>1
<1>5. \A i \in 1 .. Len(a) : a[i][1] = t => a[i][2] < n + 1
  BY <1>3 DEF Fits
<1>6. \A i \in 1 .. Len(c) : c[i][1] = t => c[i][2] < n + 1
  BY <1>1, <1>2, <1>3 DEF Fits
<1>7. \A i, j \in 1 .. Len(c) : i < j /\ c[i][1] = t /\ c[j][1] = t => c[i][2] < c[j][2]
  <2> SUFFICES ASSUME NEW i \in 1 .. Len(c), NEW j \in 1 .. Len(c), i < j, c[i][1] = t, c[j][1] = t
               PROVE  c[i][2] < c[j][2]
    OBVIOUS
  <2>1. i \in 1 .. Len(b) /\ c[i] = b[i] /\ b[i][2] < n
    <3>1. i # Len(b) + 1
      BY <1>1
    <3>2. i \in 1 .. Len(b) /\ c[i] = b[i]
      BY <1>1, <1>4, <3>1
    <3> QED BY <3>2 DEF Fits
  <2>2. CASE j = Len(b) + 1
    BY <1>2, <2>1, <2>2
  <2>3. CASE j # Len(b) + 1
    <3>1. j \in 1 .. Len(b) /\ c[j] = b[j]
      BY <1>1, <1>4, <2>3
    <3> QED BY <2>1, <3>1 DEF Fits
  <2> QED BY <2>2, <2>3
<1>8. \A i \in 1 .. Len(a), j \in 1 .. Len(c) : a[i][1] = t /\ c[j][1] = t => a[i][2] < c[j][2]
  <2> SUFFICES ASSUME NEW i \in 1 .. Len(a), NEW j \in 1 .. Len(c), a[i][1] = t, c[j][1] = t
               PROVE  a[i][2] < c[j][2]
    OBVIOUS
  <2>1. CASE j = Len(b) + 1
    BY <1>2, <2>1 DEF Fits
  <2>2. CASE j # Len(b) + 1
    <3>1. j \in 1 .. Len(b) /\ c[j] = b[j]
      BY <1>1, <1>4, <2>2
    <3> QED BY <3>1 DEF Fits
  <2> QED BY <2>1, <2>2
<1>9. ASSUME NEW k \in 1 .. (n + 1) - 1
      PROVE  (\E i \in 1 .. Len(a) : a[i] = <<t, k>>) \/ (\E j \in 1 .. Len(c) : c[j] = <<t, k>>)
  <2>1. CASE k = n
    <3>1. Len(b) + 1 \in 1 .. Len(c) /\ c[Len(b) + 1] = <<t, k>>
      BY <1>1, <2>1
    <3> QED BY <3>1, Zenon
  <2>2. CASE k # n
    <3>1. k \in 1 .. n - 1
      BY <2>2
    <3>2. (\E i \in 1 .. Len(a) : a[i] = <<t, k>>) \/ (\E j \in 1 .. Len(b) : b[j] = <<t, k>>)
      BY <3>1 DEF Fits
    <3>3. ASSUME NEW j \in 1 .. Len(b), b[j] = <<t, k>> PROVE j \in 1 .. Len(c) /\ c[j] = <<t, k>>
      BY <1>1, <3>3
    <3> QED BY <3>2, <3>3, Zenon
  <2> QED BY <2>1, <2>2
<1> QED BY <1>1, <1>3, <1>5, <1>6, <1>7, <1>8, <1>9 DEF Fits, c

\* What others write, to the stream or to the file, is in nobody's way.
LEMMA FitsOther ==
    ASSUME NEW a \in Seq(Cells), NEW b \in Seq(Cells), NEW t, NEW n, Fits(a, b, t, n),
           NEW e \in Cells, e[1] # t
    PROVE  Fits(a, Append(b, e), t, n)
<1> DEFINE c == Append(b, e)
<1>1. /\ Len(a) \in Nat /\ Len(b) \in Nat /\ Len(c) = Len(b) + 1
      /\ c[Len(b) + 1] = e /\ \A i \in 1 .. Len(b) : c[i] = b[i]
  BY AppendCell
<1> HIDE DEF c
<1>2. \A j \in 1 .. Len(c) : c[j][1] = t => j \in 1 .. Len(b) /\ c[j] = b[j]
  BY <1>1
<1>3. \A k : (\E j \in 1 .. Len(b) : b[j] = <<t, k>>) => (\E j \in 1 .. Len(c) : c[j] = <<t, k>>)
  <2>1. \A j \in 1 .. Len(b) : j \in 1 .. Len(c) /\ c[j] = b[j]
    BY <1>1
  <2> QED BY <2>1, Zenon
<1> QED BY <1>2, <1>3 DEF Fits, c

LEMMA FitsFileOther ==
    ASSUME NEW a \in Seq(Cells), NEW b \in Seq(Cells), NEW t, NEW n, Fits(a, b, t, n),
           NEW e \in Seq(Cells), Absent(e, t)
    PROVE  Fits(a \o e, b, t, n)
<1> DEFINE c == a \o e
<1>1. /\ Len(a) \in Nat /\ Len(e) \in Nat /\ Len(c) = Len(a) + Len(e)
      /\ \A i \in 1 .. Len(a) : c[i] = a[i]
      /\ \A i \in Len(a) + 1 .. Len(a) + Len(e) : c[i] = e[i - Len(a)]
  OBVIOUS
<1> HIDE DEF c
<1>2. ASSUME NEW i \in 1 .. Len(c), c[i][1] = t PROVE i \in 1 .. Len(a) /\ c[i] = a[i]
  <2>1. CASE i \in Len(a) + 1 .. Len(a) + Len(e)
    <3>1. i - Len(a) \in 1 .. Len(e) /\ c[i] = e[i - Len(a)]
      BY <1>1, <2>1
    <3> QED BY <1>2, <3>1 DEF Absent
  <2> QED BY <1>1, <2>1
<1>3. \A k : (\E j \in 1 .. Len(a) : a[j] = <<t, k>>) => (\E j \in 1 .. Len(c) : c[j] = <<t, k>>)
  <2>1. \A j \in 1 .. Len(a) : j \in 1 .. Len(c) /\ c[j] = a[j]
    BY <1>1
  <2> QED BY <2>1, Zenon
<1> QED BY <1>2, <1>3 DEF Fits, c

\* The stream goes to the end of the file.
LEMMA FitsFlush ==
    ASSUME NEW a \in Seq(Cells), NEW b \in Seq(Cells), NEW t, NEW n, Fits(a, b, t, n)
    PROVE  Fits(a \o b, <<>>, t, n)
<1> DEFINE c == a \o b
<1>1. /\ Len(a) \in Nat /\ Len(b) \in Nat /\ Len(c) = Len(a) + Len(b)
      /\ \A i \in 1 .. Len(a) : c[i] = a[i]
      /\ \A i \in Len(a) + 1 .. Len(a) + Len(b) : c[i] = b[i - Len(a)]
  OBVIOUS
<1>2. \A j \in 1 .. Len(b) : c[Len(a) + j] = b[j]
  BY <1>1
<1> HIDE DEF c
<1>3. ASSUME NEW i \in 1 .. Len(c)
      PROVE  \/ i \in 1 .. Len(a) /\ c[i] = a[i]
             \/ i > Len(a) /\ i - Len(a) \in 1 .. Len(b) /\ c[i] = b[i - Len(a)]
  BY <1>1
<1>4. \A i \in 1 .. Len(c) : c[i][1] = t => c[i][2] < n
  BY <1>3 DEF Fits
<1>5. ASSUME NEW i \in 1 .. Len(c), NEW j \in 1 .. Len(c), i < j, c[i][1] = t, c[j][1] = t
      PROVE  c[i][2] < c[j][2]
  <2>1. CASE j \in 1 .. Len(a) /\ c[j] = a[j]
    <3>1. i \in 1 .. Len(a) /\ c[i] = a[i]
      BY <1>1, <1>3, <1>5, <2>1
    <3> QED BY <1>5, <2>1, <3>1 DEF Fits
  <2>2. CASE j > Len(a) /\ j - Len(a) \in 1 .. Len(b) /\ c[j] = b[j - Len(a)]
    <3>1. CASE i \in 1 .. Len(a) /\ c[i] = a[i]
      BY <1>5, <2>2, <3>1 DEF Fits
    <3>2. CASE i - Len(a) \in 1 .. Len(b) /\ c[i] = b[i - Len(a)]
      <4>1. i - Len(a) < j - Len(a)
        BY <1>1, <1>5
      <4> QED BY <1>5, <2>2, <3>2, <4>1 DEF Fits
    <3> QED BY <1>3, <3>1, <3>2
  <2> QED BY <1>3, <2>1, <2>2
<1>6. ASSUME NEW k \in 1 .. n - 1 PROVE \E i \in 1 .. Len(c) : c[i] = <<t, k>>
  <2>1. CASE \E i \in 1 .. Len(a) : a[i] = <<t, k>>
    <3>1. \A i \in 1 .. Len(a) : i \in 1 .. Len(c) /\ c[i] = a[i]
      BY <1>1
    <3> QED BY <2>1, <3>1, Zenon
  <2>2. CASE \E j \in 1 .. Len(b) : b[j] = <<t, k>>
    <3>1. PICK j \in 1 .. Len(b) : b[j] = <<t, k>>
      BY <2>2
    <3>2. Len(a) + j \in 1 .. Len(c) /\ c[Len(a) + j] = <<t, k>>
      BY <1>1, <1>2, <3>1
    <3> QED BY <3>2, Zenon
  <2> QED BY <2>1, <2>2 DEF Fits
<1> DEFINE e == <<>>
<1>7. \A j \in 1 .. Len(e) : FALSE
  OBVIOUS
<1> HIDE DEF e
<1>8. Fits(c, e, t, n)
  BY <1>4, <1>5, <1>6, <1>7 DEF Fits
<1> QED BY <1>8 DEF c, e

\* Parts that go to the syslog, with none in the stream.
LEMMA FitsFileOwn ==
    ASSUME NEW a \in Seq(Cells), NEW b \in Seq(Cells), NEW t \in Threads, NEW n \in 1 .. Parts,
           Fits(a, b, t, n), Absent(b, t),
           NEW e \in Seq(Cells), \A i \in 1 .. Len(e) : e[i] = <<t, n + i - 1>>
    PROVE  Fits(a \o e, b, t, n + Len(e))
<1> DEFINE c == a \o e
           m == Len(e)
           l == Len(a)
<1>1. /\ l \in Nat /\ m \in Nat /\ Len(c) = l + m
      /\ \A i \in 1 .. l : c[i] = a[i]
      /\ \A i \in l + 1 .. l + m : c[i] = e[i - l]
  OBVIOUS
<1>2. \A i \in 1 .. m : e[i] = <<t, n + i - 1>>
  OBVIOUS
<1> HIDE DEF c, m, l
<1>3. ASSUME NEW i \in l + 1 .. l + m PROVE c[i] = <<t, n + (i - l) - 1>> /\ c[i][2] = n + (i - l) - 1
  <2>1. i - l \in 1 .. m
    BY <1>1
  <2>2. c[i] = e[i - l]
    BY <1>1
  <2>3. e[i - l] = <<t, n + (i - l) - 1>>
    BY <1>2, <2>1
  <2> QED BY <2>2, <2>3
<1>4. \A i \in 1 .. Len(c) : i \in 1 .. l \/ i \in l + 1 .. l + m
  BY <1>1
<1>5. \A i \in 1 .. l : a[i][2] \in Nat /\ (a[i][1] = t => a[i][2] < n)
  BY DEF Fits, Cells, l
<1>6. ASSUME NEW i \in 1 .. Len(c), c[i][1] = t PROVE c[i][2] < n + m
  <2>1. CASE i \in 1 .. l
    BY <1>1, <1>5, <1>6, <2>1
  <2>2. CASE i \in l + 1 .. l + m
    BY <1>1, <1>3, <2>2
  <2> QED BY <1>4, <2>1, <2>2
<1>7. ASSUME NEW i \in 1 .. Len(c), NEW j \in 1 .. Len(c), i < j, c[i][1] = t, c[j][1] = t
      PROVE  c[i][2] < c[j][2]
  <2>1. CASE j \in 1 .. l
    <3>1. i \in 1 .. l
      BY <1>1, <1>7, <2>1
    <3> QED BY <1>1, <1>7, <2>1, <3>1 DEF Fits, l
  <2>2. CASE j \in l + 1 .. l + m
    <3>1. CASE i \in 1 .. l
      <4>1. c[i][2] \in Nat /\ c[i][2] < n
        BY <1>1, <1>5, <1>7, <3>1
      <4> QED BY <1>1, <1>3, <2>2, <4>1
    <3>2. CASE i \in l + 1 .. l + m
      BY <1>1, <1>3, <1>7, <2>2, <3>2
    <3> QED BY <1>4, <3>1, <3>2
  <2> QED BY <1>4, <2>1, <2>2
<1>8. ASSUME NEW k \in 1 .. (n + m) - 1
      PROVE  (\E i \in 1 .. Len(c) : c[i] = <<t, k>>) \/ (\E j \in 1 .. Len(b) : b[j] = <<t, k>>)
  <2>1. CASE k \in 1 .. n - 1
    <3>1. (\E i \in 1 .. l : a[i] = <<t, k>>) \/ (\E j \in 1 .. Len(b) : b[j] = <<t, k>>)
      BY <2>1 DEF Fits, l
    <3>2. ASSUME NEW i \in 1 .. l, a[i] = <<t, k>> PROVE i \in 1 .. Len(c) /\ c[i] = <<t, k>>
      BY <1>1, <3>2
    <3> QED BY <3>1, <3>2, Zenon
  <2>2. CASE k >= n
    <3> DEFINE i == l + (k - n) + 1
    <3>1. i \in l + 1 .. l + m /\ i \in 1 .. Len(c) /\ n + (i - l) - 1 = k
      BY <1>1, <2>2
    <3> HIDE DEF i
    <3>2. c[i] = <<t, n + (i - l) - 1>>
      BY <1>3, <3>1
    <3>3. c[i] = <<t, k>>
      BY <3>1, <3>2
    <3>4. i \in 1 .. Len(c)
      BY <3>1
    <3> QED BY <3>3, <3>4, Zenon
  <2>3. k \in 1 .. n - 1 \/ k >= n
    BY <1>1
  <2> QED BY <2>1, <2>2, <2>3
<1>9. \A j \in 1 .. Len(b) : b[j][1] # t
  BY DEF Absent
<1>10. Fits(c, b, t, n + m)
  BY <1>6, <1>7, <1>8, <1>9 DEF Fits
<1> QED BY <1>10 DEF c, m

\* A thread that has written nothing has nothing in the stream.
LEMMA FitsNothing ==
    ASSUME NEW a, NEW b \in Seq(Cells), NEW t, Fits(a, b, t, 1)
    PROVE  Absent(b, t)
<1>1. \A j \in 1 .. Len(b) : b[j][2] \in 1 .. Parts
  BY DEF Cells
<1> QED BY <1>1 DEF Fits, Absent, Parts

\* A thread moves and writes nothing.
LEMMA KeptMove ==
    ASSUME Kept, NEW t \in Threads, UNCHANGED <<log, gFile>>,
           \A u \in Threads : u # t => writer'[u] = writer[u],
           writer'[t].part = writer[t].part, Placed(writer'[t], Mode(t)),
           writer'[t].file = writer[t].file \/ writer[t].part = 1
    PROVE  Kept'
<1>1. \A u \in Threads : Buf(u)' = Buf(u) /\ Mode(u)' = Mode(u) /\ (Torn(u)' <=> Torn(u))
  BY DEF Buf, Mode, Torn
<1>2. Streams'
  BY DEF Kept, Streams, Buf
<1>3. \A u \in Threads : \A j \in 1 .. Len(Buf(u)') : Process[(Buf(u)')[j][1]] = Process[u]
  BY <1>1 DEF Kept
<1>4. \A u \in Threads : writer'[u].part = writer[u].part
  OBVIOUS
<1>5. \A u \in Threads : Placed(writer'[u], Mode(u)')
  BY <1>1 DEF Kept
<1>6. \A u \in Threads : ~Torn(u)' => Fits(log', Buf(u)', u, writer'[u].part)
  BY <1>1, <1>4 DEF Kept
<1>7. \A u \in Threads : ~Torn(u)' /\ writer'[u].part = Parts + 1 => Absent(Buf(u)', u)
  BY <1>1, <1>4 DEF Kept
<1>8. \A u \in Threads : ~Torn(u)' /\ ~writer'[u].file => Absent(Buf(u)', u)
  <2> SUFFICES ASSUME NEW u \in Threads, ~Torn(u), ~writer'[u].file PROVE Absent(Buf(u), u)
    BY <1>1
  <2>1. CASE writer[u].part = 1
    BY <2>1, FitsNothing DEF Kept, Streams
  <2>2. CASE writer[u].part # 1
    BY <2>2 DEF Kept
  <2> QED BY <2>1, <2>2
<1> QED BY <1>2, <1>3, <1>5, <1>6, <1>7, <1>8 DEF Kept

\* A part goes to the stream, and the stream may go to the file.
LEMMA KeptPut ==
    ASSUME RecordsInv, Kept, NEW t \in Threads, writer[t].part \in 1 .. Parts, Mode(t) = "app",
           NEW flush \in BOOLEAN, Put(t, flush), writer[t].part = Parts => flush,
           \A u \in Threads : u # t => writer'[u] = writer[u],
           writer'[t].part = writer[t].part + 1, writer'[t].file, Placed(writer'[t], Mode(t))
    PROVE  Kept'
<1> DEFINE n == writer[t].part
           p == Process[t]
<1>1. PICK b \in BuffersAfter(t) : Goes(t, flush, b)
  BY PutGoes DEF Kept, Mode
<1>2. \A u \in Threads : Process[u] = p =>
        Buf(u) = Buf(t) /\ Buf(u)' = Buf(t)' /\ (Torn(u) <=> Torn(t)) /\ (Torn(u)' <=> Torn(t)')
  BY DEF Buf, Torn
<1>3. /\ \A u \in Threads : Mode(u)' = Mode(u)
      /\ \A u \in Threads : Process[u] # p => (Torn(u)' <=> Torn(u))
      /\ Torn(t)' <=> Torn(t) \/ Races(t)
  BY PutShape, ProcessOf DEF RecordsInv, Mode, Torn
<1>4. log \in Seq(Cells) /\ \A u \in Threads : Buf(u) \in Seq(Cells)
  BY DEF Kept, Streams
<1>5. <<t, n>> \in Cells /\ <<t, n>>[1] = t
  BY DEF Cells
<1>6. /\ b \in Seq(Cells) /\ Len(b) \in Nat
      /\ \A j \in 1 .. Len(b) : b[j] = <<t, n>> \/ \E i \in 1 .. Len(Buf(t)) : b[j] = Buf(t)[i]
      /\ ~Torn(t)' => b = Append(Buf(t), <<t, n>>)
  BY <1>3, <1>4, BuffersAfterAre
<1>7. ASSUME NEW u \in Threads, Process[u] = p, ~Torn(u)' PROVE Fits(log, b, u, writer'[u].part)
  <2>1. ~Torn(u) /\ b = Append(Buf(t), <<t, n>>)
    BY <1>2, <1>3, <1>6, <1>7
  <2>2. Fits(log, Buf(t), u, writer[u].part)
    BY <1>2, <1>7, <2>1 DEF Kept
  <2>3. CASE u = t
    BY <1>4, <2>1, <2>2, <2>3, FitsOwn
  <2>4. CASE u # t
    BY <1>4, <1>5, <2>1, <2>2, <2>4, FitsOther
  <2> QED BY <2>3, <2>4
<1>8. \A j \in 1 .. Len(b) : Process[b[j][1]] = p
  <2>1. \A i \in 1 .. Len(Buf(t)) : Process[Buf(t)[i][1]] = p
    BY DEF Kept
  <2> QED BY <1>5, <1>6, <2>1
<1>9. \A u \in Threads : u # t /\ Absent(Buf(t), u) => Absent(b, u)
  BY <1>5, <1>6 DEF Absent
<1>10. \A u \in Threads : ~Torn(u)' /\ (writer'[u].part = Parts + 1 \/ ~writer'[u].file) =>
          /\ u = t => flush
          /\ u # t => Absent(Buf(u), u)
  <2>1. \A u \in Threads : ~Torn(u)' => ~Torn(u)
    BY <1>2, <1>3
  <2> QED BY <2>1 DEF Kept, Parts
<1>11. \A u \in Threads : Placed(writer'[u], Mode(u)')
  BY <1>3 DEF Kept
<1> HIDE DEF n, p
<1>12. CASE log' = log \o b /\ Buf(t)' = <<>>
  <2>1. log' \in Seq(Cells)
    BY <1>4, <1>6, <1>12
  <2>2. <<>> \in Seq(Cells) /\ \A u : Absent(<<>>, u)
    BY DEF Absent
  <2>3. \A u \in Threads : Buf(u)' = IF Process[u] = p THEN <<>> ELSE Buf(u)
    BY <1>1, <1>2, <1>12 DEF Goes, p
  <2>4. ASSUME NEW u \in Threads, ~Torn(u)' PROVE Fits(log', Buf(u)', u, writer'[u].part)
    <3>1. CASE Process[u] = p
      BY <1>4, <1>6, <1>7, <1>12, <2>3, <2>4, <3>1, FitsFlush
    <3>2. CASE Process[u] # p
      <4>1. Absent(b, u) /\ writer'[u] = writer[u]
        BY <1>8, <3>2 DEF Absent, p
      <4>2. Fits(log, Buf(u), u, writer[u].part)
        BY <1>3, <2>4, <3>2 DEF Kept
      <4> QED BY <1>4, <1>6, <1>12, <2>3, <3>2, <4>1, <4>2, FitsFileOther
    <3> QED BY <3>1, <3>2
  <2>5. \A u \in Threads : Buf(u)' \in Seq(Cells)
    BY <1>4, <2>2, <2>3
  <2>6. \A u \in Threads : \A j \in 1 .. Len(Buf(u)') : Process[(Buf(u)')[j][1]] = Process[u]
    BY <2>3 DEF Kept
  <2>7. \A u \in Threads : ~Torn(u)' /\ (writer'[u].part = Parts + 1 \/ ~writer'[u].file) => Absent(Buf(u)', u)
    BY <1>10, <2>2, <2>3 DEF p
  <2> QED BY <1>11, <2>1, <2>4, <2>5, <2>6, <2>7 DEF Kept, Streams
<1>13. CASE ~flush /\ log' = log /\ Buf(t)' = b
  <2>1. \A u \in Threads : Buf(u)' = IF Process[u] = p THEN b ELSE Buf(u)
    BY <1>1, <1>2, <1>13 DEF Goes, p
  <2>2. \A u \in Threads : Buf(u)' \in Seq(Cells)
    BY <1>4, <1>6, <2>1
  <2>3. ASSUME NEW u \in Threads, ~Torn(u)' PROVE Fits(log', Buf(u)', u, writer'[u].part)
    <3>1. CASE Process[u] = p
      BY <1>7, <1>13, <2>1, <2>3, <3>1
    <3>2. CASE Process[u] # p
      <4>1. u # t /\ ~Torn(u)
        BY <1>3, <2>3, <3>2 DEF p
      <4> QED BY <1>13, <2>1, <3>2, <4>1 DEF Kept
    <3> QED BY <3>1, <3>2
  <2>4. \A u \in Threads : \A j \in 1 .. Len(Buf(u)') : Process[(Buf(u)')[j][1]] = Process[u]
    BY <1>8, <2>1 DEF Kept
  <2>5. \A u \in Threads : ~Torn(u)' /\ (writer'[u].part = Parts + 1 \/ ~writer'[u].file) => Absent(Buf(u)', u)
    BY <1>2, <1>9, <1>10, <1>13, <2>1
  <2> QED BY <1>4, <1>11, <1>13, <2>2, <2>3, <2>4, <2>5 DEF Kept, Streams
<1> QED BY <1>1, <1>12, <1>13 DEF Goes

\* A step that does not reopen the log.
LEMMA KeepsKept ==
    ASSUME KeptInv, phase = "running", \A p \in Processes : gFile'[p].mode = gFile[p].mode,
           ~Truncated /\ Kept => Kept'
    PROVE  KeptInv'
BY DEF KeptInv, Truncated

LEMMA SameKept ==
    ASSUME KeptInv, phase = "running", UNCHANGED <<gFile, log, writer>>
    PROVE  KeptInv'
<1>1. ~Truncated /\ Kept => Kept'
  BY DEF Kept, Streams, Buf, Mode, Torn
<1> QED BY <1>1, KeepsKept

\* A thread goes on to write a file only if its stream is open.
LEMMA GotoKept ==
    ASSUME LogInv, RecordsInv, KeptInv, NEW t \in Threads, phase = "running", UNCHANGED <<log, gFile>>,
           NEW c, Goto(t, c), writer[t].pc \in Before \cup {"unlock"},
           writer[t].pc # "unlock" => c \in (Before \ {"start"}) \cup {"dropped", "write"},
           writer[t].pc = "unlock" => c = IF writer[t].part <= Parts THEN "endl" ELSE "written",
           writer[t].pc = "start" /\ writer[t].file /\ c # "dropped" => Mode(t) \notin Closed
    PROVE  KeptInv'
<1>1. /\ \A u \in Threads : u # t => writer'[u] = writer[u]
      /\ writer'[t].pc = c /\ writer'[t].part = writer[t].part
      /\ writer'[t].form = writer[t].form /\ writer'[t].file = writer[t].file
  BY DEF LogInv, Shape, Fields, Goto
<1>2. ASSUME ~Truncated, Kept PROVE Kept'
  <2>1. Placed(writer[t], Mode(t))
    BY <1>2 DEF Kept
  <2>2. Mode(t) \in {"closed", "app"}
    BY <1>2, ProcessOf DEF RecordsInv, FileShape, Truncated, Mode
  <2>3. CASE writer[t].pc = "unlock"
    <3>1. c = (IF writer[t].part <= Parts THEN "endl" ELSE "written") /\ writer[t].part \in 1 .. Parts + 1
      BY <2>1, <2>3 DEF Placed
    <3>2. Placed(writer'[t], Mode(t))
      BY <1>1, <2>1, <2>3, <3>1 DEF Placed, Before, Resting, Inside, Parts
    <3> QED BY <1>1, <1>2, <3>2, KeptMove
  <2>4. CASE writer[t].pc # "unlock"
    <3>1. writer[t].pc \in Before /\ writer[t].part = 1
      BY <2>1, <2>4 DEF Placed
    <3>2. c \in (Before \ {"start"}) \cup {"dropped", "write"}
      BY <2>4
    <3>3. writer[t].file /\ c # "dropped" => Mode(t) = "app"
      BY <2>1, <2>2, <3>1, <3>2 DEF Placed, Before, Inside, Closed
    <3>4. Placed(writer'[t], Mode(t))
      BY <1>1, <3>1, <3>2, <3>3 DEF Placed, Before, Resting, Inside, Parts
    <3> QED BY <1>1, <1>2, <3>4, KeptMove
  <2> QED BY <2>3, <2>4
<1> QED BY <1>2, KeepsKept

\* The steps of a writer that write nothing.
LEMMA MovesKept ==
    ASSUME LogInv, RecordsInv, KeptInv, NEW t \in Threads, phase = "running",
           \/ StartsWriting(t) \/ createGlobalMutex(t) \/ ftruncate(t) \/ pthread_mutex_init(t)
           \/ getGlobalMutex(t) \/ LockSleeps(t) \/ LockWakes(t) \/ pthread_mutex_lock(t)
           \/ pthread_mutex_unlock(t)
    PROVE  KeptInv'
<1>1. CASE StartsWriting(t)
  <2> DEFINE c == IF writer[t].file /\ gFile[Process[t]].mode \in Closed THEN "dropped"
                  ELSE IF NeedsMutex(t) THEN "mutex" ELSE "write"
  <2>1. Goto(t, c) /\ UNCHANGED <<log, gFile>> /\ writer[t].pc = "start"
    BY <1>1 DEF StartsWriting, At
  <2>2. c \in {"dropped", "mutex", "write"} /\ (c # "dropped" /\ writer[t].file => Mode(t) \notin Closed)
    BY DEF Mode
  <2> HIDE DEF c
  <2> QED BY <2>1, <2>2, GotoKept DEF Before
<1>2. CASE \/ createGlobalMutex(t) \/ ftruncate(t) \/ pthread_mutex_init(t) \/ getGlobalMutex(t)
           \/ LockSleeps(t) \/ LockWakes(t) \/ pthread_mutex_lock(t)
  <2>1. PICK c \in {"ftruncate", "dropped", "mmap", "init", "lock", "asleep", "write"} : Goto(t, c)
    <3>1. CASE createGlobalMutex(t)
      BY <3>1 DEF createGlobalMutex
    <3>2. CASE \/ ftruncate(t) \/ pthread_mutex_init(t) \/ getGlobalMutex(t)
               \/ LockSleeps(t) \/ LockWakes(t) \/ pthread_mutex_lock(t)
      BY <3>2 DEF ftruncate, pthread_mutex_init, getGlobalMutex, LockSleeps, LockWakes, pthread_mutex_lock
    <3> QED BY <1>2, <3>1, <3>2
  <2>2. writer[t].pc \in Before \ {"start"} /\ UNCHANGED <<log, gFile>>
    BY <1>2 DEF createGlobalMutex, ftruncate, pthread_mutex_init, getGlobalMutex, LockSleeps, LockWakes,
       pthread_mutex_lock, At, Before
  <2> QED BY <2>1, <2>2, GotoKept DEF Before
<1>3. CASE pthread_mutex_unlock(t)
  <2>1. /\ Goto(t, IF writer[t].part <= Parts THEN "endl" ELSE "written")
        /\ UNCHANGED <<log, gFile>> /\ writer[t].pc = "unlock"
    BY <1>3 DEF pthread_mutex_unlock, At
  <2> QED BY <2>1, GotoKept
<1> QED BY <1>1, <1>2, <1>3

\* The steps that write to the stream.
LEMMA PutsKept ==
    ASSUME LogInv, RecordsInv, KeptInv, NEW t \in Threads, phase = "running",
           WritesPart(t) \/ text_oarchive(t)
    PROVE  KeptInv'
<1>1. \A p \in Processes : gFile'[p].mode = gFile[p].mode
  BY PutShape DEF WritesPart, text_oarchive, RecordsInv
<1>2. ASSUME Kept PROVE Kept'
  <2> DEFINE part == writer[t].part
  <2>1. Placed(writer[t], Mode(t))
    BY <1>2 DEF Kept
  <2>2. CASE WritesPart(t)
    <3> DEFINE last == IF writer[t].form = "archive" THEN Parts - 1 ELSE Parts
               c == IF part = last THEN "unlock" ELSE "write"
               flush == part = Parts
    <3>1. /\ writer[t].pc = "write" /\ writer[t].file /\ Put(t, flush)
          /\ writer' = [writer EXCEPT ![t].part = part + 1, ![t].pc = c]
      BY <2>2 DEF WritesPart, At
    <3>2. part \in 1 .. last /\ last \in {Parts - 1, Parts} /\ Mode(t) = "app"
      BY <2>1, <3>1 DEF Placed, Inside, Parts
    <3>3. flush \in BOOLEAN /\ (part = Parts => flush)
      OBVIOUS
    <3>4. c \in {"unlock", "write"} /\ (c = "unlock" <=> part = last)
      OBVIOUS
    <3> HIDE DEF c, flush, part
    <3>5. /\ \A u \in Threads : u # t => writer'[u] = writer[u]
          /\ writer'[t].pc = c /\ writer'[t].part = part + 1
          /\ writer'[t].form = writer[t].form /\ writer'[t].file = writer[t].file
      BY <3>1 DEF LogInv, Shape, Fields
    <3>6. Placed(writer'[t], Mode(t))
      <4>1. part + 1 \in 1 .. Parts + 1 /\ (part # last => part + 1 <= last)
        BY <3>2 DEF Parts
      <4>2. last = (IF writer'[t].file /\ writer'[t].form = "archive" THEN Parts - 1 ELSE Parts)
        BY <3>1, <3>5
      <4> HIDE DEF last
      <4>3. part = last => part + 1 = Parts + 1 \/ part + 1 = Parts
        BY <3>2 DEF Parts
      <4>4. CASE c = "unlock"
        BY <3>1, <3>2, <3>4, <3>5, <4>1, <4>3, <4>4 DEF Placed, Before, Resting
      <4>5. CASE c = "write"
        BY <3>2, <3>4, <3>5, <4>1, <4>2, <4>5 DEF Placed, Before, Resting
      <4> QED BY <3>4, <4>4, <4>5
    <3>7. part \in 1 .. Parts
      BY <3>2 DEF Parts
    <3> QED BY <1>2, <3>1, <3>2, <3>3, <3>5, <3>6, <3>7, KeptPut DEF part
  <2>3. CASE text_oarchive(t)
    <3>1. /\ writer[t].pc = "endl" /\ Put(t, TRUE)
          /\ writer' = [writer EXCEPT ![t].part = Parts + 1, ![t].pc = "written"]
      BY <2>3 DEF text_oarchive, At
    <3>2. part = Parts /\ part \in 1 .. Parts /\ writer[t].file /\ Mode(t) = "app"
      BY <2>1, <3>1 DEF Placed, Parts
    <3>3. /\ \A u \in Threads : u # t => writer'[u] = writer[u]
          /\ writer'[t].pc = "written" /\ writer'[t].part = Parts + 1
          /\ writer'[t].form = writer[t].form /\ writer'[t].file = writer[t].file
      BY <3>1 DEF LogInv, Shape, Fields
    <3>4. Placed(writer'[t], Mode(t))
      BY <3>3 DEF Placed, Before, Resting, Inside, Parts
    <3> QED BY <1>2, <3>1, <3>2, <3>3, <3>4, KeptPut
  <2> QED BY <2>2, <2>3
<1> QED BY <1>1, <1>2, KeepsKept

\* The step that writes to the syslog.
LEMMA writeInFacilityKept ==
    ASSUME LogInv, RecordsInv, KeptInv, NEW t \in Threads, phase = "running", writeInFacility(t)
    PROVE  KeptInv'
<1> DEFINE part == writer[t].part
           upto == IF writer[t].form = "json" THEN Parts ELSE part
           e == [i \in 1 .. upto - part + 1 |-> <<t, part + i - 1>>]
           c == IF upto < Parts THEN "write" ELSE IF writer[t].form = "multiline" THEN "unlock" ELSE "written"
<1>1. /\ writer[t].pc = "write" /\ ~writer[t].file /\ UNCHANGED gFile
      /\ log' = log \o e /\ writer' = [writer EXCEPT ![t].part = upto + 1, ![t].pc = c]
  BY DEF writeInFacility, At
<1>2. ASSUME Kept PROVE Kept'
  <2>1. Placed(writer[t], Mode(t))
    BY <1>2 DEF Kept
  <2>2. part \in 1 .. Parts
    BY <1>1, <2>1 DEF Placed
  <2>3. upto \in part .. Parts /\ (upto < Parts => c = "write") /\ (upto = Parts => c \in {"unlock", "written"})
    BY <2>2 DEF Parts
  <2>4. e \in Seq(Cells) /\ Len(e) = upto - part + 1 /\ \A i \in 1 .. Len(e) : e[i] = <<t, part + i - 1>>
    <3>1. upto - part + 1 \in Nat
      BY <2>2, <2>3 DEF Parts
    <3>2. \A i \in 1 .. upto - part + 1 : <<t, part + i - 1>> \in Cells
      BY <2>2, <2>3 DEF Cells, Parts
    <3> HIDE DEF upto, part
    <3> QED BY <3>1, <3>2
  <2> HIDE DEF e, upto, c, part
  <2>5. part + Len(e) = upto + 1
    BY <2>2, <2>3, <2>4 DEF Parts
  <2>6. /\ \A u \in Threads : u # t => writer'[u] = writer[u]
        /\ writer'[t].pc = c /\ writer'[t].part = upto + 1
        /\ writer'[t].form = writer[t].form /\ writer'[t].file = writer[t].file
    BY <1>1 DEF LogInv, Shape, Fields
  <2>7. Placed(writer'[t], Mode(t))
    BY <1>1, <2>2, <2>3, <2>6 DEF Placed, Before, Resting, Inside, Parts
  <2>8. log \in Seq(Cells) /\ \A u \in Threads : Buf(u) \in Seq(Cells)
    BY <1>2 DEF Kept, Streams
  <2>9. \A u \in Threads : Buf(u)' = Buf(u) /\ Mode(u)' = Mode(u) /\ (Torn(u)' <=> Torn(u))
    BY <1>1 DEF Buf, Mode, Torn
  <2>10. Streams'
    BY <1>1, <2>4, <2>8, <2>9 DEF Streams
  <2>11. \A u \in Threads : u # t => Absent(e, u)
    <3>1. \A i \in 1 .. Len(e) : e[i][1] = t
      BY <2>4
    <3> QED BY <3>1 DEF Absent
  <2>12. ASSUME NEW u \in Threads, ~Torn(u) PROVE Fits(log', Buf(u)', u, writer'[u].part)
    <3>1. Fits(log, Buf(u), u, writer[u].part)
      BY <1>2, <2>12 DEF Kept
    <3>2. CASE u = t
      <4>1. Absent(Buf(t), t)
        BY <1>1, <1>2, <2>12, <3>2 DEF Kept
      <4>2. Fits(log, Buf(t), t, part)
        BY <3>1, <3>2 DEF part
      <4>3. Fits(log \o e, Buf(t), t, part + Len(e))
        BY <2>2, <2>4, <2>8, <4>1, <4>2, FitsFileOwn
      <4> QED BY <1>1, <2>5, <2>6, <2>9, <3>2, <4>3
    <3>3. CASE u # t
      <4>1. Fits(log \o e, Buf(u), u, writer[u].part)
        BY <2>4, <2>8, <2>11, <3>1, <3>3, FitsFileOther
      <4> QED BY <1>1, <2>6, <2>9, <3>3, <4>1
    <3> QED BY <3>2, <3>3
  <2>13. \A u \in Threads : Placed(writer'[u], Mode(u)')
    BY <1>2, <2>6, <2>7, <2>9 DEF Kept
  <2>14. \A u \in Threads : \A j \in 1 .. Len(Buf(u)') : Process[(Buf(u)')[j][1]] = Process[u]
    BY <1>2, <2>9 DEF Kept
  <2>15. \A u \in Threads : ~Torn(u)' /\ (writer'[u].part = Parts + 1 \/ ~writer'[u].file) => Absent(Buf(u)', u)
    BY <1>1, <1>2, <2>6, <2>9 DEF Kept
  <2> QED BY <2>9, <2>10, <2>12, <2>13, <2>14, <2>15 DEF Kept
<1> QED BY <1>1, <1>2, KeepsKept

\* A record is begun where there is none, so none of its parts is anywhere.
LEMMA BeginKept ==
    ASSUME LogInv, KeptInv, NEW t \in Threads, phase = "running", UNCHANGED <<log, gFile>>,
           writer[t].pc = "idle", NEW form, Writes(t, form)
    PROVE  KeptInv'
<1>1. /\ \A u \in Threads : u # t => writer'[u] = writer[u]
      /\ writer'[t] = [NoWriter EXCEPT !.pc = "start", !.form = form, !.file = conf.gWriteInFile]
  BY DEF LogInv, Shape, Writes
<1>2. writer'[t].pc = "start" /\ writer'[t].part = 1
  BY <1>1 DEF NoWriter
<1>3. ASSUME Kept PROVE Kept'
  <2>1. writer[t].part = 1
    BY <1>3 DEF Kept, Placed
  <2>2. Placed(writer'[t], Mode(t))
    BY <1>2 DEF Placed, Before, Resting, Inside, Parts
  <2> QED BY <1>1, <1>2, <1>3, <2>1, <2>2, KeptMove
<1> QED BY <1>3, KeepsKept

LEMMA StepKept ==
    ASSUME LogInv, RecordsInv, OneRecord, KeptInv, NEW t \in Threads, Step(t) \/ Wakes(t)
    PROVE  KeptInv'
<1>1. CASE \/ translateHookCompare(t) \/ translateHookMigrate(t) \/ Translated(t)
           \/ inputFilterHandler(t) \/ Unpacks(t) \/ StopsReading(t)
  <2>1. phase = "running" /\ UNCHANGED logVars
    BY <1>1 DEF translateHookCompare, translateHookMigrate, Translated, inputFilterHandler,
       Unpacks, StopsReading, Running, OnlyRequest
  <2> QED BY <2>1, SameKept DEF logVars
<1>2. CASE \/ outputFilterHandler(t) \/ PassesOn(t) \/ outputFilterHandler2(t)
           \/ RecordWritten(t) \/ PassesAgain(t) \/ Finishes(t)
  <2>1. phase = "running" /\ UNCHANGED logVars
    BY <1>2 DEF outputFilterHandler, PassesOn, outputFilterHandler2, RecordWritten, PassesAgain,
       Finishes, Running, OnlyRequest
  <2> QED BY <2>1, SameKept DEF logVars
<1>3. CASE writeSerializedRequest(t)
  <2>1. phase = "running" /\ UNCHANGED <<log, gFile>> /\ Writes(t, "archive")
    BY <1>3 DEF writeSerializedRequest, Running
  <2> QED BY <1>3, <2>1, BeginOneRecord, BeginKept
<1>4. CASE writeDifferences(t)
  <2>1. phase = "running" /\ UNCHANGED <<log, gFile>>
    BY <1>4 DEF writeDifferences, Running
  <2>2. Writes(t, conf.compare.mLogType) \/ UNCHANGED writer
    BY <1>4, Zenon DEF writeDifferences
  <2>3. CASE UNCHANGED writer
    BY <2>1, <2>3, SameKept
  <2>4. CASE Writes(t, conf.compare.mLogType)
    BY <1>4, <2>1, <2>4, BeginOneRecord, BeginKept
  <2> QED BY <2>2, <2>3, <2>4
<1>5. CASE writeDifferencesThrows(t)
  BY <1>5, SameKept DEF writeDifferencesThrows, Running, Die
<1>6. CASE TruncatesLog(t)
  <2>1. Process[t] \in Processes
    BY ProcessOf
  <2>2. gFile'[Process[t]].mode \in {"closing", "trunc"}
    BY <1>6, <2>1 DEF TruncatesLog, TruncateCloses, TruncateOpens, RecordsInv, FileShape
  <2> QED BY <2>1, <2>2 DEF KeptInv, Truncated
<1>7. CASE WritesRecord(t) \/ Wakes(t)
  <2>1. phase = "running" /\ (WriterStep(t) \/ LockWakes(t))
    BY <1>7 DEF WritesRecord, Wakes, Running
  <2>2. CASE LockWithoutMemory(t)
    BY <2>1, <2>2, SameKept DEF LockWithoutMemory, Die
  <2> QED BY <2>1, <2>2, MovesKept, PutsKept, writeInFacilityKept DEF WriterStep
<1> QED BY <1>1, <1>2, <1>3, <1>4, <1>5, <1>6, <1>7 DEF Step

\* The server starts with an empty log and nothing to write.
LEMMA postConfigKept ==
    ASSUME RecordsInv, postConfig
    PROVE  Kept'
<1> DEFINE mode == IF conf.gWriteInFile /\ scenario.file = "open" THEN "app" ELSE "closed"
<1>1. /\ Quiet /\ UNCHANGED <<log, writer>>
      /\ gFile' = [p \in Processes |-> [gFile[p] EXCEPT !.mode = mode]]
  BY DEF postConfig, RecordsInv, childInit
<1> HIDE DEF mode
<1>2. \A t \in Threads : Buf(t)' = <<>>
  BY <1>1, ProcessOf DEF Buf, Quiet
<1>3. log' = <<>>
  BY <1>1 DEF Quiet
<1>4. \A t \in Threads : writer'[t].pc = "idle" /\ writer'[t].part = 1
  BY <1>1 DEF Quiet, NoWriter
<1> DEFINE none == <<>>
<1>5. none \in Seq(Cells) /\ \A i \in 1 .. Len(none) : FALSE
  OBVIOUS
<1> HIDE DEF none
<1>6. \A t \in Threads : Fits(none, none, t, 1) /\ Absent(none, t)
  BY <1>5 DEF Fits, Absent
<1>7. log' = none /\ \A t \in Threads : Buf(t)' = none
  BY <1>2, <1>3 DEF none
<1>8. Streams' /\ \A t \in Threads : \A j \in 1 .. Len(Buf(t)') : Process[(Buf(t)')[j][1]] = Process[t]
  BY <1>5, <1>7 DEF Streams
<1>9. \A t \in Threads : Placed(writer'[t], Mode(t)')
  BY <1>4 DEF Placed, Before, Resting, Inside, Parts
<1>10. \A t \in Threads : Fits(log', Buf(t)', t, writer'[t].part) /\ Absent(Buf(t)', t)
  BY <1>4, <1>6, <1>7
<1> QED BY <1>8, <1>9, <1>10 DEF Kept

-----------------------------------------------------------------------------
(* Two threads of a process use the stream at once only where one of them  *)
(* writes the end of an archive, or where the mutex was locked too early.  *)

\* A record without its last part at the unlock, or behind it, is an archive.
Formed(w) ==
    /\ w.part \in Nat
    /\ w.pc = "idle" => w.form = "json"
    /\ w.pc = "endl" => w.form = "archive"
    /\ w.pc = "unlock" => w.form = "archive" \/ w.part > Parts

Archives(p) == \E t \in Threads : Process[t] = p /\ writer[t].form = "archive"

TornInv ==
    /\ \A t \in Threads : Formed(writer[t])
    /\ \A p \in Processes : gFile[p].torn => early \/ Archives(p)

\* A step after which no other stream is torn, and every archive is one still.
LEMMA TornStays ==
    ASSUME TornInv, early => early', NEW t \in Threads, \A u \in Threads : u # t => writer'[u] = writer[u],
           Formed(writer'[t]), writer[t].form = "archive" => writer'[t].form = "archive",
           \A p \in Processes : gFile'[p].torn => gFile[p].torn \/ (early \/ Archives(p))
    PROVE  TornInv'
<1>1. \A u \in Threads : Formed(writer'[u])
  BY DEF TornInv
<1>2. \A u \in Threads : writer[u].form = "archive" => writer'[u].form = "archive"
  OBVIOUS
<1>3. \A p \in Processes : gFile'[p].torn => early \/ Archives(p)
  BY DEF TornInv
<1>4. \A p \in Processes : Archives(p) => Archives(p)'
  BY <1>2 DEF Archives
<1> QED BY <1>1, <1>3, <1>4 DEF TornInv

LEMMA SameTorn ==
    ASSUME TornInv, UNCHANGED <<writer, gFile, early>>
    PROVE  TornInv'
BY DEF TornInv, Archives

LEMMA GotoTorn ==
    ASSUME LogInv, TornInv, early => early', UNCHANGED gFile, NEW t \in Threads, NEW c, Goto(t, c),
           c \notin {"idle", "unlock"}, c = "endl" => writer[t].pc = "unlock" /\ writer[t].part <= Parts
    PROVE  TornInv'
<1>1. /\ \A u \in Threads : u # t => writer'[u] = writer[u]
      /\ writer'[t].pc = c /\ writer'[t].part = writer[t].part
      /\ writer'[t].form = writer[t].form
  BY DEF LogInv, Shape, Fields, Goto
<1>2. Formed(writer[t])
  BY DEF TornInv
<1>3. Formed(writer'[t])
  BY <1>1, <1>2 DEF Formed, Parts
<1> QED BY <1>1, <1>3, TornStays

\* Nobody uses the stream at the same time as another with the mutex.
LEMMA RaceTorn ==
    ASSUME LogInv, TornInv, NEW t \in Threads, At(t, "write") \/ At(t, "endl"), writer[t].pc = "write" => writer[t].file,
           Races(t)
    PROVE  early \/ Archives(Process[t])
<1>1. PICK u \in Threads \ {t} :
        Process[u] = Process[t] /\ writer[u].file /\ writer[u].pc \in {"write", "endl"}
  BY Zenon DEF Races
<1>2. Formed(writer[t]) /\ Formed(writer[u])
  BY DEF TornInv
<1>3. CASE writer[t].pc = "endl"
  BY <1>2, <1>3 DEF Formed, Archives
<1>4. CASE writer[u].pc = "endl"
  BY <1>1, <1>2, <1>4 DEF Formed, Archives
<1>5. CASE writer[t].pc = "write" /\ writer[u].pc = "write"
  <2>1. Critical(t) /\ Critical(u)
    BY <1>1, <1>5 DEF Critical, NeedsMutex, At
  <2>2. early \/ t = u
    BY <2>1 DEF LogInv, Owns
  <2> QED BY <2>2
<1> QED BY <1>1, <1>3, <1>4, <1>5 DEF At

LEMMA PutsTorn ==
    ASSUME LogInv, RecordsInv, TornInv, NEW t \in Threads, WritesPart(t) \/ text_oarchive(t)
    PROVE  TornInv'
<1>1. Formed(writer[t])
  BY DEF TornInv
<1>2. /\ At(t, "write") \/ At(t, "endl")
      /\ writer[t].pc = "write" => writer[t].file
      /\ UNCHANGED early
  BY DEF WritesPart, text_oarchive, At, mutexVars
<1>3. \A p \in Processes : gFile'[p].torn => gFile[p].torn \/ (early \/ Archives(p))
  <2>1. PICK flush : Put(t, flush)
    BY Zenon DEF WritesPart, text_oarchive
  <2>2. /\ \A p \in Processes : p # Process[t] => gFile'[p] = gFile[p]
        /\ gFile'[Process[t]].torn <=> gFile[Process[t]].torn \/ Races(t)
    BY <2>1, PutShape DEF RecordsInv
  <2>3. Races(t) => early \/ Archives(Process[t])
    BY <1>2, RaceTorn
  <2> QED BY <2>2, <2>3
<1>4. CASE WritesPart(t)
  <2> DEFINE part == writer[t].part
             last == IF writer[t].form = "archive" THEN Parts - 1 ELSE Parts
             c == IF part = last THEN "unlock" ELSE "write"
  <2>1. writer' = [writer EXCEPT ![t].part = part + 1, ![t].pc = c]
    BY <1>4 DEF WritesPart
  <2>2. c \in {"unlock", "write"} /\ (c = "unlock" /\ writer[t].form # "archive" => part = Parts)
    OBVIOUS
  <2>3. part \in Nat
    BY <1>1 DEF Formed
  <2> HIDE DEF c, part
  <2>4. /\ \A u \in Threads : u # t => writer'[u] = writer[u]
        /\ writer'[t].pc = c /\ writer'[t].part = part + 1 /\ writer'[t].form = writer[t].form
    BY <2>1 DEF LogInv, Shape, Fields
  <2>5. Formed(writer'[t])
    BY <2>2, <2>3, <2>4 DEF Formed, Parts
  <2> QED BY <1>2, <1>3, <2>4, <2>5, TornStays
<1>5. CASE text_oarchive(t)
  <2>1. /\ \A u \in Threads : u # t => writer'[u] = writer[u]
        /\ writer'[t].pc = "written" /\ writer'[t].part = Parts + 1 /\ writer'[t].form = writer[t].form
    BY <1>5 DEF text_oarchive, LogInv, Shape, Fields
  <2>2. Formed(writer'[t])
    BY <2>1 DEF Formed, Parts
  <2> QED BY <1>2, <1>3, <2>1, <2>2, TornStays
<1> QED BY <1>4, <1>5

LEMMA writeInFacilityTorn ==
    ASSUME LogInv, TornInv, NEW t \in Threads, writeInFacility(t)
    PROVE  TornInv'
<1> DEFINE part == writer[t].part
           upto == IF writer[t].form = "json" THEN Parts ELSE part
           c == IF upto < Parts THEN "write" ELSE IF writer[t].form = "multiline" THEN "unlock" ELSE "written"
<1>1. writer' = [writer EXCEPT ![t].part = upto + 1, ![t].pc = c] /\ UNCHANGED <<gFile, early>>
  BY DEF writeInFacility, mutexVars
<1>2. part \in Nat
  BY DEF TornInv, Formed
<1>3. upto \in Nat /\ c \in {"write", "unlock", "written"} /\ (c = "unlock" => upto + 1 > Parts)
  BY <1>2 DEF Parts
<1> HIDE DEF c, upto, part
<1>4. /\ \A u \in Threads : u # t => writer'[u] = writer[u]
      /\ writer'[t].pc = c /\ writer'[t].part = upto + 1 /\ writer'[t].form = writer[t].form
  BY <1>1 DEF LogInv, Shape, Fields
<1>5. Formed(writer'[t])
  BY <1>3, <1>4 DEF Formed
<1> QED BY <1>1, <1>4, <1>5, TornStays

\* A record is begun where there was none.
LEMMA BeginTorn ==
    ASSUME LogInv, TornInv, NEW t \in Threads, UNCHANGED <<gFile, early>>, writer[t].pc = "idle", NEW form, Writes(t, form)
    PROVE  TornInv'
<1>1. /\ \A u \in Threads : u # t => writer'[u] = writer[u]
      /\ writer'[t] = [NoWriter EXCEPT !.pc = "start", !.form = form, !.file = conf.gWriteInFile]
  BY DEF LogInv, Shape, Writes
<1>2. writer'[t].pc = "start" /\ writer'[t].part = 1
  BY <1>1 DEF NoWriter
<1>3. Formed(writer'[t])
  BY <1>2 DEF Formed
<1>4. writer[t].form # "archive"
  BY DEF TornInv, Formed
<1> QED BY <1>1, <1>3, <1>4, TornStays

LEMMA StepTorn ==
    ASSUME LogInv, RecordsInv, OneRecord, TornInv, NEW t \in Threads, Step(t) \/ Wakes(t)
    PROVE  TornInv'
<1>1. CASE \/ translateHookCompare(t) \/ translateHookMigrate(t) \/ Translated(t)
           \/ inputFilterHandler(t) \/ Unpacks(t) \/ StopsReading(t)
           \/ outputFilterHandler(t) \/ PassesOn(t) \/ outputFilterHandler2(t)
           \/ RecordWritten(t) \/ PassesAgain(t) \/ Finishes(t)
  <2>1. UNCHANGED logVars
    BY <1>1 DEF translateHookCompare, translateHookMigrate, Translated, inputFilterHandler,
       Unpacks, StopsReading, outputFilterHandler, PassesOn, outputFilterHandler2, RecordWritten,
       PassesAgain, Finishes, OnlyRequest
  <2> QED BY <2>1, SameTorn DEF logVars, mutexVars
<1>2. CASE writeSerializedRequest(t)
  <2>1. UNCHANGED <<gFile, early>> /\ Writes(t, "archive")
    BY <1>2 DEF writeSerializedRequest, mutexVars
  <2> QED BY <1>2, <2>1, BeginOneRecord, BeginTorn
<1>3. CASE writeDifferences(t)
  <2>1. UNCHANGED <<gFile, early>>
    BY <1>3 DEF writeDifferences, mutexVars
  <2>2. Writes(t, conf.compare.mLogType) \/ UNCHANGED writer
    BY <1>3, Zenon DEF writeDifferences
  <2>3. CASE UNCHANGED writer
    BY <2>1, <2>3, SameTorn
  <2>4. CASE Writes(t, conf.compare.mLogType)
    BY <1>3, <2>1, <2>4, BeginOneRecord, BeginTorn
  <2> QED BY <2>2, <2>3, <2>4
<1>4. CASE writeDifferencesThrows(t)
  BY <1>4, SameTorn DEF writeDifferencesThrows, Die
<1>5. CASE TruncatesLog(t)
  <2>1. UNCHANGED <<writer, early>>
    BY <1>5 DEF TruncatesLog, mutexVars
  <2>2. \A p \in Processes : gFile'[p].torn = gFile[p].torn
    <3>1. \/ TruncateCloses(Process[t], conf.gWriteInFile)
          \/ TruncateOpens(Process[t], conf.gWriteInFile)
      BY <1>5 DEF TruncatesLog
    <3>2. Process[t] \in Processes /\ DOMAIN gFile = Processes /\ {"mode", "torn"} \subseteq DOMAIN gFile[Process[t]]
      BY ProcessOf DEF RecordsInv, FileShape
    <3>3. CASE TruncateCloses(Process[t], conf.gWriteInFile)
      <4>1. gFile' = [gFile EXCEPT ![Process[t]] = [gFile[Process[t]] EXCEPT !.mode = "closing", !.pos = 0, !.buf = <<>>]]
        BY <3>3, Zenon DEF TruncateCloses
      <4>2. gFile'[Process[t]].torn = gFile[Process[t]].torn
        BY <3>2, <4>1
      <4>3. \A p \in Processes : p # Process[t] => gFile'[p] = gFile[p]
        BY <3>2, <4>1
      <4> QED BY <4>2, <4>3
    <3>4. CASE TruncateOpens(Process[t], conf.gWriteInFile)
      BY <3>2, <3>4 DEF TruncateOpens
    <3> QED BY <3>1, <3>3, <3>4
  <2> QED BY <2>1, <2>2 DEF TornInv, Archives
<1>6. CASE \/ StartsWriting(t) \/ createGlobalMutex(t) \/ ftruncate(t) \/ pthread_mutex_init(t)
           \/ getGlobalMutex(t) \/ LockSleeps(t) \/ LockWakes(t) \/ pthread_mutex_lock(t)
  <2>1. PICK c \in {"dropped", "mutex", "write", "ftruncate", "mmap", "init", "lock", "asleep"} : Goto(t, c)
    <3>1. CASE StartsWriting(t)
      BY <3>1 DEF StartsWriting
    <3>2. CASE createGlobalMutex(t)
      BY <3>2 DEF createGlobalMutex
    <3>3. CASE \/ ftruncate(t) \/ pthread_mutex_init(t) \/ getGlobalMutex(t)
               \/ LockSleeps(t) \/ LockWakes(t) \/ pthread_mutex_lock(t)
      BY <3>3 DEF ftruncate, pthread_mutex_init, getGlobalMutex, LockSleeps, LockWakes, pthread_mutex_lock
    <3> QED BY <1>6, <3>1, <3>2, <3>3
  <2>2. early => early'
    <3>1. CASE pthread_mutex_lock(t)
      BY <3>1 DEF pthread_mutex_lock
    <3>2. CASE ~pthread_mutex_lock(t)
      BY <1>6, <3>2 DEF StartsWriting, createGlobalMutex, ftruncate, pthread_mutex_init, getGlobalMutex,
         LockSleeps, LockWakes, mutexVars
    <3> QED BY <3>1, <3>2
  <2>3. UNCHANGED gFile
    BY <1>6 DEF StartsWriting, createGlobalMutex, ftruncate, pthread_mutex_init, getGlobalMutex,
       LockSleeps, LockWakes, pthread_mutex_lock, mutexVars
  <2> QED BY <2>1, <2>2, <2>3, GotoTorn
<1>7. CASE pthread_mutex_unlock(t)
  <2> DEFINE c == IF writer[t].part <= Parts THEN "endl" ELSE "written"
  <2>1. Goto(t, c) /\ UNCHANGED <<early, gFile>> /\ writer[t].pc = "unlock"
    BY <1>7 DEF pthread_mutex_unlock, At
  <2>2. c \in {"endl", "written"} /\ (c = "endl" => writer[t].part <= Parts)
    OBVIOUS
  <2> HIDE DEF c
  <2> QED BY <2>1, <2>2, GotoTorn
<1>8. CASE LockWithoutMemory(t)
  BY <1>8, SameTorn DEF LockWithoutMemory, Die
<1>9. CASE WritesRecord(t) \/ Wakes(t)
  <2>1. WriterStep(t) \/ LockWakes(t)
    BY <1>9 DEF WritesRecord, Wakes
  <2> QED BY <1>6, <1>7, <1>8, <2>1, PutsTorn, writeInFacilityTorn DEF WriterStep
<1> QED BY <1>1, <1>2, <1>3, <1>4, <1>5, <1>9 DEF Step

-----------------------------------------------------------------------------
\* The invariant of the log. Unflushed is what makes it inductive: a stream
\* holds back parts of one record only, that of the owner of the mutex.
THEOREM RecordsInvariant == Spec => []RecordsInv
<1>1. Init => RecordsInv
  <2> SUFFICES ASSUME Init PROVE RecordsInv
    OBVIOUS
  <2>1. /\ phase = "config" /\ log = <<>> /\ writer = [t \in Threads |-> NoWriter]
        /\ gFile = [p \in Processes |-> [mode |-> "closed", pos |-> 0, buf |-> <<>>, torn |-> FALSE]]
    BY DEF Init, LogInit
  <2>2. ConfShape(conf)
    BY DEF Init, CompareConf, ConfShape
  <2>3. FileShape /\ Quiet
    BY <2>1 DEF FileShape, Quiet
  <2> QED BY <2>1, <2>2, <2>3 DEF RecordsInv
<1>2. LogInv /\ RecordsInv /\ [Next]_vars => RecordsInv'
  <2> SUFFICES ASSUME LogInv, RecordsInv, [Next]_vars PROVE RecordsInv'
    OBVIOUS
  <2>1. CASE Configure
    BY <2>1, ConfigureKeeps, postConfigKeeps
  <2>2. ASSUME NEW t \in Threads, Step(t) \/ Wakes(t) PROVE RecordsInv'
    BY <2>2, RequestKeeps, WriterKeeps
  <2>3. ASSUME NEW p \in Processes, Crash(p) PROVE RecordsInv'
    BY <2>3, DieKeeps DEF Crash
  <2>4. CASE UNCHANGED vars
    <3>1. UNCHANGED <<phase, conf, logVars>>
      BY <2>4 DEF vars
    <3>2. CASE phase = "running"
      BY <3>1, <3>2, SameRecords
    <3>3. CASE phase # "running"
      BY <3>1, <3>3 DEF RecordsInv, FileShape, Quiet, logVars
    <3> QED BY <3>2, <3>3
  <2> QED BY <2>1, <2>2, <2>3, <2>4 DEF Next
<1> QED BY <1>1, <1>2, LogInvariant, PTL DEF Spec

\* The parts of a record of differences are together in the log, whatever other
\* threads and processes write and wherever they are killed, as long as nothing
\* reopened the log, nobody locked the mutex before it was initialised and
\* nobody writes archives: writeDifferences flushes the last part before it
\* unlocks (RecordsWhole).
THEOREM RecordsAreWhole == Spec => []RecordsWhole
<1>1. OneRecord /\ RecordsInv => RecordsWhole
  <2> SUFFICES ASSUME OneRecord, RecordsInv,
                      NEW t \in Threads, writer[t].pc = "written",
                      \A u \in Threads : writer[u].form # "archive", ~Truncated, ~early, NEW i \in Positions(t), log[i][2] < Parts
               PROVE  i + 1 \in Positions(t)
    BY DEF RecordsWhole
  <2>1. phase = "running"
    BY DEF RecordsInv, Quiet, NoWriter
  <2>2. CASE conf.compare.mCompareDisabled
    BY <2>2 DEF OneRecord
  <2>3. CASE ~conf.compare.mCompareDisabled
    <3>1. Records
      BY <2>1, <2>3 DEF RecordsInv, Undisturbed
    <3>2. /\ Len(log) \in Nat /\ log \in Seq(Cells) /\ i \in 1 .. Len(log) /\ log[i][1] = t
      BY <3>1 DEF Records, Streams, Positions
    <3>3. i # Len(log)
      <4> SUFFICES ASSUME i = Len(log) PROVE FALSE
        OBVIOUS
      <4>1. log # <<>>
        BY <3>2
      <4> QED BY <3>1, <3>2, <4>1 DEF Records, Chained
    <3>4. i \in 1 .. Len(log) - 1 /\ i + 1 \in 1 .. Len(log)
      BY <3>2, <3>3
    <3>5. log[i + 1][1] = t
      BY <3>1, <3>2, <3>4 DEF Records, Chained, Broken
    <3> QED BY <3>2, <3>4, <3>5 DEF Positions
  <2> QED BY <2>2, <2>3
<1> QED BY <1>1, OneRecordInvariant, RecordsInvariant, PTL

\* The invariant of the parts. Fits says where the parts of every thread are,
\* which makes it inductive: a part moves from the stream to the file whoever
\* writes the stream out.
THEOREM KeptInvariant == Spec => []KeptInv
<1>1. Init => KeptInv
  BY DEF Init, KeptInv
<1>2. LogInv /\ RecordsInv /\ OneRecord /\ KeptInv /\ [Next]_vars => KeptInv'
  <2> SUFFICES ASSUME LogInv, RecordsInv, OneRecord, KeptInv, [Next]_vars PROVE KeptInv'
    OBVIOUS
  <2>1. CASE Configure
    <3>1. CASE postConfig
      BY <3>1, postConfigKept DEF KeptInv
    <3>2. CASE ~postConfig
      <4>1. phase' # "running"
        BY <2>1, <3>2 DEF Configure, setBodyList, setHeaderList, setDiffLogType, setDisableLibwsdiff,
           setCompareLog, setCompare, setApplicationScope, setMigrateEnv, Directive
      <4> QED BY <4>1 DEF KeptInv
    <3> QED BY <3>1, <3>2
  <2>2. ASSUME NEW t \in Threads, Step(t) \/ Wakes(t) PROVE KeptInv'
    BY <2>2, StepKept
  <2>3. ASSUME NEW p \in Processes, Crash(p) PROVE KeptInv'
    BY <2>3, SameKept DEF Crash, Die
  <2>4. CASE UNCHANGED vars
    <3>1. UNCHANGED <<phase, gFile, log, writer>>
      BY <2>4 DEF vars, logVars
    <3>2. CASE phase = "running"
      BY <3>1, <3>2, SameKept
    <3>3. CASE phase # "running"
      BY <3>1, <3>3 DEF KeptInv
    <3> QED BY <3>2, <3>3
  <2> QED BY <2>1, <2>2, <2>3, <2>4 DEF Next
<1> QED BY <1>1, <1>2, LogInvariant, RecordsInvariant, OneRecordInvariant, PTL DEF Spec

\* The invariant of the races. Formed is what makes it inductive: it ties the
\* line end after the unlock to the form of the record.
THEOREM TornInvariant == Spec => []TornInv
<1>1. Init => TornInv
  <2> SUFFICES ASSUME Init PROVE TornInv
    OBVIOUS
  <2>1. /\ writer = [t \in Threads |-> NoWriter]
        /\ gFile = [p \in Processes |-> [mode |-> "closed", pos |-> 0, buf |-> <<>>, torn |-> FALSE]]
    BY DEF Init, LogInit
  <2> QED BY <2>1 DEF TornInv, Formed, NoWriter
<1>2. LogInv /\ RecordsInv /\ OneRecord /\ TornInv /\ [Next]_vars => TornInv'
  <2> SUFFICES ASSUME LogInv, RecordsInv, OneRecord, TornInv, [Next]_vars PROVE TornInv'
    OBVIOUS
  <2>1. CASE Configure
    <3>1. CASE postConfig
      <4>1. UNCHANGED <<writer, early>> /\ \E mode : gFile' = [p \in Processes |-> [gFile[p] EXCEPT !.mode = mode]]
        BY <3>1, Zenon DEF postConfig, childInit, mutexVars
      <4>2. \A p \in Processes : gFile'[p].torn = gFile[p].torn
        BY <4>1 DEF RecordsInv, FileShape
      <4> QED BY <4>1, <4>2 DEF TornInv, Archives
    <3>2. CASE ~postConfig
      <4>1. UNCHANGED logVars
        BY <2>1, <3>2 DEF Configure, setBodyList, setHeaderList, setDiffLogType, setDisableLibwsdiff,
           setCompareLog, setCompare, setApplicationScope, setMigrateEnv, Directive
      <4> QED BY <4>1, SameTorn DEF logVars, mutexVars
    <3> QED BY <3>1, <3>2
  <2>2. ASSUME NEW t \in Threads, Step(t) \/ Wakes(t) PROVE TornInv'
    BY <2>2, StepTorn
  <2>3. ASSUME NEW p \in Processes, Crash(p) PROVE TornInv'
    BY <2>3, SameTorn DEF Crash, Die
  <2>4. CASE UNCHANGED vars
    BY <2>4, SameTorn DEF vars, logVars, mutexVars
  <2> QED BY <2>1, <2>2, <2>3, <2>4 DEF Next
<1> QED BY <1>1, <1>2, LogInvariant, RecordsInvariant, OneRecordInvariant, PTL DEF Spec

\* A record that was written is in the log, every part once and in order,
\* whatever threads and processes write and wherever they are killed, as long as
\* nothing reopened the log and no two threads used the stream of its process at
\* once: writeDifferences and the destructor of the archive flush it. And only
\* archives, or a mutex used too early, let two threads do that (RecordsKept).
THEOREM RecordsAreKept == Spec => []RecordsKept
<1>1. RecordsInv /\ KeptInv /\ TornInv => RecordsKept
  <2> SUFFICES ASSUME RecordsInv, KeptInv, TornInv,
                      NEW t \in Threads, writer[t].pc = "written", ~Truncated, ~gFile[Process[t]].torn
               PROVE  /\ {log[i][2] : i \in Positions(t)} = 1 .. Parts
                      /\ \A i, j \in Positions(t) : i < j => log[i][2] < log[j][2]
    BY DEF RecordsKept, TornInv, Archives
  <2>1. phase = "running"
    BY DEF RecordsInv, Quiet, NoWriter
  <2>2. /\ log \in Seq(Cells) /\ Fits(log, Buf(t), t, Parts + 1) /\ Absent(Buf(t), t)
    BY <2>1 DEF KeptInv, Kept, Placed, Streams, Torn
  <2>3. /\ DOMAIN log = 1 .. Len(log) /\ \A i \in 1 .. Len(log) : log[i] \in Cells
    BY <2>2
  <2>4. \A i \in Positions(t) : i \in 1 .. Len(log) /\ log[i][1] = t /\ log[i][2] \in 1 .. Parts
    BY <2>3 DEF Positions, Cells
  <2>5. ASSUME NEW k \in 1 .. Parts PROVE \E i \in Positions(t) : log[i][2] = k
    <3>1. k \in 1 .. (Parts + 1) - 1
      BY DEF Parts
    <3>2. ~ \E j \in 1 .. Len(Buf(t)) : Buf(t)[j] = <<t, k>>
      BY <2>2 DEF Absent
    <3>3. PICK i \in 1 .. Len(log) : log[i] = <<t, k>>
      BY <2>2, <3>1, <3>2 DEF Fits
    <3>4. i \in Positions(t) /\ log[i][2] = k
      BY <2>3, <3>3 DEF Positions
    <3> QED BY <3>4
  <2>6. \A i, j \in Positions(t) : i < j => log[i][2] < log[j][2]
    BY <2>2, <2>4 DEF Fits
  <2>7. {log[i][2] : i \in Positions(t)} = 1 .. Parts
    BY <2>4, <2>5
  <2> QED BY <2>6, <2>7
<1> QED BY <1>1, RecordsInvariant, KeptInvariant, TornInvariant, PTL

-----------------------------------------------------------------------------
(* The differences of Cassandra. A difference was found by the handler of  *)
(* a request, during that request and in its process; from then on it is   *)
(* in the map of the process or in one record.                             *)

\* The entry e was found in process p.
FoundIn(e, p) ==
    \E u \in Serving : \E f \in Request(u).cassandra :
        e = <<u, f>> /\ Process[u] = p /\ rq[u].pc \notin Reading

CassandraInv ==
    /\ scenario \in Scenarios /\ DOMAIN cassandra = Processes
    /\ cassandra = [p \in Processes |-> cassandra[p]]
    /\ \A p \in Processes : \A e \in cassandra[p] : FoundIn(e, p)
    /\ \A t \in Serving :
        /\ "cassandra" \in DOMAIN rq[t].printer
        /\ rq[t].pc # "write" /\ ~rq[t].off2 => Reported(t) = {}
        /\ \A e \in Reported(t) :
            FoundIn(e, Process[t]) /\ SameId(t, e) /\ e \notin cassandra[Process[t]]
        /\ \A u \in Serving \ {t} : Reported(t) \cap Reported(u) = {}
        /\ rq[t].pc \notin Reading =>
            \A f \in Request(t).cassandra :
                <<t, f>> \in cassandra[Process[t]] \/ \E u \in Serving : <<t, f>> \in Reported(u)

LEMMA ServingThreads ==
    ASSUME CassandraInv, NEW t \in Serving
    PROVE  t \in Threads /\ Process[t] \in Processes
BY CompareAssumption, ProcessOf DEF CassandraInv, Serving

\* A request goes on and leaves the differences of Cassandra where they are.
LEMMA CassandraMoves ==
    ASSUME LogInv, CassandraInv, NEW t \in Serving, NEW x, Becomes(t, x),
           x.pc \in Reading <=> rq[t].pc \in Reading,
           "cassandra" \in DOMAIN x.printer, x.printer.cassandra = Reported(t),
           x.pc # "write" /\ ~x.off2 => Reported(t) = {},
           UNCHANGED <<scenario, cassandra>>
    PROVE  CassandraInv'
<1>1. \A u \in Serving : rq'[u] = IF u = t THEN x ELSE rq[u]
  BY DEF Becomes, LogInv, Shape
<1>2. \A u \in Serving : Reported(u)' = Reported(u) /\ (rq'[u].pc \in Reading <=> rq[u].pc \in Reading)
  BY <1>1 DEF Reported
<1>3. Serving' = Serving /\ \A u : Request(u)' = Request(u)
  BY DEF Serving, Request
<1>4. \A e, p : FoundIn(e, p)' <=> FoundIn(e, p)
  BY <1>2, <1>3 DEF FoundIn
<1>5. \A u, e : SameId(u, e)' <=> SameId(u, e)
  BY <1>3 DEF SameId
<1>6. ASSUME NEW u \in Serving
      PROVE  /\ "cassandra" \in DOMAIN rq'[u].printer
             /\ rq'[u].pc # "write" /\ ~rq'[u].off2 => Reported(u)' = {}
  BY <1>1, <1>2 DEF CassandraInv
<1>7. ASSUME NEW u \in Serving
      PROVE  /\ \A e \in Reported(u)' :
                    FoundIn(e, Process[u])' /\ SameId(u, e)' /\ e \notin cassandra'[Process[u]]
             /\ \A v \in Serving \ {u} : Reported(u)' \cap Reported(v)' = {}
  BY <1>2, <1>4, <1>5 DEF CassandraInv
<1>8. ASSUME NEW u \in Serving, rq'[u].pc \notin Reading, NEW f \in Request(u)'.cassandra
      PROVE  <<u, f>> \in cassandra'[Process[u]] \/ \E v \in Serving : <<u, f>> \in Reported(v)'
  BY <1>2, <1>3, <1>8 DEF CassandraInv
<1>9. \A p \in Processes : \A e \in cassandra'[p] : FoundIn(e, p)'
  BY <1>4 DEF CassandraInv
<1> QED BY <1>3, <1>6, <1>7, <1>8, <1>9 DEF CassandraInv

\* The handler adds what it found. Nothing of it is in a record yet, because
\* what is there was found by requests that have been read.
LEMMA StopsReadingCassandra ==
    ASSUME LogInv, OneRecord, CassandraInv, NEW t \in Threads, StopsReading(t)
    PROVE  CassandraInv'
<1> DEFINE found == {<<t, f>> : f \in Request(t).cassandra}
           p == Process[t]
           x == [rq[t] EXCEPT !.pc = "respond"]
<1>1. /\ t \in Serving /\ rq[t].pc = "handle" /\ Becomes(t, x)
      /\ cassandra' = [cassandra EXCEPT ![p] = @ \cup found] /\ UNCHANGED scenario
  BY DEF StopsReading, Running
<1>2. /\ x.pc = "respond" /\ x.printer = rq[t].printer /\ x.off2 = rq[t].off2
      /\ rq[t].pc \in Reading /\ x.pc \notin Reading /\ x.pc # "write"
  BY <1>1 DEF OneRecord, Reading
<1> HIDE DEF x
<1>3. \A u \in Serving : rq'[u] = IF u = t THEN x ELSE rq[u]
  BY <1>1 DEF Becomes, LogInv, Shape
<1>4. \A u \in Serving : /\ Reported(u)' = Reported(u)
                         /\ rq'[u].printer = rq[u].printer /\ rq'[u].off2 = rq[u].off2
                         /\ rq'[u].pc \notin Reading <=> (rq[u].pc \notin Reading \/ u = t)
  BY <1>2, <1>3 DEF Reported
<1>5. Serving' = Serving /\ \A u : Request(u)' = Request(u)
  BY <1>1 DEF Serving, Request
<1>6. \A e, q : FoundIn(e, q) => FoundIn(e, q)'
  BY <1>4, <1>5 DEF FoundIn
<1>7. \A u, e : SameId(u, e)' <=> SameId(u, e)
  BY <1>5 DEF SameId
<1>8. DOMAIN cassandra = Processes /\ p \in Processes
  BY ProcessOf DEF CassandraInv
<1>9. /\ DOMAIN cassandra' = Processes /\ cassandra' = [q \in Processes |-> cassandra'[q]]
      /\ \A q \in Processes : cassandra'[q] = IF q = p THEN cassandra[q] \cup found ELSE cassandra[q]
  BY <1>1, <1>8
<1>10. \A e \in found : FoundIn(e, p)'
  BY <1>1, <1>4, <1>5 DEF FoundIn
<1>11. \A u \in Serving : \A e \in Reported(u) : e \notin found
  BY <1>2 DEF CassandraInv, FoundIn
<1> HIDE DEF found, p
<1>12. \A q \in Processes : \A e \in cassandra'[q] : FoundIn(e, q)'
  BY <1>6, <1>9, <1>10 DEF CassandraInv
<1>13. ASSUME NEW u \in Serving
       PROVE  /\ "cassandra" \in DOMAIN rq'[u].printer
              /\ rq'[u].pc # "write" /\ ~rq'[u].off2 => Reported(u)' = {}
  BY <1>1, <1>2, <1>3, <1>4 DEF CassandraInv
<1>14. ASSUME NEW u \in Serving
       PROVE  /\ \A e \in Reported(u)' :
                    FoundIn(e, Process[u])' /\ SameId(u, e)' /\ e \notin cassandra'[Process[u]]
              /\ \A v \in Serving \ {u} : Reported(u)' \cap Reported(v)' = {}
  BY <1>4, <1>6, <1>7, <1>9, <1>11, ServingThreads DEF CassandraInv
<1>15. ASSUME NEW u \in Serving, rq'[u].pc \notin Reading, NEW f \in Request(u)'.cassandra
       PROVE  <<u, f>> \in cassandra'[Process[u]] \/ \E v \in Serving : <<u, f>> \in Reported(v)'
  <2>1. CASE u = t
    <3>1. <<u, f>> \in found /\ Process[u] = p
      BY <1>5, <1>15, <2>1 DEF found, p
    <3> QED BY <1>8, <1>9, <3>1
  <2>2. CASE u # t
    <3>1. <<u, f>> \in cassandra[Process[u]] \/ \E v \in Serving : <<u, f>> \in Reported(v)
      BY <1>4, <1>5, <1>15, <2>2 DEF CassandraInv
    <3>2. Process[u] \in Processes
      BY ServingThreads
    <3> QED BY <1>4, <1>9, <3>1, <3>2
  <2> QED BY <2>1, <2>2
<1> QED BY <1>1, <1>5, <1>9, <1>12, <1>13, <1>14, <1>15 DEF CassandraInv

\* A record takes the differences with its id out of the map, and no other
\* request of the process can have taken them since they were looked up.
LEMMA writeDifferencesCassandra ==
    ASSUME LogInv, OneRecord, CassandraInv, NEW t \in Threads, writeDifferences(t)
    PROVE  CassandraInv'
<1> DEFINE p == Process[t]
           taken == {e \in cassandra[p] : SameId(t, e)}
           printer == [rq[t].printer EXCEPT !.cassandra = taken]
           x == [rq[t] EXCEPT !.pc = "write", !.printer = printer, !.logged = TRUE]
<1>1. /\ t \in Serving /\ rq[t].pc = "differs" /\ UNCHANGED scenario
      /\ cassandra' = [cassandra EXCEPT ![p] = cassandra[p] \ taken]
      /\ IF isDiff(printer) THEN Becomes(t, x) ELSE Becomes(t, Compared(rq[t]))
  BY DEF writeDifferences, writeCassandraDiff, Running
<1>2. /\ rq[t].off2 = FALSE /\ {"pc", "off2", "printer"} \subseteq DOMAIN rq[t]
      /\ "cassandra" \in DOMAIN rq[t].printer /\ Reported(t) = {}
  BY <1>1 DEF OneRecord, CassandraInv
<1>3. printer.cassandra = taken /\ "cassandra" \in DOMAIN printer
  BY <1>2
<1>4. DOMAIN cassandra = Processes /\ p \in Processes /\ cassandra = [q \in Processes |-> cassandra[q]]
  BY ProcessOf DEF CassandraInv
<1>5. ASSUME ~isDiff(printer) PROVE CassandraInv'
  <2>1. taken = {}
    BY <1>3, <1>5 DEF isDiff
  <2> HIDE DEF taken, printer
  <2>2. cassandra' = cassandra
    BY <1>1, <1>4, <2>1
  <2> DEFINE y == Compared(rq[t])
  <2>3. y.pc = "respond" /\ y.off2 = TRUE /\ y.printer = rq[t].printer
    BY <1>2 DEF Compared, Passed
  <2>4. Becomes(t, y)
    BY <1>1, <1>5
  <2> HIDE DEF y
  <2>5. rq[t].pc \notin Reading /\ y.pc \notin Reading
    BY <1>1, <2>3 DEF Reading
  <2> QED BY <1>1, <1>2, <2>2, <2>3, <2>4, <2>5, CassandraMoves DEF Reported
<1>6. ASSUME isDiff(printer) PROVE CassandraInv'
  <2>1. x.pc = "write" /\ x.printer = printer
    BY <1>2
  <2>2. Becomes(t, x)
    BY <1>1, <1>6
  <2> HIDE DEF x
  <2>3. \A u \in Serving : rq'[u] = IF u = t THEN x ELSE rq[u]
    BY <1>1, <2>2 DEF Becomes, LogInv, Shape
  <2> HIDE DEF printer
  <2>4. \A u \in Serving : /\ Reported(u)' = IF u = t THEN taken ELSE Reported(u)
                           /\ rq'[u].pc \in Reading <=> rq[u].pc \in Reading
    BY <1>1, <1>3, <2>1, <2>3 DEF Reported, Reading
  <2>5. Serving' = Serving /\ \A u : Request(u)' = Request(u)
    BY <1>1 DEF Serving, Request
  <2>6. \A e, q : FoundIn(e, q)' <=> FoundIn(e, q)
    BY <2>4, <2>5 DEF FoundIn
  <2>7. \A u, e : SameId(u, e)' <=> SameId(u, e)
    BY <2>5 DEF SameId
  <2>8. /\ DOMAIN cassandra' = Processes /\ cassandra' = [q \in Processes |-> cassandra'[q]]
        /\ \A q \in Processes : cassandra'[q] = IF q = p THEN cassandra[q] \ taken ELSE cassandra[q]
    BY <1>1, <1>4
  <2>9. \A e \in taken : e \in cassandra[p] /\ SameId(t, e) /\ FoundIn(e, p)
    BY <1>4 DEF CassandraInv
  <2>10. \A u \in Serving : \A e \in Reported(u) : e \notin taken
    <3> SUFFICES ASSUME NEW u \in Serving, NEW e \in Reported(u), e \in taken PROVE FALSE
      OBVIOUS
    <3>1. FoundIn(e, Process[u]) /\ e \notin cassandra[Process[u]]
      BY DEF CassandraInv
    <3>2. FoundIn(e, p) /\ e \in cassandra[p]
      BY <2>9
    <3>3. Process[u] = p
      BY <3>1, <3>2 DEF FoundIn
    <3> QED BY <3>1, <3>2, <3>3
  <2> HIDE DEF taken, p
  <2>11. \A q \in Processes : \A e \in cassandra'[q] : FoundIn(e, q)'
    BY <2>6, <2>8 DEF CassandraInv
  <2>12. ASSUME NEW u \in Serving
         PROVE  /\ "cassandra" \in DOMAIN rq'[u].printer
                /\ rq'[u].pc # "write" /\ ~rq'[u].off2 => Reported(u)' = {}
    BY <1>3, <2>1, <2>3, <2>4 DEF CassandraInv
  <2>13. ASSUME NEW u \in Serving, NEW e \in Reported(u)'
         PROVE  FoundIn(e, Process[u])' /\ SameId(u, e)' /\ e \notin cassandra'[Process[u]]
    <3>1. CASE u = t
      BY <1>4, <2>4, <2>6, <2>7, <2>8, <2>9, <2>13, <3>1 DEF p
    <3>2. CASE u # t
      BY <2>4, <2>6, <2>7, <2>8, <2>13, <3>2, ServingThreads DEF CassandraInv
    <3> QED BY <3>1, <3>2
  <2>14. \A u \in Serving : \A v \in Serving \ {u} : Reported(u)' \cap Reported(v)' = {}
    BY <2>4, <2>10 DEF CassandraInv
  <2>15. ASSUME NEW u \in Serving, rq'[u].pc \notin Reading, NEW f \in Request(u)'.cassandra
         PROVE  <<u, f>> \in cassandra'[Process[u]] \/ \E v \in Serving : <<u, f>> \in Reported(v)'
    <3>1. <<u, f>> \in cassandra[Process[u]] \/ \E v \in Serving : <<u, f>> \in Reported(v)
      BY <2>4, <2>5, <2>15 DEF CassandraInv
    <3>2. Process[u] \in Processes
      BY ServingThreads
    <3>3. ASSUME NEW v \in Serving, <<u, f>> \in Reported(v)
          PROVE  \E v2 \in Serving : <<u, f>> \in Reported(v2)'
      BY <1>2, <2>4, <3>3
    <3>4. ASSUME <<u, f>> \in cassandra[Process[u]], <<u, f>> \in taken
          PROVE  \E v2 \in Serving : <<u, f>> \in Reported(v2)'
      BY <1>1, <2>4, <3>4
    <3> QED BY <2>8, <3>1, <3>2, <3>3, <3>4
  <2> QED BY <1>1, <2>5, <2>8, <2>11, <2>12, <2>13, <2>14, <2>15 DEF CassandraInv
<1> QED BY <1>5, <1>6

\* The other steps of a request.
LEMMA StepCassandra ==
    ASSUME LogInv, OneRecord, CassandraInv, NEW t \in Threads, Step(t) \/ Wakes(t)
    PROVE  CassandraInv'
<1> DEFINE o == rq[t].off2
           p == rq[t].printer
<1>1. t \in Serving
  BY DEF Step, Wakes, translateHookCompare, translateHookMigrate, Translated, inputFilterHandler,
     Unpacks, StopsReading, outputFilterHandler, TruncatesLog, PassesOn,
     writeSerializedRequest, outputFilterHandler2, writeDifferencesThrows, writeDifferences,
     WritesRecord, PassesAgain, Finishes, RecordWritten, Running
<1>2. /\ {"pc", "off2", "printer"} \subseteq DOMAIN rq[t] /\ o \in BOOLEAN
      /\ "cassandra" \in DOMAIN p /\ p.cassandra = Reported(t)
      /\ rq[t].pc # "write" /\ ~o => Reported(t) = {}
  BY <1>1 DEF OneRecord, CassandraInv, Reported
<1>3. ASSUME NEW y, Becomes(t, y), NEW C, NEW v, Keeps(y, C, v, p), UNCHANGED <<scenario, cassandra>>,
             \A c \in C : c \in Reading <=> rq[t].pc \in Reading,
             v \/ ("write" \in C /\ C = {"write"}) \/ (rq[t].pc # "write" /\ v = o)
      PROVE  CassandraInv'
  <2> HIDE DEF o, p
  <2>1. /\ y.pc \in C /\ y.off2 = v /\ y.printer = p
    BY <1>3 DEF Keeps
  <2>2. y.pc # "write" /\ ~v => Reported(t) = {}
    BY <1>2, <1>3, <2>1
  <2> QED BY <1>1, <1>2, <1>3, <2>1, <2>2, CassandraMoves
<1>4. CASE \/ translateHookCompare(t) \/ translateHookMigrate(t)
           \/ inputFilterHandler(t) \/ Unpacks(t)
  <2>1. Keeps(rq[t], Reading, o, p) /\ rq[t].pc \in Reading /\ rq[t].pc # "write"
        /\ UNCHANGED <<scenario, cassandra>>
    BY <1>2, <1>4 DEF translateHookCompare, translateHookMigrate, inputFilterHandler, Unpacks,
       Running, Keeps, Reading, OnlyRequest
  <2> HIDE DEF o, p
  <2>2. \E y : Becomes(t, y) /\ Keeps(y, Reading, o, p)
    BY <1>1, <1>4, <2>1, translateHookPc, inputFilterHandlerPc, UnpacksPc
  <2> QED BY <1>3, <2>1, <2>2 DEF o
<1>5. CASE outputFilterHandler(t)
  <2>1. Keeps(rq[t], {"respond"}, o, p) /\ rq[t].pc = "respond" /\ UNCHANGED <<scenario, cassandra>>
    BY <1>2, <1>5 DEF outputFilterHandler, Running, Keeps, OnlyRequest
  <2> HIDE DEF o, p
  <2>2. \E y : Becomes(t, y) /\ Keeps(y, {"respond"}, o, p)
    BY <1>1, <1>5, <2>1, outputFilterHandlerPc
  <2> QED BY <1>3, <2>1, <2>2 DEF o, Reading
<1>6. CASE Translated(t)
  <2>1. /\ Becomes(t, [rq[t] EXCEPT !.pc = "handle"]) /\ rq[t].pc = "translate" /\ UNCHANGED <<scenario, cassandra>>
    BY <1>6 DEF Translated, Running, OnlyRequest
  <2>2. Keeps([rq[t] EXCEPT !.pc = "handle"], {"handle"}, o, p)
    BY <1>2 DEF Keeps
  <2> QED BY <1>3, <2>1, <2>2 DEF Reading
<1>7. CASE PassesOn(t) \/ PassesAgain(t) \/ Finishes(t) \/ TruncatesLog(t)
  <2>1. /\ rq[t].pc \in {"respond", "reopen"} /\ UNCHANGED <<scenario, cassandra>>
        /\ \/ Becomes(t, [rq[t] EXCEPT !.toPass = FALSE]) /\ rq[t].pc = "respond"
           \/ Becomes(t, [rq[t] EXCEPT !.toPass = TRUE, !.again = TRUE]) /\ rq[t].pc = "respond"
           \/ Becomes(t, [rq[t] EXCEPT !.pc = "done"])
           \/ Becomes(t, [rq[t] EXCEPT !.pc = "reopen"])
           \/ Becomes(t, [rq[t] EXCEPT !.pc = "respond", !.off = TRUE])
    BY <1>7 DEF PassesOn, Passed, PassesAgain, Finishes, TruncatesLog, Running, OnlyRequest
  <2> DEFINE C == {"respond", "reopen", "done"}
  <2>2. rq[t].pc = "respond" => Keeps([rq[t] EXCEPT !.toPass = FALSE], C, o, p)
    BY <1>2 DEF Keeps
  <2>3. rq[t].pc = "respond" => Keeps([rq[t] EXCEPT !.toPass = TRUE, !.again = TRUE], C, o, p)
    BY <1>2 DEF Keeps
  <2>4. Keeps([rq[t] EXCEPT !.pc = "done"], C, o, p) /\ Keeps([rq[t] EXCEPT !.pc = "reopen"], C, o, p)
    BY <1>2 DEF Keeps
  <2>5. Keeps([rq[t] EXCEPT !.pc = "respond", !.off = TRUE], C, o, p)
    BY <1>2 DEF Keeps
  <2>6. \A c \in C : c \in Reading <=> rq[t].pc \in Reading
    BY <2>1 DEF Reading
  <2>7. rq[t].pc # "write"
    BY <2>1
  <2> HIDE DEF C
  <2> QED BY <1>3, <2>1, <2>2, <2>3, <2>4, <2>5, <2>6, <2>7
<1>8. CASE RecordWritten(t) \/ (outputFilterHandler2(t) /\ Becomes(t, Compared(rq[t])))
  <2>1. /\ Becomes(t, Compared(rq[t])) /\ UNCHANGED <<scenario, cassandra>> /\ rq[t].pc \in {"write", "respond"}
    BY <1>8 DEF RecordWritten, outputFilterHandler2, Running, OnlyRequest
  <2>2. Keeps(Compared(rq[t]), {"respond"}, TRUE, p)
    BY <1>2 DEF Keeps, Compared, Passed
  <2>3. \A c \in {"respond"} : c \in Reading <=> rq[t].pc \in Reading
    BY <2>1 DEF Reading
  <2> DEFINE y == Compared(rq[t])
             C == {"respond"}
             v == TRUE
  <2>4. Becomes(t, y) /\ Keeps(y, C, v, p) /\ v /\ \A c \in C : c \in Reading <=> rq[t].pc \in Reading
    BY <2>1, <2>2, <2>3
  <2> HIDE DEF o, p, y, C, v
  <2> QED BY <1>3, <2>1, <2>4
<1>9. CASE writeSerializedRequest(t)
  <2>1. /\ Becomes(t, [rq[t] EXCEPT !.pc = "write", !.logged = TRUE]) /\ UNCHANGED <<scenario, cassandra>>
        /\ rq[t].pc = "respond"
    BY <1>9 DEF writeSerializedRequest, Running
  <2>2. Keeps([rq[t] EXCEPT !.pc = "write", !.logged = TRUE], {"write"}, o, p)
    BY <1>2 DEF Keeps
  <2> QED BY <1>3, <2>1, <2>2 DEF Reading
<1>10. CASE outputFilterHandler2(t) /\ ~Becomes(t, Compared(rq[t]))
  <2> DEFINE found == Found(rq[t], conf.compare)
             y == [rq[t] EXCEPT !.pc = "differs", !.printer = found]
  <2>1. Becomes(t, y) /\ UNCHANGED <<scenario, cassandra>> /\ rq[t].pc = "respond" /\ o = FALSE
    BY <1>2, <1>10 DEF outputFilterHandler2, Running, OnlyRequest, Compares
  <2>2. "cassandra" \in DOMAIN found /\ found.cassandra = {}
    BY DEF Found
  <2> HIDE DEF found
  <2>3. y.pc = "differs" /\ y.printer = found
    BY <1>2
  <2> HIDE DEF y
  <2>4. Reported(t) = {} /\ (y.pc \in Reading <=> rq[t].pc \in Reading)
    BY <1>2, <2>1, <2>3 DEF Reading
  <2> QED BY <1>1, <2>1, <2>2, <2>3, <2>4, CassandraMoves
<1>11. CASE writeDifferencesThrows(t) \/ WritesRecord(t) \/ Wakes(t)
  <2>1. UNCHANGED <<scenario, rq, cassandra>>
    BY <1>11 DEF writeDifferencesThrows, WritesRecord, Wakes
  <2> QED BY <2>1 DEF CassandraInv, FoundIn, Reported, Serving, Request, SameId
<1> QED BY <1>4, <1>5, <1>6, <1>7, <1>8, <1>9, <1>10, <1>11, StopsReadingCassandra,
           writeDifferencesCassandra DEF Step

\* Every difference that a handler found is in the map of its process or in one
\* record with its id, from the end of reading on.
THEOREM CassandraInvariant == Spec => []CassandraInv
<1>1. Init => CassandraInv
  <2> SUFFICES ASSUME Init PROVE CassandraInv
    OBVIOUS
  <2>1. /\ scenario \in Scenarios /\ cassandra = [p \in Processes |-> {}]
        /\ rq = [t \in Serving |-> NewRequest(Request(t), scenario.hooks)]
    BY DEF Init
  <2>2. \A t \in Serving : rq[t].pc = "translate" /\ rq[t].printer = NoRecord
    BY <2>1 DEF NewRequest
  <2>3. \A t \in Serving : "cassandra" \in DOMAIN rq[t].printer /\ Reported(t) = {}
    BY <2>2 DEF NoRecord, Reported
  <2> QED BY <2>1, <2>2, <2>3 DEF CassandraInv, Reading
<1>2. LogInv /\ OneRecord /\ CassandraInv /\ [Next]_vars => CassandraInv'
  <2> SUFFICES ASSUME LogInv, OneRecord, CassandraInv, [Next]_vars PROVE CassandraInv'
    OBVIOUS
  <2>1. ASSUME UNCHANGED <<scenario, rq, cassandra>> PROVE CassandraInv'
    BY <2>1 DEF CassandraInv, FoundIn, Reported, Serving, Request, SameId
  <2>2. CASE Configure
    BY <2>1, <2>2 DEF Configure, setBodyList, setHeaderList, setDiffLogType, setDisableLibwsdiff,
       setCompareLog, setCompare, setApplicationScope, setMigrateEnv, postConfig, Directive
  <2>3. ASSUME NEW t \in Threads, Step(t) \/ Wakes(t) PROVE CassandraInv'
    BY <2>3, StepCassandra
  <2>4. ASSUME NEW p \in Processes, Crash(p) PROVE CassandraInv'
    BY <2>1, <2>4 DEF Crash
  <2>5. CASE UNCHANGED vars
    BY <2>1, <2>5 DEF vars
  <2> QED BY <2>2, <2>3, <2>4, <2>5 DEF Next
<1> QED BY <1>1, <1>2, LogInvariant, OneRecordInvariant, PTL DEF Spec

\* A difference of Cassandra is in at most one record, of a request with its id
\* in its process, and is not lost before that, although checkCassandraDiff and
\* writeCassandraDiff look at the map at different times (CassandraReported).
THEOREM CassandraIsReported == Spec => []CassandraReported
<1>1. CassandraInv => CassandraReported
  <2> SUFFICES ASSUME CassandraInv, NEW t \in Serving
               PROVE  /\ \A t2 \in Serving : t2 # t => Reported(t) \cap Reported(t2) = {}
                      /\ Reported(t) \cap cassandra[Process[t]] = {}
                      /\ \A entry \in Reported(t) : SameId(t, entry) /\ Process[entry[1]] = Process[t]
                      /\ rq[t].pc \notin {"translate", "handle", "extract"} =>
                          Gone(t) \subseteq UNION {Reported(t2) : t2 \in Serving}
    BY DEF CassandraReported
  <2>1. /\ \A t2 \in Serving : t2 # t => Reported(t) \cap Reported(t2) = {}
        /\ Reported(t) \cap cassandra[Process[t]] = {}
    BY DEF CassandraInv
  <2>2. \A entry \in Reported(t) : SameId(t, entry) /\ Process[entry[1]] = Process[t]
    BY DEF CassandraInv, FoundIn
  <2>3. ASSUME rq[t].pc \notin Reading, NEW e \in Gone(t)
        PROVE  \E u \in Serving : e \in Reported(u)
    BY <2>3 DEF CassandraInv, Gone
  <2> QED BY <2>1, <2>2, <2>3 DEF Reading
<1> QED BY <1>1, CassandraInvariant, PTL

-----------------------------------------------------------------------------
(* The types, and that no buffer is ever full.                             *)

Buffered(b) == (\E S : b \in Seq(S)) /\ Len(b) < BufSize

TypeInv ==
    /\ phase \in {"config", "running", "refused"}
    /\ mapped \subseteq Processes /\ alive \subseteq Processes
    /\ \A p \in Processes : Buffered(gFile[p].buf)

LEMMA EmptyBuffered == Buffered(<<>>)
<1>1. <<>> \in Seq({}) /\ Len(<<>>) = 0 /\ 0 < BufSize
  BY CompareLogAssumption
<1> QED BY <1>1, Zenon DEF Buffered

LEMMA SameTypes ==
    ASSUME TypeInv, UNCHANGED <<phase, mapped, alive, gFile>>
    PROVE  TypeInv'
BY DEF TypeInv

\* A part that would fill the buffer is written out together with it.
LEMMA PutTypes ==
    ASSUME RecordsInv, TypeInv, NEW t \in Threads, NEW flush, Put(t, flush),
           UNCHANGED <<phase, mapped, alive>>
    PROVE  TypeInv'
<1>0. PICK buf \in BuffersAfter(t) :
        LET f == gFile[Process[t]]
            out == f.mode \notin Closed /\ (flush \/ Len(buf) >= BufSize)
            pos == IF f.mode = "app" THEN Len(log) ELSE f.pos
        IN gFile' = [gFile EXCEPT ![Process[t]].buf = IF out \/ f.mode \in Closed THEN <<>> ELSE buf,
                                  ![Process[t]].pos = IF out THEN pos + Len(buf) ELSE @,
                                  ![Process[t]].torn = @ \/ Races(t)]
  BY Zenon DEF Put
<1> DEFINE p == Process[t]
           f == gFile[p]
           cell == <<t, writer[t].part>>
           out == f.mode \notin Closed /\ (flush \/ Len(buf) >= BufSize)
           new == IF out \/ f.mode \in Closed THEN <<>> ELSE buf
<1>1. p \in Processes
  BY ProcessOf
<1>2. \E pos, torn : gFile' = [gFile EXCEPT ![p].buf = new, ![p].pos = pos, ![p].torn = torn]
  BY <1>0, Zenon
<1>3. Buffered(new)
  <2>1. CASE out \/ f.mode \in Closed
    BY <2>1, EmptyBuffered, Zenon
  <2>2. CASE ~(out \/ f.mode \in Closed)
    <3>1. PICK S : f.buf \in Seq(S)
      BY <1>1, Zenon DEF TypeInv, Buffered
    <3>2. buf \in Seq(S \cup {cell})
      <4>1. buf \in {Append(f.buf, cell), f.buf, f.buf \o <<cell, cell>>, <<cell>>}
        BY Zenon DEF BuffersAfter
      <4> HIDE DEF f, cell
      <4>2. f.buf \in Seq(S \cup {cell})
        BY <3>1
      <4>3. <<cell, cell>> \in Seq(S \cup {cell}) /\ <<cell>> \in Seq(S \cup {cell})
        OBVIOUS
      <4>4. f.buf \o <<cell, cell>> \in Seq(S \cup {cell}) /\ Append(f.buf, cell) \in Seq(S \cup {cell})
        BY <4>2, <4>3
      <4> QED BY <4>1, <4>2, <4>3, <4>4
    <3>3. Len(buf) \in Nat /\ BufSize \in Nat
      BY <3>2, CompareLogAssumption
    <3>4. ~(Len(buf) >= BufSize)
      BY <2>2, Zenon
    <3>5. Len(buf) < BufSize
      BY <3>3, <3>4
    <3> QED BY <2>2, <3>2, <3>5, Zenon DEF Buffered
  <2> QED BY <2>1, <2>2
<1>4. DOMAIN gFile = Processes /\ "buf" \in DOMAIN f
  BY <1>1 DEF RecordsInv, FileShape
<1> HIDE DEF new
<1>5. \A u \in Processes : gFile'[u].buf = IF u = p THEN new ELSE gFile[u].buf
  BY <1>1, <1>2, <1>4
<1> HIDE DEF p
<1>6. \A u \in Processes : Buffered(gFile'[u].buf)
  BY <1>3, <1>5 DEF TypeInv
<1> QED BY <1>6 DEF TypeInv

LEMMA WriterTypes ==
    ASSUME RecordsInv, TypeInv, NEW t \in Threads, WriterStep(t) \/ LockWakes(t), UNCHANGED phase
    PROVE  TypeInv'
<1>1. CASE WritesPart(t)
  <2>1. \E flush : Put(t, flush) /\ UNCHANGED <<phase, mapped, alive>>
    BY <1>1, Zenon DEF WritesPart, mutexVars
  <2> QED BY <2>1, PutTypes
<1>2. CASE text_oarchive(t)
  <2>1. Put(t, TRUE) /\ UNCHANGED <<phase, mapped, alive>>
    BY <1>2, Zenon DEF text_oarchive, mutexVars
  <2> QED BY <2>1, PutTypes
<1>3. CASE getGlobalMutex(t)
  <2>1. mapped' = mapped \cup {Process[t]} /\ UNCHANGED <<phase, gFile, alive>>
    BY <1>3 DEF getGlobalMutex
  <2> QED BY <2>1, ProcessOf DEF TypeInv
<1>4. CASE LockWithoutMemory(t)
  <2>1. alive' = alive \ {Process[t]} /\ UNCHANGED <<phase, gFile, mapped>>
    BY <1>4 DEF LockWithoutMemory, Die
  <2> QED BY <2>1 DEF TypeInv
<1>5. CASE \/ StartsWriting(t) \/ createGlobalMutex(t) \/ ftruncate(t) \/ pthread_mutex_init(t)
           \/ pthread_mutex_lock(t) \/ LockSleeps(t) \/ pthread_mutex_unlock(t) \/ writeInFacility(t)
           \/ LockWakes(t)
  <2>1. UNCHANGED <<phase, mapped, alive, gFile>>
    BY <1>5, Zenon DEF StartsWriting, createGlobalMutex, ftruncate, pthread_mutex_init, pthread_mutex_lock,
       LockSleeps, pthread_mutex_unlock, writeInFacility, LockWakes, mutexVars
  <2> QED BY <2>1, SameTypes
<1> QED BY <1>1, <1>2, <1>3, <1>4, <1>5 DEF WriterStep

LEMMA StepTypes ==
    ASSUME RecordsInv, TypeInv, NEW t \in Threads, Step(t) \/ Wakes(t)
    PROVE  TypeInv'
<1>1. CASE WritesRecord(t) \/ Wakes(t)
  BY <1>1, WriterTypes DEF WritesRecord, Wakes
<1>2. CASE writeDifferencesThrows(t)
  <2>1. alive' = alive \ {Process[t]} /\ UNCHANGED <<phase, gFile, mapped>>
    BY <1>2, Zenon DEF writeDifferencesThrows, Die
  <2> QED BY <2>1 DEF TypeInv
<1>3. CASE TruncatesLog(t)
  <2> DEFINE p == Process[t]
             c == [gFile[p] EXCEPT !.mode = "closing", !.pos = 0, !.buf = <<>>]
  <2>1. /\ UNCHANGED <<phase, mapped, alive>>
        /\ \/ gFile' = [gFile EXCEPT ![p] = c]
           \/ gFile' = [gFile EXCEPT ![p].mode = "trunc"]
    BY <1>3, Zenon DEF TruncatesLog, TruncateCloses, TruncateOpens, mutexVars
  <2>2. DOMAIN gFile = Processes /\ \A u \in Processes : DOMAIN gFile[u] = {"mode", "pos", "buf", "torn"}
    BY DEF RecordsInv, FileShape
  <2>3. \A u \in Processes : gFile'[u].buf = gFile[u].buf \/ gFile'[u].buf = <<>>
    <3>1. p \in Processes /\ c.buf = <<>>
      BY <2>2, ProcessOf
    <3> HIDE DEF p, c
    <3> QED BY <2>1, <2>2, <3>1
  <2>4. \A u \in Processes : Buffered(gFile'[u].buf)
    BY <2>3, EmptyBuffered DEF TypeInv
  <2> QED BY <2>1, <2>4 DEF TypeInv
<1>4. CASE ~(WritesRecord(t) \/ Wakes(t) \/ writeDifferencesThrows(t) \/ TruncatesLog(t))
  <2>1. UNCHANGED <<phase, mapped, alive, gFile>>
    BY <1>4, Zenon DEF Step, translateHookCompare, translateHookMigrate, Translated, inputFilterHandler,
       Unpacks, StopsReading, outputFilterHandler, PassesOn, writeSerializedRequest,
       outputFilterHandler2, writeDifferences, RecordWritten, PassesAgain, Finishes, OnlyRequest,
       logVars, mutexVars
  <2> QED BY <2>1, SameTypes
<1> QED BY <1>1, <1>2, <1>3, <1>4

\* The variables have their types; the buffer of a stream never holds BufSize
\* parts, the offsets of the two input filters stay inside the bodies they give
\* back, and only a request that was compared has a record (TypeOK).
THEOREM TypeCorrect == Spec => []TypeOK
<1>1. Init => TypeInv
  <2> SUFFICES ASSUME Init PROVE TypeInv
    OBVIOUS
  <2>1. /\ phase = "config" /\ mapped = {} /\ alive = Processes
        /\ gFile = [p \in Processes |-> [mode |-> "closed", pos |-> 0, buf |-> <<>>, torn |-> FALSE]]
    BY DEF Init, LogInit
  <2>2. \A p \in Processes : gFile[p].buf = <<>>
    BY <2>1
  <2> QED BY <2>1, <2>2, EmptyBuffered DEF TypeInv
<1>2. RecordsInv /\ TypeInv /\ [Next]_vars => TypeInv'
  <2> SUFFICES ASSUME RecordsInv, TypeInv, [Next]_vars PROVE TypeInv'
    OBVIOUS
  <2>1. CASE postConfig
    <3>1. /\ phase' \in {"running", "refused"} /\ UNCHANGED <<mapped, alive>>
          /\ \E mode : gFile' = [p \in Processes |-> [gFile[p] EXCEPT !.mode = mode]]
      BY <2>1, Zenon DEF postConfig, childInit, mutexVars
    <3>2. \A p \in Processes : DOMAIN gFile[p] = {"mode", "pos", "buf", "torn"}
      BY DEF RecordsInv, FileShape
    <3>3. \A p \in Processes : gFile'[p].buf = gFile[p].buf
      BY <3>1, <3>2
    <3> QED BY <3>1, <3>3 DEF TypeInv
  <2>2. CASE Configure /\ ~postConfig
    <3>1. /\ phase' = phase \/ phase' = "refused"
          /\ UNCHANGED <<mapped, alive, gFile>>
      BY <2>2, Zenon DEF Configure, setBodyList, setHeaderList, setDiffLogType, setDisableLibwsdiff,
         setCompareLog, setCompare, setApplicationScope, setMigrateEnv, Directive, logVars, mutexVars
    <3> QED BY <3>1 DEF TypeInv
  <2>3. ASSUME NEW t \in Threads, Step(t) \/ Wakes(t) PROVE TypeInv'
    BY <2>3, StepTypes
  <2>4. ASSUME NEW p \in Processes, Crash(p) PROVE TypeInv'
    <3>1. alive' = alive \ {p} /\ UNCHANGED <<phase, gFile, mapped>>
      BY <2>4, Zenon DEF Crash, Die
    <3> QED BY <3>1 DEF TypeInv
  <2>5. CASE UNCHANGED vars
    <3>1. UNCHANGED <<phase, mapped, alive, gFile>>
      BY <2>5 DEF vars, logVars, mutexVars
    <3> QED BY <3>1, SameTypes
  <2> QED BY <2>1, <2>2, <2>3, <2>4, <2>5 DEF Next
<1>3. LogInv /\ OneRecord /\ RecordsInv /\ RequestInv /\ TypeInv => TypeOK
  <2> SUFFICES ASSUME LogInv, OneRecord, RecordsInv, RequestInv, TypeInv PROVE TypeOK
    OBVIOUS
  <2>1. conf.compare.mLogType \in {"json", "multiline"}
    BY DEF RecordsInv, ConfShape
  <2>2. shm \in {"none", "empty", "zero", "ready", "denied"} /\ owner \in Threads \cup {Nobody}
    BY DEF LogInv, Shape
  <2>3. \A p \in Processes : Len(gFile[p].buf) < BufSize
    BY Zenon DEF TypeInv, Buffered
  <2>4. ASSUME NEW t \in Serving
        PROVE  /\ rq[t].info.offset \in 0 .. Len(rq[t].info.mReqBody)
               /\ rq[t].mig.ctx \in -1 .. Len(rq[t].mig.body)
               /\ writer[t].pc # "idle" => rq[t].pc = "write" \/ rq[t].off2
    <3>1. t \in Threads
      BY CompareAssumption DEF RequestInv, Serving
    <3>2. writer[t].pc # "idle" => rq[t].pc = "write" \/ rq[t].off2
      BY <3>1, Zenon DEF OneRecord
    <3>3. Streaming(rq[t], Range(Request(t).text))
      BY Zenon DEF RequestInv, Reads
    <3> QED BY <3>2, <3>3, Zenon DEF Streaming
  <2> QED BY <2>1, <2>2, <2>3, <2>4, Zenon DEF TypeOK, TypeInv
<1>4. Spec => []TypeInv
  BY <1>1, <1>2, RecordsInvariant, PTL DEF Spec
<1> QED BY <1>3, <1>4, LogInvariant, OneRecordInvariant, RecordsInvariant, RequestInvariant, PTL

-----------------------------------------------------------------------------
(* The original answer is unpacked, and nothing of the new one has come    *)
(* while the handler reads.                                                *)

AnswerFields == {"toSend", "headersOut", "ended", "unread", "off", "off2", "toPass", "again", "printer", "logged"}
ReplyFields == {"mResponseHeader", "mResponseBody", "mDupResponseBody", "eos"}

Complete(x) ==
    /\ ReadFields \subseteq DOMAIN x /\ AnswerFields \subseteq DOMAIN x
    /\ InfoFields \subseteq DOMAIN x.info /\ ReplyFields \subseteq DOMAIN x.info

WantsLog(headers) == "X_COMP_LOG" \in DOMAIN headers

Untouched(x, q) ==
    /\ x.toSend = q.answer /\ x.headersOut = q.answerHeaders
    /\ x.ended = FALSE /\ x.unread = FALSE /\ x.off = FALSE /\ x.off2 = FALSE /\ x.toPass = FALSE
    /\ x.printer = NoRecord /\ x.logged = FALSE
    /\ x.info.mDupResponseBody = <<>> /\ x.info.eos = FALSE

OriginalIs(x, q) ==
    WellFormed(q) /\ x.ictx = 1 /\ ~x.cut =>
        /\ x.info.mResponseHeader = HeaderMap(HeaderText(q.original))
        /\ x.info.mResponseBody = q.originalBody

OriginalKept(x, q) ==
    /\ Complete(x) /\ (WantsLog(x.headers) <=> WantsLog(q.headers))
    /\ OriginalIs(x, q)
    /\ x.pc \in Reading => Untouched(x, q)

\* From x to y nothing of the two answers changes.
Stays(x, y) ==
    /\ Complete(y)
    /\ \A f \in AnswerFields : y[f] = x[f]
    /\ \A f \in ReplyFields : y.info[f] = x.info[f]
    /\ WantsLog(y.headers) <=> WantsLog(x.headers)
    /\ y.ictx = x.ictx /\ (x.cut => y.cut)

LEMMA StaysChain ==
    ASSUME NEW x, NEW y, NEW z, Stays(x, y), Stays(y, z)
    PROVE  Stays(x, z)
BY Zenon DEF Stays

LEMMA StaysKept ==
    ASSUME NEW q, NEW x, OriginalKept(x, q), x.pc \in Reading, NEW y, Stays(x, y)
    PROVE  OriginalKept(y, q)
<1>1. /\ y.toSend = x.toSend /\ y.headersOut = x.headersOut /\ y.ended = x.ended /\ y.unread = x.unread
      /\ y.off = x.off /\ y.off2 = x.off2 /\ y.toPass = x.toPass /\ y.printer = x.printer /\ y.logged = x.logged
  BY DEF Stays, AnswerFields
<1>2. /\ y.info.mResponseHeader = x.info.mResponseHeader /\ y.info.mResponseBody = x.info.mResponseBody
      /\ y.info.mDupResponseBody = x.info.mDupResponseBody /\ y.info.eos = x.info.eos
  BY DEF Stays, ReplyFields
<1>3. Untouched(y, q)
  BY <1>1, <1>2, Zenon DEF OriginalKept, Untouched
<1>4. OriginalIs(y, q)
  BY <1>2, Zenon DEF OriginalKept, OriginalIs, Stays
<1> QED BY <1>3, <1>4, Zenon DEF OriginalKept, Stays

\* What is changed besides the answers.
LEMMA StaysExcept ==
    ASSUME NEW x, Complete(x), NEW y, DOMAIN y = DOMAIN x,
           \A f \in AnswerFields \cup {"headers", "ictx", "cut", "info"} : y[f] = x[f]
    PROVE  Stays(x, y)
<1>1. y.info = x.info /\ y.headers = x.headers /\ y.ictx = x.ictx /\ y.cut = x.cut
  OBVIOUS
<1>2. \A f \in AnswerFields : y[f] = x[f]
  OBVIOUS
<1>3. Complete(y)
  BY <1>1, Zenon DEF Complete
<1> QED BY <1>1, <1>2, <1>3, Zenon DEF Stays

LEMMA NetBrigadesStay ==
    ASSUME NEW x, Complete(x), NEW n, NEW r \in NetBrigades(x, n)
    PROVE  Stays(x, r.x) /\ r.x.pc = x.pc
<1>1. \/ \E s : r.x = [x EXCEPT !.net = s]
      \/ r.x = [x EXCEPT !.failed = TRUE]
  <2>1. \/ \E c : r = [ok |-> TRUE, data |-> SubSeq(x.net, 1, c.cells), eos |-> c.eos,
                       x |-> [x EXCEPT !.net = SubSeq(@, c.cells + 1, Len(@))]]
        \/ r = [ok |-> FALSE, data |-> <<>>, eos |-> FALSE, x |-> [x EXCEPT !.failed = TRUE]]
    BY Zenon DEF NetBrigades
  <2>2. ASSUME NEW c, r = [ok |-> TRUE, data |-> SubSeq(x.net, 1, c.cells), eos |-> c.eos,
                           x |-> [x EXCEPT !.net = SubSeq(@, c.cells + 1, Len(@))]]
        PROVE  r.x = [x EXCEPT !.net = SubSeq(x.net, c.cells + 1, Len(x.net))]
    BY <2>2
  <2>3. ASSUME r = [ok |-> FALSE, data |-> <<>>, eos |-> FALSE, x |-> [x EXCEPT !.failed = TRUE]]
        PROVE  r.x = [x EXCEPT !.failed = TRUE]
    BY <2>3
  <2> QED BY <2>1, <2>2, <2>3, Zenon
<1>2. ASSUME NEW s, r.x = [x EXCEPT !.net = s] PROVE Stays(x, r.x) /\ r.x.pc = x.pc
  BY <1>2 DEF Stays, Complete, ReadFields, AnswerFields
<1>3. ASSUME r.x = [x EXCEPT !.failed = TRUE] PROVE Stays(x, r.x) /\ r.x.pc = x.pc
  BY <1>3 DEF Stays, Complete, ReadFields, AnswerFields
<1> QED BY <1>1, <1>2, <1>3, Zenon

LEMMA BrigadesStay ==
    ASSUME NEW x, Complete(x), NEW n, NEW r \in Brigades(x, n)
    PROVE  Stays(x, r.x) /\ r.x.pc = x.pc
<1> DEFINE b == inputFilterBody2Brigade(x.mig.body, x.mig.ctx, n)
           y == [x EXCEPT !.mig.ctx = b.ctx]
           both(s) == [s EXCEPT !.data = IF s.ok THEN b.data \o s.data ELSE s.data,
                                !.x.cut = s.x.cut \/ (~s.ok /\ b.data # <<>>)]
<1> HIDE DEF b
<1>2. Stays(x, y) /\ y.pc = x.pc
  BY DEF Stays, Complete, ReadFields, AnswerFields
<1> HIDE DEF y
<1>1. \/ r \in NetBrigades(x, n)
      \/ r = [ok |-> TRUE, data |-> b.data, eos |-> FALSE, x |-> y]
      \/ \E s \in NetBrigades(y, n) : r = both(s)
  BY Zenon DEF Brigades, b, y
<1> HIDE DEF both
<1>3. ASSUME r = [ok |-> TRUE, data |-> b.data, eos |-> FALSE, x |-> y] PROVE Stays(x, r.x) /\ r.x.pc = x.pc
  <2>1. r.x = y
    BY <1>3
  <2> QED BY <1>2, <2>1
<1>4. ASSUME NEW s \in NetBrigades(y, n), r = both(s)
      PROVE  Stays(x, r.x) /\ r.x.pc = x.pc
  <2> DEFINE c == s.x.cut \/ (~s.ok /\ b.data # <<>>)
  <2>1. r.x = [s.x EXCEPT !.cut = c]
    <3>1. "x" \in DOMAIN s
      BY <1>4 DEF NetBrigades
    <3> QED BY <1>4, <3>1 DEF both
  <2>2. Complete(y)
    BY <1>2, Zenon DEF Stays
  <2>3. Stays(y, s.x) /\ s.x.pc = y.pc
    BY <1>4, <2>2, NetBrigadesStay
  <2>4. s.x.cut => c
    OBVIOUS
  <2> HIDE DEF c
  <2>5. Stays(s.x, r.x) /\ r.x.pc = s.x.pc
    <3>1. Complete(s.x)
      BY <2>3, Zenon DEF Stays
    <3> QED BY <2>1, <2>4, <3>1 DEF Stays, Complete, ReadFields, AnswerFields
  <2> QED BY <1>2, <2>3, <2>5, StaysChain
<1>5. ASSUME r \in NetBrigades(x, n) PROVE Stays(x, r.x) /\ r.x.pc = x.pc
  BY <1>5, NetBrigadesStay
<1> QED BY <1>1, <1>3, <1>4, <1>5, Zenon

LEMMA ExtractedStay ==
    ASSUME NEW x, NEW brigades, \A r \in brigades : Stays(x, r.x) /\ r.x.pc = x.pc,
           NEW e \in extractBrigadeContent(brigades)
    PROVE  Stays(x, e.x) /\ e.x.pc = x.pc
<1>1. PICK r \in brigades : ButForTheHistory(r.x, e.x)
  BY ExtractedFrom, Zenon
<1>2. PICK c : e.x = [r.x EXCEPT !.cut = c] /\ (r.x.cut => c)
  BY <1>1, Zenon DEF ButForTheHistory
<1>3. Stays(r.x, e.x) /\ e.x.pc = r.x.pc
  <2>1. Complete(r.x)
    BY Zenon DEF Stays
  <2> QED BY <1>2, <2>1 DEF Stays, Complete, ReadFields, AnswerFields
<1> QED BY <1>3, StaysChain

LEMMA DeliveredStay ==
    ASSUME NEW x, NEW r, Stays(x, r.x), NEW y, y = Delivered(r)
    PROVE  Stays(x, y) /\ y.pc = "handle"
<1>1. Complete(r.x)
  BY Zenon DEF Stays
<1>2. Stays(r.x, y) /\ y.pc = "handle"
  BY <1>1 DEF Stays, Complete, ReadFields, AnswerFields, Delivered
<1> QED BY <1>2, StaysChain

LEMMA ReinjectedStay ==
    ASSUME NEW x, Complete(x), NEW z \in Reinjected(x)
    PROVE  Stays(x, z) /\ z.pc = "handle"
<1> DEFINE toSend == Min({Len(x.info.mReqBody) - x.info.offset, x.readbytes})
           y == [x EXCEPT !.info.offset = @ + toSend]
           r == [ok |-> TRUE,
                 data |-> SubSeq(x.info.mReqBody, x.info.offset + 1, x.info.offset + toSend),
                 eos |-> FALSE, x |-> y]
<1>1. z = Delivered(r) \/ \E s \in Brigades(x, x.readbytes) : z = Delivered(s)
  BY Zenon DEF Reinjected
<1> HIDE DEF toSend
<1>2. r.x = y
  OBVIOUS
<1>3. Stays(x, y)
  BY DEF Stays, Complete, ReadFields, AnswerFields, InfoFields, ReplyFields
<1> HIDE DEF y, r
<1>4. Stays(x, r.x)
  BY <1>2, <1>3
<1>5. ASSUME z = Delivered(r) PROVE Stays(x, z) /\ z.pc = "handle"
  BY <1>4, <1>5, DeliveredStay
<1>6. ASSUME NEW s \in Brigades(x, x.readbytes), z = Delivered(s) PROVE Stays(x, z) /\ z.pc = "handle"
  <2>1. Stays(x, s.x)
    BY <1>6, BrigadesStay
  <2> QED BY <1>6, <2>1, DeliveredStay
<1> QED BY <1>1, <1>5, <1>6, Zenon

LEMMA WantsLogWith ==
    ASSUME NEW f, NEW key, key # "X_COMP_LOG", NEW v
    PROVE  WantsLog(With(f, key, v)) <=> WantsLog(f)
BY DEF WantsLog, With

LEMMA WantsLogWithout ==
    ASSUME NEW f, NEW keys, "X_COMP_LOG" \notin keys
    PROVE  WantsLog(Without(f, keys)) <=> WantsLog(f)
BY DEF WantsLog, Without, Restrict

\* initRequest forgets what was unpacked, so it must not come after.
LEMMA initRequestStay ==
    ASSUME NEW q, NEW x, OriginalKept(x, q), x.pc \in Reading, x.ictx # 1, NEW y, y = initRequest(x)
    PROVE  OriginalKept(y, q) /\ y.pc = x.pc
<1> DEFINE method == IF "X_DUP_METHOD" \in DOMAIN x.headers
                     THEN changeMethod(x.method, x.headers["X_DUP_METHOD"]) ELSE x.method
           marked == IF Has(x, "Content-Type", "application/x-dup-serialized")
                     THEN With(x.headers, "X-COMPARE-TRANSLATED", "1") ELSE x.headers
           typed  == IF "X_DUP_CONTENT_TYPE" \in DOMAIN marked
                     THEN With(marked, "Content-Type", marked["X_DUP_CONTENT_TYPE"]) ELSE marked
           copied == Without(typed, {"X_DUP_METHOD", "X_DUP_CONTENT_TYPE"})
           h      == Without(copied, {"ELAPSED_TIME_BY_DUP", "X_DUP_HTTP_STATUS"})
<1>1. PICK i, a, b : /\ i = [NoInfo EXCEPT !.present = TRUE, !.mReqHeader = a, !.mReqHttpStatus = b]
                     /\ y = [x EXCEPT !.method = method, !.headers = h, !.info = i]
  BY Zenon DEF initRequest
<1>2. WantsLog(h) <=> WantsLog(x.headers)
  <2>1. WantsLog(marked) <=> WantsLog(x.headers)
    BY WantsLogWith
  <2> HIDE DEF marked
  <2>2. WantsLog(typed) <=> WantsLog(marked)
    BY WantsLogWith
  <2> HIDE DEF typed
  <2>3. WantsLog(copied) <=> WantsLog(typed)
    BY WantsLogWithout
  <2> HIDE DEF copied
  <2>4. WantsLog(h) <=> WantsLog(copied)
    BY WantsLogWithout
  <2> QED BY <2>1, <2>2, <2>3, <2>4, Zenon
<1> HIDE DEF h, method
<1>3. /\ InfoFields \subseteq DOMAIN i /\ ReplyFields \subseteq DOMAIN i
      /\ i.mDupResponseBody = <<>> /\ i.eos = FALSE
  BY <1>1 DEF NoInfo, InfoFields, ReplyFields
<1>4. Complete(x) /\ Untouched(x, q)
  BY Zenon DEF OriginalKept
<1>5. /\ DOMAIN y = DOMAIN x /\ y.info = i /\ y.headers = h /\ y.pc = x.pc /\ y.ictx = x.ictx
      /\ y.toSend = x.toSend /\ y.headersOut = x.headersOut /\ y.ended = x.ended /\ y.unread = x.unread
      /\ y.off = x.off /\ y.off2 = x.off2 /\ y.toPass = x.toPass /\ y.printer = x.printer /\ y.logged = x.logged
  BY <1>1, <1>4 DEF Complete, ReadFields, AnswerFields
<1>6. Complete(y)
  BY <1>3, <1>4, <1>5, Zenon DEF Complete
<1>7. Untouched(y, q)
  BY <1>3, <1>4, <1>5, Zenon DEF Untouched
<1>8. OriginalIs(y, q)
  BY <1>5, Zenon DEF OriginalIs
<1> QED BY <1>2, <1>5, <1>6, <1>7, <1>8, Zenon DEF OriginalKept

KeptAt(y, q, pc) == OriginalKept(y, q) /\ y.pc = pc

LEMMA UnpackedStay ==
    ASSUME NEW q, IsRequest(q), NEW C, C = Range(q.text), NEW x, OriginalKept(x, q), x.pc \in Reading,
           NEW P, P = q.text \/ x.cut,
           NEW parsed, parsed = deserializeBody(P), NEW y, y = Unpacked(x, parsed)
    PROVE  KeptAt(y, q, x.pc)
<1>1. PICK headers : /\ y = [x EXCEPT !.ictx = 1, !.error = ~parsed.ok, !.headers = headers,
                                !.info.mReqBody = parsed.reqBody, !.info.mResponseHeader = parsed.respHeader,
                                !.info.mResponseBody = parsed.respBody]
                     /\ headers = x.headers \/ \E v : headers = With(x.headers, "Content-Length", v)
  BY Zenon DEF Unpacked
<1>2. Complete(x) /\ Untouched(x, q)
  BY Zenon DEF OriginalKept
<1> DEFINE i == [x.info EXCEPT !.mReqBody = parsed.reqBody, !.mResponseHeader = parsed.respHeader,
                               !.mResponseBody = parsed.respBody]
<1>3. y = [x EXCEPT !.ictx = 1, !.error = ~parsed.ok, !.headers = headers, !.info = i]
  BY <1>1, <1>2 DEF Complete, ReadFields
<1>4. /\ InfoFields \subseteq DOMAIN i /\ ReplyFields \subseteq DOMAIN i
      /\ i.mDupResponseBody = x.info.mDupResponseBody /\ i.eos = x.info.eos
      /\ i.mResponseHeader = parsed.respHeader /\ i.mResponseBody = parsed.respBody
  BY <1>2 DEF Complete, InfoFields, ReplyFields
<1> HIDE DEF i
<1>5. /\ DOMAIN y = DOMAIN x /\ y.info = i /\ y.headers = headers /\ y.pc = x.pc /\ y.cut = x.cut
      /\ y.toSend = x.toSend /\ y.headersOut = x.headersOut /\ y.ended = x.ended /\ y.unread = x.unread
      /\ y.off = x.off /\ y.off2 = x.off2 /\ y.toPass = x.toPass /\ y.printer = x.printer /\ y.logged = x.logged
  BY <1>2, <1>3 DEF Complete, ReadFields, AnswerFields
<1>6. Complete(y)
  BY <1>2, <1>4, <1>5, Zenon DEF Complete
<1>7. Untouched(y, q)
  BY <1>2, <1>4, <1>5, Zenon DEF Untouched
<1>8. WantsLog(y.headers) <=> WantsLog(x.headers)
  <2>1. \A v : WantsLog(With(x.headers, "Content-Length", v)) <=> WantsLog(x.headers)
    BY WantsLogWith
  <2>2. headers = x.headers \/ \E v : headers = With(x.headers, "Content-Length", v)
    BY <1>1, Zenon
  <2>3. WantsLog(headers) <=> WantsLog(x.headers)
    BY <2>1, <2>2, Zenon
  <2> QED BY <1>5, <2>3, Zenon
<1>9. ASSUME WellFormed(q), P = q.text
      PROVE  /\ parsed.respHeader = HeaderMap(HeaderText(q.original))
             /\ parsed.respBody = q.originalBody
  <2> DEFINE R == <<>>
  <2>1. q.text \in Seq(Range(q.text))
    BY Zenon DEF IsRequest
  <2>2. R \in Seq(Range(q.text)) /\ P \in Seq(Range(q.text)) /\ P \o R = q.text /\ R = <<>>
    BY <1>9, <2>1
  <2> HIDE DEF R
  <2>3. Restored(parsed, q, R)
    BY <1>9, <2>2, Restores
  <2> QED BY <1>9, <2>2, <2>3, Zenon DEF Restored
<1>10. OriginalIs(y, q)
  BY <1>4, <1>5, <1>9, Zenon DEF OriginalIs
<1> QED BY <1>5, <1>6, <1>7, <1>8, <1>10, Zenon DEF OriginalKept, KeptAt

LEMMA NextHookStay ==
    ASSUME NEW x, Complete(x)
    PROVE  Stays(x, NextHook(x)) /\ NextHook(x).pc = x.pc
BY DEF NextHook, Stays, Complete, ReadFields, AnswerFields

\* The request y is that of t after a step, and the handler still reads.
StillReads(t, y, q) == Becomes(t, y) /\ y.pc \in Reading /\ OriginalKept(y, q)

LEMMA inputFilterStay ==
    ASSUME NEW t \in Serving, NEW q, OriginalKept(rq[t], q), inputFilterHandler(t)
    PROVE  \E y : StillReads(t, y, q)
<1> DEFINE o == rq[t]
           X(n) == [o EXCEPT !.readbytes = n]
<1>1. PICK n \in ReadSizes :
        \E y \in IF ~IsDuplicate(X(n)) THEN {Delivered(r) : r \in Brigades(X(n), n)}
                 ELSE IF X(n).ictx = 1 THEN Reinjected(X(n))
                 ELSE {[IF X(n).info.present THEN X(n) ELSE initRequest(X(n)) EXCEPT !.pc = "extract"]} :
            Becomes(t, y)
  BY Zenon DEF inputFilterHandler
<1> DEFINE x == X(n)
<1>2. PICK y : /\ Becomes(t, y)
               /\ \/ \E r \in Brigades(x, n) : y = Delivered(r)
                  \/ y \in Reinjected(x)
                  \/ y = [x EXCEPT !.pc = "extract"]
                  \/ x.ictx # 1 /\ y = [initRequest(x) EXCEPT !.pc = "extract"]
  BY <1>1, Zenon
<1>3. o.pc = "handle" /\ Complete(o) /\ o.pc \in Reading
  BY DEF inputFilterHandler, Running, OriginalKept, Reading
<1>4. Stays(o, x) /\ x.pc = "handle"
  BY <1>3 DEF Stays, Complete, ReadFields, AnswerFields
<1>5. OriginalKept(o, q)
  OBVIOUS
<1> HIDE DEF X, x, o
<1>6. Complete(x) /\ OriginalKept(x, q) /\ x.pc \in Reading
  BY <1>3, <1>4, <1>5, StaysKept DEF Stays, Reading
<1>7. ASSUME NEW z, OriginalKept(z, q), z.pc \in Reading, y = [z EXCEPT !.pc = "extract"]
      PROVE  OriginalKept(y, q) /\ y.pc \in Reading
  <2>1. Complete(z)
    BY <1>7, Zenon DEF OriginalKept
  <2>2. Stays(z, y) /\ y.pc = "extract"
    BY <1>7, <2>1 DEF Stays, Complete, ReadFields, AnswerFields
  <2> QED BY <1>7, <2>2, StaysKept DEF Reading
<1>8. ASSUME NEW z, Stays(x, z), z.pc = "handle" PROVE OriginalKept(z, q) /\ z.pc \in Reading
  BY <1>6, <1>8, StaysKept DEF Reading
<1>9. OriginalKept(y, q) /\ y.pc \in Reading
  <2>1. ASSUME NEW r \in Brigades(x, n), y = Delivered(r) PROVE Stays(x, y) /\ y.pc = "handle"
    <3>1. Stays(x, r.x)
      BY <1>6, <2>1, BrigadesStay
    <3> QED BY <2>1, <3>1, DeliveredStay
  <2>2. ASSUME y \in Reinjected(x) PROVE Stays(x, y) /\ y.pc = "handle"
    BY <1>6, <2>2, ReinjectedStay
  <2>3. ASSUME y = [x EXCEPT !.pc = "extract"] PROVE OriginalKept(y, q) /\ y.pc \in Reading
    BY <1>6, <1>7, <2>3
  <2>4. ASSUME x.ictx # 1, y = [initRequest(x) EXCEPT !.pc = "extract"]
        PROVE  OriginalKept(y, q) /\ y.pc \in Reading
    <3> DEFINE z == initRequest(x)
    <3>1. y = [z EXCEPT !.pc = "extract"] /\ z = initRequest(x)
      BY <2>4
    <3> HIDE DEF z
    <3>2. OriginalKept(z, q) /\ z.pc = x.pc
      BY <1>6, <2>4, <3>1, initRequestStay
    <3>3. z.pc \in Reading
      BY <1>6, <3>2, Zenon
    <3> QED BY <1>7, <3>1, <3>2, <3>3
  <2> QED BY <1>2, <1>8, <2>1, <2>2, <2>3, <2>4, Zenon
<1> QED BY <1>2, <1>9, Zenon DEF StillReads

LEMMA extractStay ==
    ASSUME NEW t \in Serving, NEW q, q = Request(t), IsRequest(q), NEW m, Reads(rq[t], q, m),
           OriginalKept(rq[t], q), Unpacks(t)
    PROVE  \E y : StillReads(t, y, q)
<1> DEFINE brigades == Brigades(rq[t], CMaxBytes)
<1>1. PICK e \in extractBrigadeContent(brigades) :
        LET x == [e.x EXCEPT !.info.mBody = @ \o e.data]
        IN IF ~e.done THEN Becomes(t, x)
           ELSE \E parsed \in {deserializeBody(x.info.mBody)} : \E y \in {Unpacked(x, parsed)} :
                   IF y.error THEN Becomes(t, [y EXCEPT !.pc = "handle", !.readbytes = 0])
                   ELSE \E z \in Reinjected(y) : Becomes(t, z)
  BY Zenon DEF Unpacks
<1> DEFINE C == Range(q.text)
           o == rq[t]
           x == [e.x EXCEPT !.info.mBody = @ \o e.data]
<1>2. o.pc = "extract" /\ OriginalKept(o, q)
  BY DEF Unpacks, Running
<1>3. Streaming(o, C) /\ IsDuplicate(q) /\ o.ictx = 0 /\ q.text \in Seq(C) /\ Complete(o)
  BY <1>2, Zenon DEF Reads, IsRequest, OriginalKept
<1>4. CMaxBytes \in Nat \ {0}
  BY CompareAssumption
<1>5. Collecting(o, q)
  <2>1. o.pc # "translate" /\ o.ictx # 1
    BY <1>2, <1>3
  <2> QED BY <1>3, <2>1, Zenon DEF Reads, Reinjecting
<1>6. /\ \/ Becomes(t, x)
         \/ /\ e.done
            /\ \E parsed : /\ parsed = deserializeBody(x.info.mBody)
                           /\ \/ Becomes(t, [Unpacked(x, parsed) EXCEPT !.pc = "handle", !.readbytes = 0])
                              \/ \E z \in Reinjected(Unpacked(x, parsed)) : Becomes(t, z)
  BY <1>1, Zenon
<1>7. x = [e.x EXCEPT !.info.mBody = @ \o e.data] /\ C = Range(q.text) /\ brigades = Brigades(o, CMaxBytes)
  OBVIOUS
<1> HIDE DEF C, o, x, brigades
<1>8. PICK r \in brigades : Passes(o, r, C) /\ Extracts(r, e, C)
  <2>1. ASSUME NEW r \in brigades PROVE Passes(o, r, C)
    BY <1>3, <1>4, <1>7, <2>1, BrigadesIs
  <2>2. ASSUME NEW r \in brigades PROVE IsBrigade(r, C) /\ "cut" \in DOMAIN r.x /\ r.x.cut \in BOOLEAN
    <3>1. IsBrigade(r, C) /\ SameBut(o, r.x, {"net", "failed", "cut", "mig"}) /\ r.x.cut \in BOOLEAN
      BY <2>1, Zenon DEF Passes
    <3>2. "cut" \in DOMAIN o
      BY <1>3 DEF Streaming, ReadFields
    <3> QED BY <3>1, <3>2, Zenon DEF SameBut
  <2>3. \E r \in brigades : Extracts(r, e, C)
    BY <1>1, <2>2, extractBrigadeContentIs
  <2> QED BY <2>1, <2>3, Zenon
<1>9. CollectedOf(o, e, x, q, C)
  BY <1>3, <1>5, <1>7, <1>8, CollectedIs
<1>10. Stays(o, x) /\ x.pc = "extract"
  <2>0. ASSUME NEW s \in brigades PROVE Stays(o, s.x) /\ s.x.pc = o.pc
    BY <1>3, <1>7, <2>0, BrigadesStay
  <2>1. Stays(o, e.x) /\ e.x.pc = o.pc
    BY <1>1, <2>0, ExtractedStay
  <2>2. Complete(e.x)
    BY <2>1, Zenon DEF Stays
  <2>3. Stays(e.x, x)
    BY <1>7, <2>2 DEF Stays, Complete, ReadFields, AnswerFields, InfoFields, ReplyFields
  <2>4. x.pc = o.pc
    BY <1>9, Zenon DEF CollectedOf
  <2> QED BY <1>2, <2>1, <2>3, <2>4, StaysChain
<1>11. OriginalKept(x, q) /\ x.pc \in Reading
  BY <1>2, <1>10, StaysKept DEF Reading
<1>12. CASE Becomes(t, x)
  BY <1>11, <1>12, Zenon DEF StillReads
<1>13. CASE /\ e.done
            /\ \E parsed : /\ parsed = deserializeBody(x.info.mBody)
                           /\ \/ Becomes(t, [Unpacked(x, parsed) EXCEPT !.pc = "handle", !.readbytes = 0])
                              \/ \E z \in Reinjected(Unpacked(x, parsed)) : Becomes(t, z)
  <2>1. PICK parsed : /\ parsed = deserializeBody(x.info.mBody)
                      /\ \/ Becomes(t, [Unpacked(x, parsed) EXCEPT !.pc = "handle", !.readbytes = 0])
                         \/ \E z \in Reinjected(Unpacked(x, parsed)) : Becomes(t, z)
    BY <1>13, Zenon
  <2>2. x.info.mBody = q.text \/ x.cut
    BY <1>9, <1>13, Zenon DEF CollectedOf
  <2> DEFINE u == Unpacked(x, parsed)
  <2>3. /\ u = Unpacked(x, parsed) /\ parsed = deserializeBody(x.info.mBody)
        /\ Becomes(t, [u EXCEPT !.pc = "handle", !.readbytes = 0]) \/ \E z \in Reinjected(u) : Becomes(t, z)
    BY <2>1, Zenon
  <2> HIDE DEF u
  <2> DEFINE P == x.info.mBody
  <2>4. (P = q.text \/ x.cut) /\ parsed = deserializeBody(P)
    BY <2>2, <2>3, Zenon
  <2>5. OriginalKept(u, q) /\ u.pc = x.pc
    <3> HIDE DEF P
    <3>1. C = Range(q.text) /\ u = Unpacked(x, parsed)
      BY <1>7, <2>3, Zenon
    <3>2. KeptAt(u, q, x.pc)
      BY <1>11, <2>4, <3>1, UnpackedStay
    <3> QED BY <3>2, Zenon DEF KeptAt
  <2>6. u.pc \in Reading /\ Complete(u)
    BY <1>11, <2>5, Zenon DEF OriginalKept
  <2>7. ASSUME NEW z, Stays(u, z), z.pc = "handle", Becomes(t, z) PROVE StillReads(t, z, q)
    <3>1. OriginalKept(z, q)
      BY <2>5, <2>6, <2>7, StaysKept, Zenon
    <3>2. z.pc \in Reading
      BY <2>7 DEF Reading
    <3> QED BY <2>7, <3>1, <3>2, Zenon DEF StillReads
  <2>8. ASSUME Becomes(t, [u EXCEPT !.pc = "handle", !.readbytes = 0]) PROVE \E y : StillReads(t, y, q)
    <3> DEFINE z == [u EXCEPT !.pc = "handle", !.readbytes = 0]
    <3>1. Stays(u, z) /\ z.pc = "handle"
      BY <2>6 DEF Stays, Complete, ReadFields, AnswerFields
    <3>2. Becomes(t, z)
      BY <2>8
    <3> HIDE DEF z
    <3> QED BY <2>7, <3>1, <3>2, Zenon
  <2>9. ASSUME NEW z \in Reinjected(u), Becomes(t, z) PROVE StillReads(t, z, q)
    <3>1. Stays(u, z) /\ z.pc = "handle"
      BY <2>6, <2>9, ReinjectedStay
    <3> QED BY <2>7, <2>9, <3>1, Zenon
  <2> QED BY <2>3, <2>8, <2>9, Zenon
<1> QED BY <1>6, <1>12, <1>13, Zenon

LEMMA translateStay ==
    ASSUME NEW t \in Serving, NEW q, NEW m, Reads(rq[t], q, m), OriginalKept(rq[t], q),
           translateHookCompare(t) \/ translateHookMigrate(t) \/ Translated(t)
    PROVE  \E y : StillReads(t, y, q)
<1> DEFINE o == rq[t]
<1>1. o.pc = "translate"
  BY DEF translateHookCompare, translateHookMigrate, Translated, Running
<1>2. o.pc \in Reading /\ OriginalKept(o, q) /\ Complete(o)
  BY <1>1 DEF OriginalKept, Reading
<1>3. o.ictx # 1
  <2>1. o.ictx = 0
    BY <1>1, Zenon DEF Reads, Translating, NotUnpacked
  <2> QED BY <2>1
<1>4. ASSUME NEW y, Becomes(t, y), Stays(o, y), y.pc \in Reading PROVE StillReads(t, y, q)
  BY <1>2, <1>4, StaysKept, Zenon DEF StillReads
<1>5. ASSUME NEW x, OriginalKept(x, q), x.pc \in Reading, Becomes(t, NextHook(x)) PROVE \E y : StillReads(t, y, q)
  <2> DEFINE y == NextHook(x)
  <2>1. Stays(x, y) /\ y.pc = x.pc
    BY <1>5, NextHookStay, Zenon DEF OriginalKept
  <2>2. OriginalKept(y, q)
    BY <1>5, <2>1, StaysKept, Zenon
  <2>3. StillReads(t, y, q)
    BY <1>5, <2>1, <2>2, Zenon DEF StillReads
  <2> QED BY <2>3, Zenon
<1>6. CASE translateHookCompare(t)
  <2> DEFINE x == IF conf.compare.mIsActive THEN initRequest(o) ELSE o
  <2>1. Becomes(t, NextHook(x))
    BY <1>6, Zenon DEF translateHookCompare
  <2>2. OriginalKept(x, q) /\ x.pc \in Reading
    <3> DEFINE y == initRequest(o)
    <3>1. y = initRequest(o)
      OBVIOUS
    <3> HIDE DEF y, o
    <3>2. OriginalKept(y, q) /\ y.pc = o.pc
      BY <1>2, <1>3, <3>1, initRequestStay
    <3> QED BY <1>2, <3>1, <3>2, Zenon
  <2> HIDE DEF x
  <2> QED BY <1>5, <2>1, <2>2, Zenon
<1>7. CASE translateHookMigrate(t)
  <2> DEFINE brigades == NetBrigades(o, CMaxBytes)
  <2>1. \/ Becomes(t, NextHook(o))
        \/ \E r \in extractBrigadeContent(brigades) : \E body, env :
            \/ Becomes(t, [r.x EXCEPT !.mig.body = body])
            \/ Becomes(t, NextHook([[r.x EXCEPT !.mig.body = body] EXCEPT !.mig.read = TRUE, !.env = env]))
    BY <1>7, Zenon DEF translateHookMigrate
  <2>2. CASE Becomes(t, NextHook(o))
    BY <1>2, <1>5, <2>2, Zenon
  <2>3. ASSUME NEW r \in extractBrigadeContent(brigades), NEW body, NEW env,
               \/ Becomes(t, [r.x EXCEPT !.mig.body = body])
               \/ Becomes(t, NextHook([[r.x EXCEPT !.mig.body = body] EXCEPT !.mig.read = TRUE, !.env = env]))
        PROVE  \E y : StillReads(t, y, q)
    <3> DEFINE y == [r.x EXCEPT !.mig.body = body]
               z == [y EXCEPT !.mig.read = TRUE, !.env = env]
    <3>1. Becomes(t, y) \/ Becomes(t, NextHook(z))
      BY <2>3
    <3> HIDE DEF o
    <3>0. \A s \in brigades : Stays(o, s.x) /\ s.x.pc = o.pc
      BY <1>2, NetBrigadesStay
    <3> HIDE DEF brigades
    <3>2. Stays(o, r.x) /\ r.x.pc = o.pc /\ Complete(r.x)
      BY <2>3, <3>0, ExtractedStay DEF Stays
    <3>3. Stays(r.x, y) /\ y.pc = r.x.pc
      BY <3>2 DEF Stays, Complete, ReadFields, AnswerFields
    <3>4. Complete(y)
      BY <3>3, Zenon DEF Stays
    <3> HIDE DEF y
    <3>5. Stays(y, z) /\ z.pc = y.pc
      BY <3>4 DEF Stays, Complete, ReadFields, AnswerFields
    <3> HIDE DEF z
    <3>6. Stays(o, y) /\ Stays(o, z) /\ y.pc \in Reading /\ z.pc \in Reading
      BY <1>2, <3>2, <3>3, <3>5, StaysChain, Zenon
    <3>7. OriginalKept(z, q)
      BY <1>2, <3>6, StaysKept, Zenon
    <3> QED BY <1>4, <1>5, <3>1, <3>6, <3>7, Zenon
  <2> QED BY <2>1, <2>2, <2>3, Zenon
<1>8. CASE Translated(t)
  <2> DEFINE y == [o EXCEPT !.pc = "handle"]
  <2>1. Becomes(t, y)
    BY <1>8, Zenon DEF Translated
  <2>2. Stays(o, y) /\ y.pc \in Reading
    BY <1>2 DEF Stays, Complete, ReadFields, AnswerFields, Reading
  <2> HIDE DEF y
  <2> QED BY <1>4, <2>1, <2>2, Zenon
<1> QED BY <1>6, <1>7, <1>8

-----------------------------------------------------------------------------
(* The answer is collected, compared and logged.                           *)

AnswerOf(q) ==
    IF WantsLog(q.headers) THEN With(q.answerHeaders, "X-COMP-STATUS", <<"COMPARED">>) ELSE q.answerHeaders

\* What was collected and what is to come are the answer, and once the end was
\* seen they have been collected.
Sending(x, q) ==
    /\ x.toSend \in Seq(Range(q.answer)) /\ x.info.mDupResponseBody \in Seq(Range(q.answer))
    /\ ~x.off /\ x.unread = FALSE => x.info.mDupResponseBody \o x.toSend = q.answer
    /\ x.headersOut \in {q.answerHeaders, AnswerOf(q)}
    /\ x.info.eos \in BOOLEAN /\ x.ended \in BOOLEAN /\ x.unread \in BOOLEAN
    /\ x.info.eos = TRUE =>
        /\ x.ended = TRUE /\ x.info.present /\ x.headersOut = AnswerOf(q)
        /\ x.unread = FALSE => x.info.mDupResponseBody = q.answer

Unjudged(x) == x.logged = FALSE /\ x.printer = NoRecord

\* The record of x has the differences F, or there are none and nothing is logged.
Decided(x, F) ==
    /\ x.logged \in BOOLEAN
    /\ x.logged = TRUE => x.printer.header = F.header /\ x.printer.body = F.body /\ isDiff(x.printer)
    /\ x.logged = FALSE => F.header = {} /\ F.body = FALSE /\ x.printer.cassandra = {}

Respond == {"respond", "reopen", "done"}

Judged(x, rules) ==
    /\ x.off2 \in BOOLEAN
    /\ x.pc = "differs" => rules.mIsActive /\ ~rules.mCompareDisabled
    /\ x.info.eos = FALSE => x.pc \in Respond /\ x.off2 = FALSE /\ Unjudged(x)
    /\ x.info.eos = TRUE /\ rules.mIsActive /\ ~rules.mCompareDisabled =>
        /\ x.pc \in Respond \cup {"differs", "write"}
        /\ x.pc \in Respond /\ x.off2 = FALSE => x.toPass = TRUE /\ x.pc # "done" /\ Unjudged(x)
        /\ x.pc = "differs" => x.printer = Found(x, rules) /\ x.logged = FALSE /\ x.off2 = FALSE
        /\ x.pc = "write" \/ x.off2 = TRUE => Decided(x, Found(x, rules))

AnswerKept(x, q, rules) == OriginalKept(x, q) /\ (x.pc \notin Reading => Sending(x, q) /\ Judged(x, rules))

\* The fields that change when an answer goes on.
Moving == {"pc", "off", "off2", "toPass", "again", "printer", "logged"}

\* From x to y an answer goes on.
Moved(x, y, q) ==
    /\ OriginalKept(y, q) /\ Sending(y, q) /\ y.info = x.info /\ y.pc \notin Reading
    /\ \A rules : Found(y, rules) = Found(x, rules)

LEMMA FoundIs ==
    ASSUME NEW x, NEW rules
    PROVE  /\ Found(x, rules).header =
                IF HeaderStopped(rules.mCompHeader, x.info.mResponseHeader, x.headersOut) THEN {}
                ELSE HeaderDifferences(rules.mCompHeader, x.info.mResponseHeader, x.headersOut)
           /\ Found(x, rules).body \in BOOLEAN
           /\ Found(x, rules).body <=>
                BodyDiffers(rules.mCompBody, x.info.mResponseBody, x.info.mDupResponseBody)
           /\ Found(x, rules).cassandra = {}
           /\ DOMAIN Found(x, rules) = {"header", "body", "cassandra"}
<1> DEFINE h == IF HeaderStopped(rules.mCompHeader, x.info.mResponseHeader, x.headersOut) THEN {}
                ELSE HeaderDifferences(rules.mCompHeader, x.info.mResponseHeader, x.headersOut)
           b == BodyDiffers(rules.mCompBody, x.info.mResponseBody, x.info.mDupResponseBody)
<1>1. Found(x, rules) = [header |-> h, body |-> b, cassandra |-> {}]
  BY Zenon DEF Found
<1>2. b \in BOOLEAN
  BY Zenon DEF BodyDiffers
<1> HIDE DEF h, b
<1>3. /\ Found(x, rules).header = h /\ Found(x, rules).body = b
      /\ Found(x, rules).cassandra = {}
      /\ DOMAIN Found(x, rules) = {"header", "body", "cassandra"}
  BY <1>1
<1>4. Found(x, rules).header = h /\ Found(x, rules).body \in BOOLEAN /\ (Found(x, rules).body <=> b)
  BY <1>2, <1>3, Zenon
<1> QED BY <1>3, <1>4, Zenon DEF h, b

LEMMA MoveAnswer ==
    ASSUME NEW q, NEW x, OriginalKept(x, q), Sending(x, q), NEW y, SameBut(x, y, Moving),
           ~y.off => ~x.off, y.pc \notin Reading
    PROVE  Moved(x, y, q)
<1>1. Complete(x)
  BY Zenon DEF OriginalKept
<1>2. /\ DOMAIN y = DOMAIN x
      /\ y.toSend = x.toSend /\ y.headersOut = x.headersOut /\ y.ended = x.ended /\ y.unread = x.unread
      /\ y.headers = x.headers /\ y.ictx = x.ictx /\ y.cut = x.cut /\ y.info = x.info
  BY <1>1 DEF SameBut, Moving, Complete, ReadFields, AnswerFields
<1>3. Sending(y, q)
  BY <1>2, Zenon DEF Sending
<1>4. Complete(y)
  BY <1>1, <1>2, Zenon DEF Complete
<1>5. OriginalKept(y, q)
  BY <1>2, <1>4, Zenon DEF OriginalKept, OriginalIs
<1>6. \A rules : Found(y, rules) = Found(x, rules)
  BY <1>2, Zenon DEF Found
<1> QED BY <1>2, <1>3, <1>5, <1>6, Zenon DEF Moved

LEMMA WithTwice ==
    ASSUME NEW f, NEW k, NEW v
    PROVE  With(With(f, k, v), k, v) = With(f, k, v)
<1> DEFINE g == With(f, k, v)
<1>1. DOMAIN g = DOMAIN f \cup {k} /\ g[k] = v
  BY DEF With
<1>2. With(g, k, v) = [j \in DOMAIN g \cup {k} |-> IF j = k THEN v ELSE g[j]]
  BY Zenon DEF With
<1>3. g = [j \in DOMAIN f \cup {k} |-> g[j]]
  BY DEF With
<1> HIDE DEF g
<1>4. With(g, k, v) = g
  BY <1>1, <1>2, <1>3
<1> QED BY <1>4 DEF g

\* Cells that are sent are taken from the front of what is to come.
LEMMA TakesFront ==
    ASSUME NEW S, NEW s \in Seq(S), NEW n \in 0 .. Len(s)
    PROVE  /\ SubSeq(s, 1, n) \in Seq(S) /\ SubSeq(s, n + 1, Len(s)) \in Seq(S)
           /\ SubSeq(s, 1, n) \o SubSeq(s, n + 1, Len(s)) = s
           /\ n = Len(s) => SubSeq(s, 1, n) = s
<1> DEFINE a == SubSeq(s, 1, n)
           b == SubSeq(s, n + 1, Len(s))
<1>1. a \in Seq(S) /\ b \in Seq(S) /\ a \o b = s /\ (n = Len(s) => b = <<>>)
  BY SplitAt
<1> HIDE DEF a, b
<1>2. a \o <<>> = a
  BY <1>1, ConcatEmptySeq
<1>3. n = Len(s) => a = s
  BY <1>1, <1>2, Zenon
<1> QED BY <1>1, <1>3, Zenon DEF a, b

\* The first output filter takes a brigade: y is the answer after it.
Took(x, y, b, data) ==
    /\ y.toSend = SubSeq(x.toSend, b.cells + 1, Len(x.toSend))
    /\ y.ended = b.eos /\ y.unread = (x.unread \/ ~b.readable) /\ y.toPass = TRUE
    /\ data = IF b.readable THEN SubSeq(x.toSend, 1, b.cells) ELSE <<>>
    /\ \/ /\ y.off = x.off /\ ~x.off /\ x.info.present
          /\ y.info.mDupResponseBody = x.info.mDupResponseBody \o data
          /\ y.info.eos = (x.info.eos \/ b.eos)
          /\ y.headersOut = IF WantsLog(x.headers) THEN With(x.headersOut, "X-COMP-STATUS", <<"COMPARED">>)
                            ELSE x.headersOut
       \/ /\ y.off = TRUE /\ y.headersOut = x.headersOut
          /\ y.info.mDupResponseBody = x.info.mDupResponseBody /\ y.info.eos = x.info.eos
    /\ y.pc = x.pc /\ y.off2 = x.off2 /\ y.printer = x.printer /\ y.logged = x.logged
    /\ y.info.present = x.info.present
    /\ y.info.mResponseHeader = x.info.mResponseHeader /\ y.info.mResponseBody = x.info.mResponseBody
    /\ Complete(y) /\ y.headers = x.headers /\ y.ictx = x.ictx /\ y.cut = x.cut

LEMMA outputFilterTakes ==
    ASSUME NEW t \in Serving, Complete(rq[t]), outputFilterHandler(t)
    PROVE  \E y, data : \E b \in AnswerBrigades(rq[t]) : Becomes(t, y) /\ Took(rq[t], y, b, data)
<1> DEFINE o == rq[t]
<1>1. PICK b \in AnswerBrigades(o) :
        LET data == IF b.readable THEN SubSeq(o.toSend, 1, b.cells) ELSE <<>>
            x == [o EXCEPT !.toSend = SubSeq(@, b.cells + 1, Len(@)),
                           !.ended = b.eos,
                           !.unread = @ \/ ~b.readable,
                           !.toPass = TRUE]
        IN Becomes(t, IF Collects(x) THEN Collected(x, data, b.eos) ELSE [x EXCEPT !.off = TRUE])
  BY Zenon DEF outputFilterHandler
<1> DEFINE data == IF b.readable THEN SubSeq(o.toSend, 1, b.cells) ELSE <<>>
           send == SubSeq(o.toSend, b.cells + 1, Len(o.toSend))
           un == o.unread \/ ~b.readable
           x == [o EXCEPT !.toSend = send, !.ended = b.eos, !.unread = un, !.toPass = TRUE]
           out == IF WantsLog(o.headers) THEN With(o.headersOut, "X-COMP-STATUS", <<"COMPARED">>) ELSE o.headersOut
<1>2. Becomes(t, IF Collects(x) THEN Collected(x, data, b.eos) ELSE [x EXCEPT !.off = TRUE])
  BY <1>1
<1> HIDE DEF send, un, data, out
<1>3. /\ DOMAIN x = DOMAIN o /\ x.toSend = send /\ x.ended = b.eos /\ x.unread = un /\ x.toPass = TRUE
      /\ \A f \in DOMAIN o \ {"toSend", "ended", "unread", "toPass"} : x[f] = o[f]
  BY DEF Complete, AnswerFields
<1> HIDE DEF x
<1>4. /\ x.headers = o.headers /\ x.ictx = o.ictx /\ x.cut = o.cut /\ x.info = o.info /\ x.pc = o.pc
      /\ x.off = o.off /\ x.off2 = o.off2 /\ x.printer = o.printer /\ x.logged = o.logged
      /\ x.headersOut = o.headersOut
  BY <1>3 DEF Complete, ReadFields, AnswerFields
<1>5. send = SubSeq(o.toSend, b.cells + 1, Len(o.toSend)) /\ un = (o.unread \/ ~b.readable)
      /\ data = IF b.readable THEN SubSeq(o.toSend, 1, b.cells) ELSE <<>>
  BY Zenon DEF send, un, data
<1>6. ASSUME Collects(x), Becomes(t, Collected(x, data, b.eos)) PROVE \E y : Becomes(t, y) /\ Took(o, y, b, data)
  <2> DEFINE e == o.info.eos \/ b.eos
             m == o.info.mDupResponseBody \o data
             y == [x EXCEPT !.info.mDupResponseBody = m, !.info.eos = e, !.headersOut = out]
  <2>1. Becomes(t, y)
    <3>1. Collected(x, data, b.eos) =
            [x EXCEPT !.info.mDupResponseBody = @ \o data, !.info.eos = @ \/ b.eos,
                      !.headersOut = IF WantsLog(x.headers) THEN With(@, "X-COMP-STATUS", <<"COMPARED">>) ELSE @]
      BY Zenon DEF Collected, WantsLog
    <3>2. Collected(x, data, b.eos) = y
      BY <1>3, <1>4, <3>1 DEF out, Complete, ReadFields, AnswerFields, ReplyFields
    <3> QED BY <1>6, <3>2, Zenon
  <2> DEFINE i == [o.info EXCEPT !.mDupResponseBody = m, !.eos = e]
  <2> HIDE DEF e, m
  <2>2. y = [x EXCEPT !.info = i, !.headersOut = out]
    BY <1>3, <1>4 DEF Complete, ReadFields
  <2>3. /\ InfoFields \subseteq DOMAIN i /\ ReplyFields \subseteq DOMAIN i
        /\ i.mDupResponseBody = m /\ i.eos = e /\ i.present = o.info.present
        /\ i.mResponseHeader = o.info.mResponseHeader /\ i.mResponseBody = o.info.mResponseBody
    BY DEF Complete, InfoFields, ReplyFields
  <2> HIDE DEF i, y
  <2>4. /\ DOMAIN y = DOMAIN o /\ y.info = i /\ y.headersOut = out
        /\ y.toSend = x.toSend /\ y.ended = x.ended /\ y.unread = x.unread /\ y.toPass = x.toPass
        /\ y.headers = x.headers /\ y.ictx = x.ictx /\ y.cut = x.cut /\ y.pc = x.pc
        /\ y.off = x.off /\ y.off2 = x.off2 /\ y.printer = x.printer /\ y.logged = x.logged
    BY <1>3, <2>2 DEF Complete, ReadFields, AnswerFields
  <2>5. Complete(y)
    BY <2>3, <2>4, Zenon DEF Complete
  <2>6. o.info.present /\ ~o.off
    BY <1>4, <1>6, Zenon DEF Collects
  <2>7. Took(o, y, b, data)
    BY <1>3, <1>4, <1>5, <2>3, <2>4, <2>5, <2>6, Zenon DEF Took, out, e, m
  <2> QED BY <2>1, <2>7, Zenon
<1>7. ASSUME Becomes(t, [x EXCEPT !.off = TRUE]) PROVE \E y : Becomes(t, y) /\ Took(o, y, b, data)
  <2> DEFINE y == [x EXCEPT !.off = TRUE]
  <2>1. /\ DOMAIN y = DOMAIN o /\ y.info = x.info /\ y.headersOut = x.headersOut
        /\ y.toSend = x.toSend /\ y.ended = x.ended /\ y.unread = x.unread /\ y.toPass = x.toPass
        /\ y.headers = x.headers /\ y.ictx = x.ictx /\ y.cut = x.cut /\ y.pc = x.pc
        /\ y.off = TRUE /\ y.off2 = x.off2 /\ y.printer = x.printer /\ y.logged = x.logged
    BY <1>3 DEF Complete, ReadFields, AnswerFields
  <2>2. Becomes(t, y)
    BY <1>7
  <2> HIDE DEF y
  <2>3. Complete(y)
    BY <1>4, <2>1, Zenon DEF Complete
  <2>4. Took(o, y, b, data)
    BY <1>3, <1>4, <1>5, <2>1, <2>3, Zenon DEF Took
  <2> QED BY <2>2, <2>4, Zenon
<1> QED BY <1>2, <1>6, <1>7, Zenon

LEMMA outputFilterAnswers ==
    ASSUME NEW t \in Serving, NEW q, q.answer \in Seq(Range(q.answer)), NEW rules,
           AnswerKept(rq[t], q, rules), outputFilterHandler(t)
    PROVE  \E y : Becomes(t, y) /\ AnswerKept(y, q, rules)
<1> DEFINE x == rq[t]
           S == Range(q.answer)
<1>1. x.pc = "respond" /\ ~x.ended
  BY DEF outputFilterHandler, Running
<1>2. x.pc \notin Reading /\ x.pc \in Respond
  BY <1>1 DEF Reading, Respond
<1>3. OriginalKept(x, q) /\ Sending(x, q) /\ Judged(x, rules) /\ Complete(x)
  BY <1>2, Zenon DEF AnswerKept, OriginalKept
<1>4. PICK y, data : \E b \in AnswerBrigades(x) : Becomes(t, y) /\ Took(x, y, b, data)
  BY <1>3, outputFilterTakes, Zenon
<1>5. PICK b \in AnswerBrigades(x) : Becomes(t, y) /\ Took(x, y, b, data)
  BY <1>4
<1> HIDE DEF x, S
<1>6. x.info.eos = FALSE /\ x.off2 = FALSE /\ Unjudged(x)
  BY <1>1, <1>3, Zenon DEF Sending, Judged
<1>7. x.toSend \in Seq(S) /\ x.info.mDupResponseBody \in Seq(S)
  BY <1>3, Zenon DEF Sending, S
<1>8. /\ b.cells \in 0 .. Len(x.toSend) /\ b.eos \in BOOLEAN /\ b.readable \in BOOLEAN
      /\ b.eos => b.cells = Len(x.toSend)
  <2>1. /\ b.cells \in {Min({1, Len(x.toSend)}), Len(x.toSend)} /\ b.eos \in BOOLEAN /\ b.readable \in BOOLEAN
        /\ b.eos => b.cells = Len(x.toSend)
    BY <1>5 DEF AnswerBrigades
  <2>2. Len(x.toSend) \in Nat
    BY <1>7
  <2>3. Min({1, Len(x.toSend)}) \in 0 .. Len(x.toSend)
    <3> DEFINE n == Len(x.toSend)
    <3>1. n \in Nat
      BY <2>2
    <3> HIDE DEF n
    <3>2. Min({1, n}) \in 0 .. n
      BY <3>1, MinOfTwo
    <3> QED BY <3>2 DEF n
  <2> QED BY <2>1, <2>2, <2>3
<1> DEFINE front == SubSeq(x.toSend, 1, b.cells)
           rest == SubSeq(x.toSend, b.cells + 1, Len(x.toSend))
           had == x.info.mDupResponseBody
<1>9. /\ front \in Seq(S) /\ rest \in Seq(S) /\ front \o rest = x.toSend
      /\ b.eos => front = x.toSend
  <2> DEFINE s == x.toSend
             n == b.cells
  <2>1. s \in Seq(S) /\ n \in 0 .. Len(s)
    BY <1>7, <1>8
  <2> HIDE DEF s, n
  <2>2. /\ SubSeq(s, 1, n) \in Seq(S) /\ SubSeq(s, n + 1, Len(s)) \in Seq(S)
        /\ SubSeq(s, 1, n) \o SubSeq(s, n + 1, Len(s)) = s
        /\ n = Len(s) => SubSeq(s, 1, n) = s
    BY <2>1, TakesFront
  <2> QED BY <1>8, <2>2, Zenon DEF s, n
<1>10. y.toSend = rest /\ y.ended = b.eos /\ y.unread = (x.unread \/ ~b.readable)
       /\ data = IF b.readable THEN front ELSE <<>>
  BY <1>5, Zenon DEF Took
<1> HIDE DEF front, rest
<1>11. data \in Seq(S) /\ had \o data \in Seq(S) /\ had \in Seq(S) /\ <<>> \in Seq(S)
  BY <1>7, <1>9, <1>10, TwoParts
<1>12. (had \o front) \o rest = had \o (front \o rest)
  <2>1. Associate(had, front, rest)
    BY <1>9, <1>11, Associative
  <2> QED BY <2>1, Zenon DEF Associate
<1>13. y.unread = FALSE => x.unread = FALSE /\ data = front
  <2>1. x.unread \in BOOLEAN
    BY <1>3, Zenon DEF Sending
  <2>2. y.unread = (x.unread \/ ~b.readable) /\ (b.readable => data = front)
    BY <1>10, Zenon
  <2>3. ASSUME y.unread = FALSE PROVE ~x.unread /\ b.readable
    BY <2>2, <2>3, Zenon
  <2> QED BY <2>1, <2>2, <2>3, Zenon
<1>14. ~x.off /\ x.unread = FALSE => had \o x.toSend = q.answer
  BY <1>3, Zenon DEF Sending
<1>15. x.headersOut \in {q.answerHeaders, AnswerOf(q)} /\ (WantsLog(x.headers) <=> WantsLog(q.headers))
  BY <1>3, Zenon DEF Sending, OriginalKept
<1>16. y.unread \in BOOLEAN /\ y.ended \in BOOLEAN
  <2>1. x.unread \in BOOLEAN
    BY <1>3, Zenon DEF Sending
  <2> QED BY <1>8, <1>10, <2>1, Zenon
<1>17. Sending(y, q)
  <2>1. CASE /\ y.off = x.off /\ ~x.off /\ x.info.present
             /\ y.info.mDupResponseBody = had \o data
             /\ y.info.eos = (x.info.eos \/ b.eos)
             /\ y.headersOut = IF WantsLog(x.headers) THEN With(x.headersOut, "X-COMP-STATUS", <<"COMPARED">>)
                               ELSE x.headersOut
    <3>1. y.headersOut = AnswerOf(q)
      <4>1. With(AnswerOf(q), "X-COMP-STATUS", <<"COMPARED">>) = With(q.answerHeaders, "X-COMP-STATUS", <<"COMPARED">>)
        <5>1. CASE WantsLog(q.headers)
          <6>1. AnswerOf(q) = With(q.answerHeaders, "X-COMP-STATUS", <<"COMPARED">>)
            BY <5>1, Zenon DEF AnswerOf
          <6> QED BY <6>1, WithTwice, Zenon
        <5>2. CASE ~WantsLog(q.headers)
          BY <5>2, Zenon DEF AnswerOf
        <5> QED BY <5>1, <5>2
      <4>2. CASE WantsLog(q.headers)
        <5>1. y.headersOut = With(x.headersOut, "X-COMP-STATUS", <<"COMPARED">>)
          BY <1>15, <2>1, <4>2, Zenon
        <5>2. AnswerOf(q) = With(q.answerHeaders, "X-COMP-STATUS", <<"COMPARED">>)
          BY <4>2, Zenon DEF AnswerOf
        <5>3. x.headersOut = q.answerHeaders \/ x.headersOut = AnswerOf(q)
          BY <1>15
        <5> QED BY <4>1, <5>1, <5>2, <5>3, Zenon
      <4>3. CASE ~WantsLog(q.headers)
        BY <1>15, <2>1, <4>3 DEF AnswerOf
      <4> QED BY <4>2, <4>3
    <3>2. y.unread = FALSE => (had \o data) \o rest = q.answer
      BY <1>9, <1>12, <1>13, <1>14, <2>1, Zenon
    <3>3. y.info.eos = b.eos
      <4>1. y.info.eos = (FALSE \/ b.eos)
        BY <1>6, <2>1, Zenon
      <4>2. b.eos = TRUE \/ b.eos = FALSE
        BY <1>8
      <4> QED BY <4>1, <4>2, Zenon
    <3>4. y.info.present
      BY <1>5, <2>1, Zenon DEF Took
    <3>5. b.eos = TRUE /\ y.unread = FALSE => had \o data = q.answer
      BY <1>9, <1>13, <1>14, <2>1, Zenon
    <3> QED BY <1>8, <1>9, <1>10, <1>11, <1>16, <2>1, <3>1, <3>2, <3>3, <3>4, <3>5, Zenon DEF Sending, S
  <2>2. CASE /\ y.off = TRUE /\ y.headersOut = x.headersOut
             /\ y.info.mDupResponseBody = had /\ y.info.eos = x.info.eos
    <3>1. y.off /\ x.info.eos # TRUE
      BY <1>6, <2>2
    <3> QED BY <1>6, <1>9, <1>10, <1>11, <1>15, <1>16, <2>2, <3>1, Zenon DEF Sending, S
  <2> QED BY <1>5, <2>1, <2>2, Zenon DEF Took
<1>18. y.pc = "respond" /\ y.off2 = FALSE /\ y.toPass = TRUE /\ Unjudged(y)
  BY <1>1, <1>5, <1>6, Zenon DEF Took, Unjudged, x
<1>19. Judged(y, rules)
  BY <1>18 DEF Judged, Respond
<1>20. OriginalKept(y, q)
  <2>1. y.pc \notin Reading
    BY <1>18 DEF Reading
  <2> QED BY <1>3, <1>5, <2>1, Zenon DEF OriginalKept, OriginalIs, Took
<1>21. AnswerKept(y, q, rules)
  BY <1>17, <1>19, <1>20, Zenon DEF AnswerKept
<1> QED BY <1>5, <1>21, Zenon

LEMMA StopsReadingAnswers ==
    ASSUME NEW t \in Serving, NEW q, q.answer \in Seq(Range(q.answer)), NEW rules,
           AnswerKept(rq[t], q, rules), StopsReading(t)
    PROVE  \E y : Becomes(t, y) /\ AnswerKept(y, q, rules)
<1> DEFINE x == rq[t]
           y == [x EXCEPT !.pc = "respond"]
<1>1. x.pc = "handle" /\ Becomes(t, y)
  BY DEF StopsReading, Running
<1>2. OriginalKept(x, q) /\ Complete(x) /\ Untouched(x, q)
  <2>1. x.pc \in Reading
    BY <1>1 DEF Reading
  <2> QED BY <2>1, Zenon DEF AnswerKept, OriginalKept
<1>3. /\ DOMAIN y = DOMAIN x /\ y.pc = "respond"
      /\ y.toSend = x.toSend /\ y.headersOut = x.headersOut /\ y.ended = x.ended /\ y.unread = x.unread
      /\ y.off = x.off /\ y.off2 = x.off2 /\ y.toPass = x.toPass /\ y.printer = x.printer /\ y.logged = x.logged
      /\ y.headers = x.headers /\ y.ictx = x.ictx /\ y.cut = x.cut /\ y.info = x.info
  BY <1>2 DEF Complete, ReadFields, AnswerFields
<1> HIDE DEF x, y
<1>4. Untouched(y, q)
  BY <1>2, <1>3, Zenon DEF Untouched
<1>5. OriginalKept(y, q)
  BY <1>2, <1>3, <1>4, Zenon DEF OriginalKept, OriginalIs, Complete
<1>6. <<>> \o q.answer = q.answer /\ <<>> \in Seq(Range(q.answer))
  BY ConcatEmptySeq
<1>7. Sending(y, q)
  <2>1. y.info.eos # TRUE /\ y.info.eos \in BOOLEAN /\ y.ended \in BOOLEAN /\ y.unread \in BOOLEAN
    BY <1>4 DEF Untouched
  <2>2. y.headersOut \in {q.answerHeaders, AnswerOf(q)}
    BY <1>4 DEF Untouched
  <2> QED BY <1>4, <1>6, <2>1, <2>2, Zenon DEF Sending, Untouched
<1>8. Judged(y, rules)
  BY <1>3, <1>4 DEF Judged, Untouched, Unjudged, Respond
<1>9. AnswerKept(y, q, rules)
  BY <1>5, <1>7, <1>8, Zenon DEF AnswerKept
<1> QED BY <1>1, <1>9, Zenon DEF x, y

\* What a step that answers without collecting does to a request.
LEMMA JudgedMoves ==
    ASSUME NEW q, NEW rules, NEW x, AnswerKept(x, q, rules), x.pc \notin Reading, NEW y,
           SameBut(x, y, Moving), ~y.off => ~x.off, y.pc \notin Reading,
           y.info = x.info /\ (\A r : Found(y, r) = Found(x, r)) => Judged(y, rules)
    PROVE  AnswerKept(y, q, rules)
<1>1. OriginalKept(x, q) /\ Sending(x, q)
  BY Zenon DEF AnswerKept
<1>2. Moved(x, y, q)
  BY <1>1, MoveAnswer
<1> QED BY <1>2, Zenon DEF Moved, AnswerKept

LEMMA ComparedFields ==
    ASSUME NEW x, Complete(x), NEW y, y = Compared(x)
    PROVE  /\ SameBut(x, y, Moving) /\ y.off = x.off /\ y.pc = "respond" /\ y.off2 = TRUE /\ y.toPass = FALSE
           /\ y.printer = x.printer /\ y.logged = x.logged
BY DEF Compared, Passed, SameBut, Moving, Complete, ReadFields, AnswerFields

\* A comparison that has been decided.
LEMMA ComparedJudged ==
    ASSUME NEW q, NEW rules, NEW x, AnswerKept(x, q, rules), x.pc \notin Reading, NEW y, y = Compared(x),
           x.info.eos = TRUE, rules.mIsActive /\ ~rules.mCompareDisabled => Decided(x, Found(x, rules))
    PROVE  AnswerKept(y, q, rules)
<1>1. Complete(x)
  BY Zenon DEF AnswerKept, OriginalKept
<1>2. /\ SameBut(x, y, Moving) /\ y.off = x.off /\ y.pc = "respond" /\ y.off2 = TRUE /\ y.toPass = FALSE
      /\ y.printer = x.printer /\ y.logged = x.logged
  BY <1>1, ComparedFields
<1>3. y.pc \notin Reading
  BY <1>2 DEF Reading
<1>4. ASSUME y.info = x.info, \A r : Found(y, r) = Found(x, r) PROVE Judged(y, rules)
  <2>1. rules.mIsActive /\ ~rules.mCompareDisabled => Decided(y, Found(y, rules))
    BY <1>2, <1>4, Zenon DEF Decided
  <2>2. y.off2 \in BOOLEAN /\ y.off2 # FALSE /\ y.info.eos # FALSE /\ y.pc # "differs"
        /\ y.pc \in Respond \cup {"differs", "write"}
    BY <1>2, <1>4 DEF Respond
  <2> QED BY <2>1, <2>2, Zenon DEF Judged
<1> QED BY <1>2, <1>3, <1>4, JudgedMoves

\* Before and after the comparison, where the brigade is not lost on the way.
LEMMA RespondMoves ==
    ASSUME NEW q, NEW rules, NEW x, AnswerKept(x, q, rules), x.pc \in Respond, NEW y,
           SameBut(x, y, Moving), ~y.off => ~x.off, y.off2 = x.off2, y.printer = x.printer,
           y.logged = x.logged, y.pc \in Respond,
           x.info.eos = TRUE /\ x.off2 = FALSE /\ rules.mIsActive /\ ~rules.mCompareDisabled =>
                y.toPass = TRUE /\ y.pc # "done"
    PROVE  AnswerKept(y, q, rules)
<1>1. /\ x.pc \notin Reading /\ y.pc \notin Reading /\ y.pc # "differs" /\ y.pc # "write"
      /\ y.pc \in Respond \cup {"differs", "write"}
  BY DEF Reading, Respond
<1>2. Judged(x, rules)
  BY <1>1, Zenon DEF AnswerKept
<1>3. ASSUME y.info = x.info, \A r : Found(y, r) = Found(x, r) PROVE Judged(y, rules)
  <2>1. x.off2 \in BOOLEAN
    BY <1>2, Zenon DEF Judged
  <2>2. Unjudged(y) <=> Unjudged(x)
    BY Zenon DEF Unjudged
  <2>3. x.info.eos = FALSE => x.off2 = FALSE /\ Unjudged(x)
    BY <1>2, Zenon DEF Judged
  <2>4. ASSUME x.info.eos = TRUE, rules.mIsActive, ~rules.mCompareDisabled
        PROVE  /\ x.off2 = FALSE => Unjudged(x)
               /\ x.off2 = TRUE => Decided(y, Found(y, rules))
    <3>1. x.off2 = TRUE => Decided(x, Found(x, rules))
      BY <1>2, <2>4, Zenon DEF Judged
    <3> QED BY <1>2, <1>3, <2>4, <3>1, Zenon DEF Judged, Decided
  <2> QED BY <1>1, <1>3, <2>1, <2>2, <2>3, <2>4, Zenon DEF Judged
<1> QED BY <1>1, <1>3, JudgedMoves

LEMMA PassesAnswers ==
    ASSUME NEW t \in Serving, NEW q, NEW rules, rules = conf.compare, AnswerKept(rq[t], q, rules),
           PassesOn(t) \/ PassesAgain(t) \/ Finishes(t)
    PROVE  \E y : Becomes(t, y) /\ AnswerKept(y, q, rules)
<1> DEFINE x == rq[t]
<1>1. x.pc = "respond"
  BY DEF PassesOn, PassesAgain, Finishes, Running
<1>2. x.pc \notin Reading
  BY <1>1 DEF Reading
<1>3. Judged(x, rules) /\ Complete(x) /\ Sending(x, q)
  BY <1>2, Zenon DEF AnswerKept, OriginalKept
<1>4. ASSUME NEW y, Becomes(t, y), SameBut(x, y, Moving), y.off = x.off, y.off2 = x.off2, y.printer = x.printer,
             y.logged = x.logged, y.pc \in {"respond", "done"},
             x.info.eos = TRUE /\ x.off2 = FALSE /\ rules.mIsActive /\ ~rules.mCompareDisabled =>
                y.toPass = TRUE /\ y.pc = "respond"
      PROVE  \E z : Becomes(t, z) /\ AnswerKept(z, q, rules)
  <2>1. x.pc \in Respond /\ y.pc \in Respond /\ (y.pc = "respond" => y.pc # "done")
    BY <1>1, <1>4 DEF Respond
  <2>2. (~y.off => ~x.off) /\ AnswerKept(x, q, rules)
    BY <1>4, Zenon
  <2>3. x.info.eos = TRUE /\ x.off2 = FALSE /\ rules.mIsActive /\ ~rules.mCompareDisabled =>
            y.toPass = TRUE /\ y.pc # "done"
    BY <1>4, <2>1, Zenon
  <2>4. AnswerKept(y, q, rules)
    <3> HIDE DEF x
    <3> QED BY <1>4, <2>1, <2>2, <2>3, RespondMoves
  <2> QED BY <1>4, <2>4, Zenon
<1>5. CASE PassesOn(t)
  <2> DEFINE y == [x EXCEPT !.toPass = FALSE]
  <2>1. Becomes(t, y) /\ (~rules.mIsActive \/ ~Compares(x))
    BY <1>5, Zenon DEF PassesOn, Passed
  <2>2. x.info.eos = TRUE /\ x.off2 = FALSE => Compares(x)
    BY <1>3, Zenon DEF Compares, Sending
  <2>3. /\ SameBut(x, y, Moving) /\ y.off = x.off /\ y.off2 = x.off2 /\ y.printer = x.printer
        /\ y.logged = x.logged /\ y.pc = "respond"
    BY <1>1, <1>3 DEF SameBut, Moving, Complete, ReadFields, AnswerFields
  <2> HIDE DEF y
  <2>4. ~(x.info.eos = TRUE /\ x.off2 = FALSE /\ rules.mIsActive /\ ~rules.mCompareDisabled)
    BY <2>1, <2>2, Zenon
  <2>5. y.pc \in {"respond", "done"}
    BY <2>3
  <2> QED BY <1>4, <2>1, <2>3, <2>4, <2>5, Zenon
<1>6. CASE PassesAgain(t)
  <2> DEFINE y == [x EXCEPT !.toPass = TRUE, !.again = TRUE]
  <2>1. Becomes(t, y)
    BY <1>6, Zenon DEF PassesAgain
  <2>2. /\ SameBut(x, y, Moving) /\ y.off = x.off /\ y.off2 = x.off2 /\ y.printer = x.printer
        /\ y.logged = x.logged /\ y.pc = "respond" /\ y.toPass = TRUE
    BY <1>1, <1>3 DEF SameBut, Moving, Complete, ReadFields, AnswerFields
  <2> HIDE DEF y
  <2>3. y.pc \in {"respond", "done"}
    BY <2>2
  <2> QED BY <1>4, <2>1, <2>2, <2>3, Zenon
<1>7. CASE Finishes(t)
  <2> DEFINE y == [x EXCEPT !.pc = "done"]
  <2>1. Becomes(t, y) /\ ~x.toPass
    BY <1>7, Zenon DEF Finishes
  <2>2. /\ SameBut(x, y, Moving) /\ y.off = x.off /\ y.off2 = x.off2 /\ y.printer = x.printer
        /\ y.logged = x.logged /\ y.pc \in {"respond", "done"}
    BY <1>3 DEF SameBut, Moving, Complete, ReadFields, AnswerFields
  <2> HIDE DEF y
  <2>3. ~(x.info.eos = TRUE /\ x.off2 = FALSE /\ rules.mIsActive /\ ~rules.mCompareDisabled)
    <3>1. x.pc \in Respond
      BY <1>1 DEF Respond
    <3> QED BY <1>3, <2>1, <3>1, Zenon DEF Judged
  <2> QED BY <1>4, <2>1, <2>2, <2>3, Zenon
<1> QED BY <1>5, <1>6, <1>7

LEMMA TruncatesAnswers ==
    ASSUME NEW t \in Serving, NEW q, NEW rules, AnswerKept(rq[t], q, rules), TruncatesLog(t)
    PROVE  \E y : Becomes(t, y) /\ AnswerKept(y, q, rules)
<1> DEFINE x == rq[t]
           y == [x EXCEPT !.pc = "reopen"]
           z == [x EXCEPT !.pc = "respond", !.off = TRUE]
<1>1. x.pc \in {"respond", "reopen"} /\ (Becomes(t, y) \/ Becomes(t, z))
  BY Zenon DEF TruncatesLog, Running
<1>2. x.pc \notin Reading /\ x.pc \in Respond /\ x.pc # "done"
  BY <1>1 DEF Reading, Respond
<1>3. Judged(x, rules) /\ Complete(x) /\ AnswerKept(x, q, rules)
  BY <1>2, Zenon DEF AnswerKept, OriginalKept
<1>4. /\ SameBut(x, y, Moving) /\ y.off = x.off /\ y.off2 = x.off2 /\ y.printer = x.printer
      /\ y.logged = x.logged /\ y.pc = "reopen" /\ y.toPass = x.toPass
  BY <1>3 DEF SameBut, Moving, Complete, ReadFields, AnswerFields
<1>5. /\ SameBut(x, z, Moving) /\ z.off = TRUE /\ z.off2 = x.off2 /\ z.printer = x.printer
      /\ z.logged = x.logged /\ z.pc = "respond" /\ z.toPass = x.toPass
  BY <1>3 DEF SameBut, Moving, Complete, ReadFields, AnswerFields
<1> HIDE DEF x, y, z
<1>6. x.info.eos = TRUE /\ x.off2 = FALSE /\ rules.mIsActive /\ ~rules.mCompareDisabled => x.toPass = TRUE
  BY <1>2, <1>3, Zenon DEF Judged
<1>7. y.pc \in Respond /\ z.pc \in Respond /\ y.pc # "done" /\ z.pc # "done" /\ (~y.off => ~x.off) /\ (~z.off => ~x.off)
  BY <1>4, <1>5 DEF Respond
<1>8. AnswerKept(y, q, rules)
  BY <1>2, <1>3, <1>4, <1>6, <1>7, RespondMoves
<1>9. AnswerKept(z, q, rules)
  BY <1>2, <1>3, <1>5, <1>6, <1>7, RespondMoves
<1> QED BY <1>1, <1>8, <1>9, Zenon

LEMMA ArchiveAnswers ==
    ASSUME NEW t \in Serving, NEW q, NEW rules, rules = conf.compare, AnswerKept(rq[t], q, rules),
           writeSerializedRequest(t)
    PROVE  \E y : Becomes(t, y) /\ AnswerKept(y, q, rules)
<1> DEFINE x == rq[t]
           y == [x EXCEPT !.pc = "write", !.logged = TRUE]
<1>1. x.pc = "respond" /\ Becomes(t, y) /\ x.info.eos /\ rules.mCompareDisabled
  BY Zenon DEF writeSerializedRequest, Running, Compares
<1>2. x.pc \notin Reading
  BY <1>1 DEF Reading
<1>3. Judged(x, rules) /\ Sending(x, q) /\ Complete(x) /\ AnswerKept(x, q, rules)
  BY <1>2, Zenon DEF AnswerKept, OriginalKept
<1>4. SameBut(x, y, Moving) /\ y.off = x.off /\ y.off2 = x.off2 /\ y.pc = "write"
  BY <1>3 DEF SameBut, Moving, Complete, ReadFields, AnswerFields
<1> HIDE DEF x, y
<1>5. y.pc \notin Reading /\ (~y.off => ~x.off) /\ y.pc # "differs"
  BY <1>4 DEF Reading
<1>6. ASSUME y.info = x.info PROVE Judged(y, rules)
  <2>1. x.off2 \in BOOLEAN /\ x.info.eos # FALSE
    BY <1>1, <1>3, Zenon DEF Judged
  <2> QED BY <1>1, <1>4, <1>5, <1>6, <2>1, Zenon DEF Judged
<1>7. AnswerKept(y, q, rules)
  BY <1>2, <1>3, <1>4, <1>5, <1>6, JudgedMoves
<1> QED BY <1>1, <1>7, Zenon

LEMMA RecordAnswers ==
    ASSUME NEW t \in Serving, NEW q, NEW rules, AnswerKept(rq[t], q, rules), RecordWritten(t)
    PROVE  \E y : Becomes(t, y) /\ AnswerKept(y, q, rules)
<1> DEFINE x == rq[t]
           y == Compared(x)
<1>1. x.pc = "write" /\ Becomes(t, y) /\ y = Compared(x)
  BY Zenon DEF RecordWritten, Running
<1>2. x.pc \notin Reading /\ x.pc \notin Respond
  BY <1>1 DEF Reading, Respond
<1>3. Judged(x, rules) /\ Sending(x, q) /\ AnswerKept(x, q, rules)
  BY <1>2, Zenon DEF AnswerKept
<1> HIDE DEF x, y
<1>4. x.info.eos = TRUE
  <2>1. x.info.eos \in BOOLEAN
    BY <1>3, Zenon DEF Sending
  <2>2. x.info.eos # FALSE
    BY <1>2, <1>3, Zenon DEF Judged
  <2> QED BY <2>1, <2>2
<1>5. rules.mIsActive /\ ~rules.mCompareDisabled => Decided(x, Found(x, rules))
  BY <1>1, <1>3, <1>4, Zenon DEF Judged
<1>6. AnswerKept(y, q, rules)
  BY <1>1, <1>2, <1>3, <1>4, <1>5, ComparedJudged
<1> QED BY <1>1, <1>6, Zenon

LEMMA ComparesAnswers ==
    ASSUME NEW t \in Serving, NEW q, NEW rules, rules = conf.compare, AnswerKept(rq[t], q, rules),
           outputFilterHandler2(t)
    PROVE  \E y : Becomes(t, y) /\ AnswerKept(y, q, rules)
<1> DEFINE x == rq[t]
           F == Found(x, rules)
           y == [x EXCEPT !.pc = "differs", !.printer = F]
           z == Compared(x)
           stopped == HeaderStopped(rules.mCompHeader, x.info.mResponseHeader, x.headersOut)
<1>1. /\ x.pc = "respond" /\ x.info.eos /\ ~x.off2 /\ rules.mIsActive /\ ~rules.mCompareDisabled
      /\ \/ Becomes(t, y)
         \/ Becomes(t, z) /\ ~((~stopped \/ F.body) /\ isDiff(F))
  BY Zenon DEF outputFilterHandler2, Running, Compares
<1>2. x.pc \notin Reading /\ x.pc \in Respond
  BY <1>1 DEF Reading, Respond
<1>3. Judged(x, rules) /\ Sending(x, q) /\ Complete(x) /\ AnswerKept(x, q, rules)
  BY <1>2, Zenon DEF AnswerKept, OriginalKept
<1>4. x.info.eos = TRUE /\ x.off2 = FALSE
  <2>1. x.info.eos \in BOOLEAN /\ x.off2 \in BOOLEAN
    BY <1>3, Zenon DEF Sending, Judged
  <2> QED BY <1>1, <2>1, Zenon
<1>5. Unjudged(x)
  BY <1>1, <1>2, <1>3, <1>4, Zenon DEF Judged
<1>6. z = Compared(x) /\ F = Found(x, rules)
  OBVIOUS
<1>7. /\ stopped => F.header = {}
      /\ F.body \in BOOLEAN /\ F.cassandra = {}
  <2>1. /\ F.header = IF stopped THEN {}
                      ELSE HeaderDifferences(rules.mCompHeader, x.info.mResponseHeader, x.headersOut)
        /\ F.body \in BOOLEAN /\ F.cassandra = {}
    BY FoundIs
  <2> HIDE DEF F
  <2> QED BY <2>1, Zenon
<1> HIDE DEF stopped, F
<1>8. /\ SameBut(x, y, Moving) /\ y.off = x.off /\ y.off2 = x.off2 /\ y.logged = x.logged
      /\ y.printer = F /\ y.pc = "differs"
  BY <1>3 DEF SameBut, Moving, Complete, ReadFields, AnswerFields
<1> HIDE DEF x, y, z
<1>9. AnswerKept(y, q, rules)
  <2>1. y.pc \notin Reading /\ (~y.off => ~x.off) /\ y.pc \notin Respond /\ y.pc # "write"
        /\ y.pc \in Respond \cup {"differs", "write"}
    BY <1>8 DEF Reading, Respond
  <2>2. ASSUME y.info = x.info, \A r : Found(y, r) = Found(x, r) PROVE Judged(y, rules)
    <3>1. y.printer = Found(y, rules) /\ y.logged = FALSE /\ y.off2 = FALSE
      BY <1>4, <1>5, <1>6, <1>8, <2>2, Zenon DEF Unjudged
    <3>2. y.off2 \in BOOLEAN /\ y.off2 # TRUE /\ y.info.eos # FALSE
      BY <1>4, <2>2, <3>1
    <3> QED BY <1>1, <2>1, <3>1, <3>2, Zenon DEF Judged
  <2> QED BY <1>2, <1>3, <1>8, <2>1, <2>2, JudgedMoves
<1>10. ASSUME ~((~stopped \/ F.body) /\ isDiff(F)) PROVE AnswerKept(z, q, rules)
  <2>1. F.header = {} /\ F.body = FALSE
    BY <1>7, <1>10, Zenon DEF isDiff
  <2>2. x.printer.cassandra = {} /\ x.logged = FALSE
    BY <1>5 DEF Unjudged, NoRecord
  <2>3. x.logged \in BOOLEAN /\ x.logged # TRUE
    BY <2>2
  <2>4. Decided(x, Found(x, rules))
    BY <1>6, <2>1, <2>2, <2>3, Zenon DEF Decided
  <2> QED BY <1>2, <1>3, <1>4, <1>6, <2>4, ComparedJudged
<1> QED BY <1>1, <1>9, <1>10, Zenon

LEMMA DifferencesAnswers ==
    ASSUME NEW t \in Serving, NEW q, NEW rules, rules = conf.compare, AnswerKept(rq[t], q, rules),
           writeDifferences(t)
    PROVE  \E y : Becomes(t, y) /\ AnswerKept(y, q, rules)
<1> DEFINE x == rq[t]
           F == Found(x, rules)
           taken == writeCassandraDiff(t).taken
           printer == [x.printer EXCEPT !.cassandra = taken]
           y == [x EXCEPT !.pc = "write", !.printer = printer, !.logged = TRUE]
           z == Compared(x)
<1>1. /\ x.pc = "differs"
      /\ \/ Becomes(t, y) /\ isDiff(printer)
         \/ Becomes(t, z) /\ ~isDiff(printer)
  BY Zenon DEF writeDifferences, Running
<1>2. x.pc \notin Reading /\ x.pc \notin Respond
  BY <1>1 DEF Reading, Respond
<1>3. Judged(x, rules) /\ Sending(x, q) /\ Complete(x) /\ AnswerKept(x, q, rules)
  BY <1>2, Zenon DEF AnswerKept, OriginalKept
<1>4. x.info.eos = TRUE
  <2>1. x.info.eos \in BOOLEAN
    BY <1>3, Zenon DEF Sending
  <2>2. x.info.eos # FALSE
    BY <1>2, <1>3, Zenon DEF Judged
  <2> QED BY <2>1, <2>2
<1>5. x.printer = F /\ x.logged = FALSE /\ x.off2 = FALSE
  BY <1>1, <1>3, <1>4, Zenon DEF Judged
<1>6. z = Compared(x) /\ F = Found(x, rules)
  OBVIOUS
<1>7. F.body \in BOOLEAN /\ F.cassandra = {} /\ DOMAIN F = {"header", "body", "cassandra"}
  BY FoundIs
<1> HIDE DEF F, taken
<1>8. printer.header = F.header /\ printer.body = F.body /\ printer.cassandra = taken
  BY <1>5, <1>7
<1> HIDE DEF printer
<1>9. /\ SameBut(x, y, Moving) /\ y.off = x.off /\ y.off2 = x.off2 /\ y.logged = TRUE
      /\ y.printer = printer /\ y.pc = "write"
  BY <1>3 DEF SameBut, Moving, Complete, ReadFields, AnswerFields
<1> HIDE DEF x, y, z
<1>10. ASSUME isDiff(printer) PROVE AnswerKept(y, q, rules)
  <2>1. y.pc \notin Reading /\ (~y.off => ~x.off) /\ y.pc \notin Respond /\ y.pc # "differs"
        /\ y.pc \in Respond \cup {"differs", "write"}
    BY <1>9 DEF Reading, Respond
  <2>2. ASSUME y.info = x.info, \A r : Found(y, r) = Found(x, r) PROVE Judged(y, rules)
    <3>1. y.logged \in BOOLEAN /\ y.logged # FALSE /\ y.off2 \in BOOLEAN /\ y.info.eos # FALSE
      BY <1>4, <1>5, <1>9, <2>2
    <3>2. Decided(y, Found(y, rules))
      BY <1>6, <1>8, <1>9, <1>10, <2>2, <3>1, Zenon DEF Decided
    <3> QED BY <2>1, <3>1, <3>2, Zenon DEF Judged
  <2> QED BY <1>2, <1>3, <1>9, <2>1, <2>2, JudgedMoves
<1>11. ASSUME ~isDiff(printer) PROVE AnswerKept(z, q, rules)
  <2>1. F.header = {} /\ F.body = FALSE
    BY <1>7, <1>8, <1>11, Zenon DEF isDiff
  <2>2. x.logged \in BOOLEAN /\ x.logged # TRUE
    BY <1>5
  <2>3. Decided(x, Found(x, rules))
    BY <1>5, <1>6, <1>7, <2>1, <2>2, Zenon DEF Decided
  <2> QED BY <1>2, <1>3, <1>4, <1>6, <2>3, ComparedJudged
<1> QED BY <1>1, <1>10, <1>11, Zenon

\* What is known of a request that is served at the moment.
AnswerInv == \A t \in Serving : AnswerKept(rq[t], Request(t), conf.compare)

LEMMA AnswerStep ==
    ASSUME RequestInv, AnswerInv, NEW t \in Threads, Step(t)
    PROVE  \/ UNCHANGED rq
           \/ /\ t \in Serving
              /\ \E y : Becomes(t, y) /\ AnswerKept(y, Request(t), conf.compare)
<1>1. CASE writeDifferencesThrows(t) \/ WritesRecord(t)
  BY <1>1, Zenon DEF writeDifferencesThrows, WritesRecord
<1>2. CASE ~(writeDifferencesThrows(t) \/ WritesRecord(t))
  <2> DEFINE q == Request(t)
             m == Migrates
             rules == conf.compare
  <2>1. t \in Serving
    BY <1>2, Zenon DEF Step, translateHookCompare, translateHookMigrate, Translated, inputFilterHandler,
       Unpacks, StopsReading, outputFilterHandler, TruncatesLog, PassesOn,
       writeSerializedRequest, outputFilterHandler2, writeDifferences, RecordWritten, PassesAgain,
       Finishes, Running
  <2>2. Reads(rq[t], q, m) /\ AnswerKept(rq[t], q, rules)
    BY <2>1, Zenon DEF RequestInv, AnswerInv
  <2>3. IsRequest(q)
    BY <2>1, CompareAssumption, Zenon DEF RequestInv, Request, Serving
  <2>4. OriginalKept(rq[t], q) /\ q.answer \in Seq(Range(q.answer))
    BY <2>2, <2>3, Zenon DEF AnswerKept, IsRequest
  <2>5. q = Request(t) /\ rules = conf.compare
    OBVIOUS
  <2> HIDE DEF q, m, rules
  <2>6. ASSUME \E y : StillReads(t, y, q) PROVE \E y : Becomes(t, y) /\ AnswerKept(y, q, rules)
    BY <2>6, Zenon DEF StillReads, AnswerKept
  <2>7. CASE translateHookCompare(t) \/ translateHookMigrate(t) \/ Translated(t)
    <3>1. \E y : StillReads(t, y, q)
      BY <2>1, <2>2, <2>4, <2>7, translateStay
    <3> QED BY <2>1, <2>5, <2>6, <3>1, Zenon
  <2>8. CASE inputFilterHandler(t)
    <3>1. \E y : StillReads(t, y, q)
      BY <2>1, <2>4, <2>8, inputFilterStay
    <3> QED BY <2>1, <2>5, <2>6, <3>1, Zenon
  <2>9. CASE Unpacks(t)
    <3>1. \E y : StillReads(t, y, q)
      BY <2>1, <2>2, <2>3, <2>4, <2>5, <2>9, extractStay
    <3> QED BY <2>1, <2>5, <2>6, <3>1, Zenon
  <2>10. ASSUME Answers(t) PROVE \E y : Becomes(t, y) /\ AnswerKept(y, q, rules)
    <3>1. CASE StopsReading(t)
      BY <2>1, <2>2, <2>4, <3>1, StopsReadingAnswers
    <3>2. CASE outputFilterHandler(t)
      BY <2>1, <2>2, <2>4, <3>2, outputFilterAnswers
    <3>3. CASE TruncatesLog(t)
      BY <2>1, <2>2, <3>3, TruncatesAnswers
    <3>4. CASE PassesOn(t) \/ PassesAgain(t) \/ Finishes(t)
      BY <2>1, <2>2, <2>5, <3>4, PassesAnswers
    <3>5. CASE writeSerializedRequest(t)
      BY <2>1, <2>2, <2>5, <3>5, ArchiveAnswers
    <3>6. CASE outputFilterHandler2(t)
      BY <2>1, <2>2, <2>5, <3>6, ComparesAnswers
    <3>7. CASE writeDifferences(t)
      BY <2>1, <2>2, <2>5, <3>7, DifferencesAnswers
    <3>8. CASE RecordWritten(t)
      BY <2>1, <2>2, <3>8, RecordAnswers
    <3> QED BY <2>10, <3>1, <3>2, <3>3, <3>4, <3>5, <3>6, <3>7, <3>8, Zenon DEF Answers
  <2>11. CASE Answers(t)
    BY <2>1, <2>5, <2>10, <2>11, Zenon
  <2> QED BY <1>2, <2>7, <2>8, <2>9, <2>11, Zenon DEF Step, Answers
<1> QED BY <1>1, <1>2

LEMMA NewRequestAnswers ==
    ASSUME NEW q, NEW hooks, NEW rules
    PROVE  AnswerKept(NewRequest(q, hooks), q, rules)
<1> DEFINE x == NewRequest(q, hooks)
<1>1. /\ x.pc = "translate" /\ x.ictx = 0 /\ x.headers = q.headers /\ x.info = NoInfo
      /\ x.toSend = q.answer /\ x.headersOut = q.answerHeaders
      /\ x.ended = FALSE /\ x.unread = FALSE /\ x.off = FALSE /\ x.off2 = FALSE /\ x.toPass = FALSE
      /\ x.printer = NoRecord /\ x.logged = FALSE
  BY DEF NewRequest
<1>2. ReadFields \subseteq DOMAIN x /\ AnswerFields \subseteq DOMAIN x
  BY DEF NewRequest, ReadFields, AnswerFields
<1>3. /\ InfoFields \subseteq DOMAIN NoInfo /\ ReplyFields \subseteq DOMAIN NoInfo
      /\ NoInfo.mDupResponseBody = <<>> /\ NoInfo.eos = FALSE
  BY DEF NoInfo, InfoFields, ReplyFields
<1> HIDE DEF x
<1>4. Complete(x)
  BY <1>1, <1>2, <1>3, Zenon DEF Complete
<1>5. Untouched(x, q)
  BY <1>1, <1>3, Zenon DEF Untouched
<1>6. x.pc \in Reading /\ x.ictx # 1
  BY <1>1 DEF Reading
<1>7. OriginalIs(x, q)
  BY <1>6, Zenon DEF OriginalIs
<1>8. WantsLog(x.headers) <=> WantsLog(q.headers)
  BY <1>1, Zenon
<1>9. OriginalKept(x, q)
  BY <1>4, <1>5, <1>7, <1>8, Zenon DEF OriginalKept
<1>10. AnswerKept(x, q, rules)
  BY <1>6, <1>9, Zenon DEF AnswerKept
<1> QED BY <1>10 DEF x

\* The inductive invariant: the original answer is as it was sent, what was
\* collected of the new one is its beginning, and the record is what the
\* comparison found.
THEOREM AnswerInvariant == Spec => []AnswerInv
<1>1. Init => AnswerInv
  <2> SUFFICES ASSUME Init PROVE AnswerInv
    OBVIOUS
  <2>1. rq = [t \in Serving |-> NewRequest(Request(t), scenario.hooks)]
    BY Zenon DEF Init
  <2>2. \A t \in Serving : rq[t] = NewRequest(Request(t), scenario.hooks)
    BY <2>1, Zenon
  <2> QED BY <2>2, NewRequestAnswers, Zenon DEF AnswerInv
<1>2. RequestInv /\ EnvInv /\ AnswerInv /\ [Next]_vars => AnswerInv'
  <2> SUFFICES ASSUME RequestInv, EnvInv, AnswerInv, [Next]_vars PROVE AnswerInv'
    OBVIOUS
  <2>1. ASSUME UNCHANGED <<scenario, conf, rq>> PROVE AnswerInv'
    BY <2>1, Zenon DEF AnswerInv, Serving, Request
  <2>2. ASSUME NEW t \in Serving, NEW y, Becomes(t, y), UNCHANGED <<scenario, conf>>,
               AnswerKept(y, Request(t), conf.compare)
        PROVE  AnswerInv'
    <3>1. Serving' = Serving /\ conf' = conf
      BY <2>2, Zenon DEF Serving
    <3>2. DOMAIN rq = Serving
      BY Zenon DEF RequestInv
    <3>3. \A u \in Serving : rq'[u] = IF u = t THEN y ELSE rq[u]
      BY <2>2, <3>2 DEF Becomes
    <3>4. \A u \in Serving : Request(u)' = Request(u)
      BY <2>2, Zenon DEF Request
    <3>5. ASSUME NEW u \in Serving PROVE AnswerKept(rq'[u], Request(u), conf.compare)
      BY <2>2, <3>3, Zenon DEF AnswerInv
    <3> QED BY <3>1, <3>4, <3>5, Zenon DEF AnswerInv
  <2>3. CASE UNCHANGED vars
    BY <2>1, <2>3, Zenon DEF vars
  <2>4. CASE Configure
    <3>1. phase = "config" /\ UNCHANGED <<scenario, rq>>
      BY <2>4, Zenon DEF Configure, setBodyList, setHeaderList, setDiffLogType, setDisableLibwsdiff, setCompareLog,
         setCompare, setApplicationScope, setMigrateEnv, postConfig, Directive
    <3>2. \A t \in Serving : rq[t] = NewRequest(Request(t), scenario.hooks)
      <4>1. phase # "running"
        BY <3>1
      <4> QED BY <4>1, Zenon DEF EnvInv, Fresh
    <3>3. Serving' = Serving /\ \A t \in Serving : Request(t)' = Request(t)
      BY <3>1, Zenon DEF Serving, Request
    <3>4. ASSUME NEW t \in Serving PROVE AnswerKept(rq[t], Request(t), conf'.compare)
      BY <3>2, NewRequestAnswers, Zenon
    <3> QED BY <3>1, <3>3, <3>4, Zenon DEF AnswerInv
  <2>5. ASSUME NEW t \in Threads, Step(t) PROVE AnswerInv'
    <3>1. UNCHANGED <<scenario, conf>>
      BY <2>5, Zenon DEF Step, translateHookCompare, translateHookMigrate, Translated, inputFilterHandler,
         Unpacks, StopsReading, outputFilterHandler, TruncatesLog, PassesOn,
         writeSerializedRequest, outputFilterHandler2, writeDifferences, RecordWritten, PassesAgain,
         Finishes, OnlyRequest, writeDifferencesThrows, WritesRecord
    <3>2. \/ UNCHANGED rq
          \/ /\ t \in Serving
             /\ \E y : Becomes(t, y) /\ AnswerKept(y, Request(t), conf.compare)
      BY <2>5, AnswerStep, Zenon
    <3> QED BY <2>1, <2>2, <3>1, <3>2, Zenon
  <2>6. ASSUME NEW t \in Threads, Wakes(t) PROVE AnswerInv'
    BY <2>1, <2>6, Zenon DEF Wakes
  <2>7. ASSUME NEW p \in Processes, Crash(p) PROVE AnswerInv'
    BY <2>1, <2>7, Zenon DEF Crash
  <2> QED BY <2>3, <2>4, <2>5, <2>6, <2>7, Zenon DEF Next
<1> QED BY <1>1, <1>2, RequestInvariant, EnvInvariant, PTL DEF Spec

-----------------------------------------------------------------------------
(* The original headers are the last line for each key.                    *)

Maps(K, V) == UNION {[D -> V] : D \in SUBSET K}

\* map holds the headers after each of the lines of the text.
Stores(map, text) ==
    /\ map[0] = <<>>
    /\ \A n \in 1 .. Len(text) : map[n] = Stored(map[n - 1], Lines[text[n]])
    /\ HeaderMap(text) = map[Len(text)]

LEMMA HeaderMapIs ==
    ASSUME NEW text \in Seq(DOMAIN Lines)
    PROVE  \E map : Stores(map, text)
<1> DEFINE w == Len(text)
           K == {Lines[l][1] : l \in DOMAIN Lines}
           V == {Lines[l][2] : l \in DOMAIN Lines}
           S == Maps(K, V)
           step == [p \in (1 .. w) \X S |-> Stored(p[2], Lines[text[p[1]]])]
           F(f) == f = [n \in 0 .. w |-> IF n = 0 THEN <<>> ELSE Stored(f[n - 1], Lines[text[n]])]
           map == CHOOSE f : F(f)
<1>1. w \in Nat /\ \A n \in 1 .. w : text[n] \in DOMAIN Lines
  OBVIOUS
<1>2. <<>> \in S
  <2>1. <<>> \in [{} -> V] /\ {} \in SUBSET K
    OBVIOUS
  <2> QED BY <2>1, Zenon DEF Maps
<1>3. ASSUME NEW m \in S, NEW l \in DOMAIN Lines PROVE Stored(m, Lines[l]) \in S
  <2>1. PICK D \in SUBSET K : m \in [D -> V]
    BY Zenon DEF Maps
  <2>2. Lines[l][1] \in K /\ Lines[l][2] \in V
    BY Zenon
  <2> HIDE DEF K, V
  <2>3. Stored(m, Lines[l]) \in [D \cup {Lines[l][1]} -> V]
    BY <2>1, <2>2 DEF Stored
  <2>4. D \cup {Lines[l][1]} \in SUBSET K
    BY <2>1, <2>2
  <2> QED BY <2>3, <2>4, Zenon DEF Maps
<1>4. \A n \in 1 .. w, m \in S : step[<<n, m>>] = Stored(m, Lines[text[n]])
  <2> HIDE DEF S
  <2> QED OBVIOUS
<1>5. \A n \in 1 .. w, m \in S : step[<<n, m>>] \in S
  BY <1>1, <1>3, <1>4, Zenon
<1> HIDE DEF step, S
<1>6. PICK f \in [0 .. w -> S] : Iterates(f, w, <<>>, step)
  <2> HIDE DEF w
  <2> QED BY <1>1, <1>2, <1>5, Iteration
<1>7. F(f)
  <2> HIDE DEF w
  <2>1. \A n \in 0 .. w : n # 0 => n \in 1 .. w /\ f[n - 1] \in S
    BY <1>1, <1>6
  <2>2. \A n \in 0 .. w : n # 0 => step[<<n, f[n - 1]>>] = Stored(f[n - 1], Lines[text[n]])
    BY <1>4, <2>1, Zenon
  <2> QED BY <1>6, <2>2, Zenon DEF Iterates
<1>8. HeaderMap(text) = map[w]
  BY Zenon DEF HeaderMap
<1> HIDE DEF F
<1>9. F(map)
  BY <1>7, Zenon
<1> HIDE DEF map
<1>10. map = [n \in 0 .. w |-> IF n = 0 THEN <<>> ELSE Stored(map[n - 1], Lines[text[n]])]
  BY <1>9 DEF F
<1>11. map[0] = <<>> /\ \A n \in 1 .. w : map[n] = Stored(map[n - 1], Lines[text[n]])
  <2> HIDE DEF w
  <2>1. 0 \in 0 .. w /\ \A n \in 1 .. w : n \in 0 .. w /\ n # 0
    BY <1>1
  <2> QED BY <1>10, <2>1, Zenon
<1> QED BY <1>8, <1>11, Zenon DEF Stores

\* i is the last of the first n lines that has the key k.
LastOf(lines, n, k, i) ==
    i \in 1 .. n /\ lines[i][1] = k /\ \A j \in i + 1 .. n : lines[j][1] # k

\* map holds the last of the first n lines for each of their keys.
Holds(map, lines, n) ==
    /\ map = [k \in DOMAIN map |-> map[k]]
    /\ \A k : k \in DOMAIN map <=> \E i \in 1 .. n : lines[i][1] = k
    /\ \A k \in DOMAIN map : \E i : LastOf(lines, n, k, i) /\ map[k] = lines[i][2]

LEMMA StoredHolds ==
    ASSUME NEW lines, NEW n \in Nat \ {0}, NEW map, Holds(map, lines, n - 1)
    PROVE  Holds(Stored(map, lines[n]), lines, n)
<1> DEFINE line == lines[n]
           m == Stored(map, line)
<1>1. /\ DOMAIN m = DOMAIN map \cup {line[1]} /\ m = [k \in DOMAIN m |-> m[k]]
      /\ m[line[1]] = line[2] /\ \A k \in DOMAIN map : k # line[1] => m[k] = map[k]
  BY DEF Stored
<1>2. n \in 1 .. n /\ \A i \in 1 .. n : i = n \/ i \in 1 .. n - 1
  OBVIOUS
<1>3. 1 .. n - 1 \subseteq 1 .. n
  OBVIOUS
<1>4. \A j \in n + 1 .. n : FALSE
  OBVIOUS
<1>5. \A i \in 1 .. n - 1 : \A j \in i + 1 .. n : j = n \/ j \in i + 1 .. n - 1
  OBVIOUS
<1> HIDE DEF m
<1>6. \A k : k \in DOMAIN m <=> \E i \in 1 .. n : lines[i][1] = k
  BY <1>1, <1>2, <1>3, Zenon DEF Holds
<1>7. ASSUME NEW k \in DOMAIN m PROVE \E i : LastOf(lines, n, k, i) /\ m[k] = lines[i][2]
  <2>1. CASE k = line[1]
    <3>1. LastOf(lines, n, k, n)
      BY <1>2, <1>4, <2>1, Zenon DEF LastOf
    <3> QED BY <1>1, <2>1, <3>1, Zenon
  <2>2. CASE k # line[1]
    <3>1. k \in DOMAIN map /\ m[k] = map[k]
      BY <1>1, <2>2
    <3>2. PICK i : LastOf(lines, n - 1, k, i) /\ map[k] = lines[i][2]
      BY <3>1, Zenon DEF Holds
    <3>3. LastOf(lines, n, k, i)
      BY <1>3, <1>5, <2>2, <3>2, Zenon DEF LastOf
    <3> QED BY <3>1, <3>2, <3>3, Zenon
  <2> QED BY <2>1, <2>2
<1>8. Holds(m, lines, n)
  BY <1>1, <1>6, <1>7, Zenon DEF Holds
<1> QED BY <1>8 DEF m

LEMMA HeaderTextAt ==
    ASSUME NEW headers, headers \in Seq(Range(headers)), Range(headers) \subseteq Range(Lines)
    PROVE  \A i \in 1 .. Len(headers) : Lines[HeaderText(headers)[i]] = headers[i]
<1>1. Len(headers) \in Nat /\ DOMAIN headers = 1 .. Len(headers)
  OBVIOUS
<1> SUFFICES ASSUME NEW i \in 1 .. Len(headers) PROVE Lines[HeaderText(headers)[i]] = headers[i]
  OBVIOUS
<1>2. headers[i] \in Range(Lines)
  BY <1>1 DEF Range
<1>3. \E l \in DOMAIN Lines : Lines[l] = headers[i]
  BY <1>2 DEF Range
<1>4. HeaderText(headers)[i] = CHOOSE l \in DOMAIN Lines : Lines[l] = headers[i]
  BY <1>1, Zenon DEF HeaderText
<1> QED BY <1>3, <1>4, Zenon

\* What deserializeHeader stores of the original headers.
LEMMA OriginalHeld ==
    ASSUME NEW lines, lines \in Seq(Range(lines)), Range(lines) \subseteq Range(Lines)
    PROVE  Holds(HeaderMap(HeaderText(lines)), lines, Len(lines))
<1> DEFINE text == HeaderText(lines)
           w == Len(lines)
<1>1. text \in Seq(DOMAIN Lines) /\ Len(text) = w /\ w \in Nat
  BY HeaderTextIs
<1>2. \A n \in 1 .. w : Lines[text[n]] = lines[n]
  BY HeaderTextAt
<1> HIDE DEF text
<1>3. PICK map : Stores(map, text)
  BY <1>1, HeaderMapIs
<1>4. /\ map[0] = <<>> /\ HeaderMap(text) = map[w]
      /\ \A n \in 1 .. w : map[n] = Stored(map[n - 1], lines[n])
  BY <1>1, <1>2, <1>3 DEF Stores
<1> HIDE DEF w
<1> DEFINE T == {n \in 0 .. w : Holds(map[n], lines, n)}
<1>5. 0 \in T
  <2>1. DOMAIN <<>> = {} /\ <<>> = [k \in DOMAIN <<>> |-> <<>>[k]] /\ 1 .. 0 = {} /\ 0 \in 0 .. w
    BY <1>1
  <2>2. Holds(<<>>, lines, 0)
    BY <2>1 DEF Holds
  <2> QED BY <1>4, <2>1, <2>2, Zenon
<1>6. ASSUME NEW n \in 1 .. w, n - 1 \in T PROVE n \in T
  <2>1. n \in Nat \ {0} /\ n \in 0 .. w
    BY <1>1
  <2>2. Holds(map[n - 1], lines, n - 1)
    BY <1>6
  <2>3. Holds(Stored(map[n - 1], lines[n]), lines, n)
    <3> DEFINE m == map[n - 1]
    <3>1. Holds(m, lines, n - 1)
      BY <2>2
    <3> HIDE DEF m
    <3>2. Holds(Stored(m, lines[n]), lines, n)
      BY <2>1, <3>1, StoredHolds
    <3> QED BY <3>2 DEF m
  <2> QED BY <1>4, <2>1, <2>3, Zenon
<1> HIDE DEF T
<1>7. \A n \in 0 .. w : n \in T
  BY <1>1, <1>5, <1>6, UpTo
<1>8. w \in T
  BY <1>1, <1>7
<1> QED BY <1>4, <1>8, Zenon DEF T, w, text

LEMMA OriginalIsLast ==
    ASSUME RequestInv, NEW t \in Serving
    PROVE  HeaderMap(HeaderText(Request(t).original)) = Original(t)
<1> DEFINE lines == Request(t).original
           w == Len(lines)
           map == HeaderMap(HeaderText(lines))
           org == Original(t)
<1>1. lines \in Seq(Range(lines)) /\ Range(lines) \subseteq Range(Lines)
  BY CompareAssumption, Zenon DEF RequestInv, Request, Serving, IsRequest
<1>2. org = [k \in {lines[i][1] : i \in DOMAIN lines} |-> lines[LastLine(lines, k)][2]]
  BY Zenon DEF Original
<1> HIDE DEF lines, org
<1>3. DOMAIN lines = 1 .. w /\ w \in Nat
  BY <1>1
<1>4. Holds(map, lines, w)
  BY <1>1, OriginalHeld
<1> HIDE DEF map, w
<1>5. DOMAIN map = DOMAIN org
  <2>1. DOMAIN org = {lines[i][1] : i \in 1 .. w}
    BY <1>2, <1>3, Zenon
  <2>2. \A k : k \in DOMAIN org <=> \E i \in 1 .. w : lines[i][1] = k
    BY <2>1, Zenon
  <2>3. \A k : k \in DOMAIN org <=> k \in DOMAIN map
    BY <1>4, <2>2, Zenon DEF Holds
  <2> QED BY <2>3
<1>6. ASSUME NEW k \in DOMAIN map PROVE map[k] = org[k]
  <2>1. PICK i : LastOf(lines, w, k, i) /\ map[k] = lines[i][2]
    BY <1>4, Zenon DEF Holds
  <2> DEFINE j == LastLine(lines, k)
  <2>2. j = CHOOSE e \in 1 .. w : lines[e][1] = k /\ \A n \in e + 1 .. w : lines[n][1] # k
    BY <1>3, Zenon DEF LastLine, w
  <2>3. LastOf(lines, w, k, j)
    BY <2>1, <2>2, Zenon DEF LastOf
  <2>4. org[k] = lines[j][2]
    BY <1>2, <1>5, <1>6, Zenon
  <2> HIDE DEF j
  <2>5. i = j
    BY <1>3, <2>1, <2>3 DEF LastOf
  <2> QED BY <2>1, <2>4, <2>5, Zenon
<1>7. map = [k \in DOMAIN map |-> map[k]] /\ org = [k \in DOMAIN org |-> org[k]]
  <2>1. map = [k \in DOMAIN map |-> map[k]]
    BY <1>4, Zenon DEF Holds
  <2>2. org = [k \in DOMAIN org |-> org[k]]
    BY <1>2
  <2> QED BY <2>1, <2>2
<1>8. map = org
  BY <1>5, <1>6, <1>7, Zenon
<1> QED BY <1>8 DEF map, org, lines

-----------------------------------------------------------------------------
(* What is left of a text when words are taken away.                       *)

\* left holds what is left of each of the beginnings of the text.
Erases(left, text, re, S) ==
    /\ left \in [0 .. Len(text) -> Seq(S)] /\ left[0] = <<>>
    /\ \A n \in 1 .. Len(text) :
        left[n] = IF text[n] \in re THEN left[n - 1] ELSE Append(left[n - 1], text[n])
    /\ regex_erase(text, re) = left[Len(text)]

LEMMA regex_eraseIs ==
    ASSUME NEW S, NEW text \in Seq(S), NEW re
    PROVE  \E left : Erases(left, text, re, S)
<1> DEFINE w == Len(text)
           One(n, s) == IF text[n] \in re THEN s ELSE Append(s, text[n])
           step == [p \in (1 .. w) \X Seq(S) |-> One(p[1], p[2])]
           F(f) == f = [n \in 0 .. w |-> IF n = 0 THEN <<>>
                                         ELSE IF text[n] \in re THEN f[n - 1] ELSE Append(f[n - 1], text[n])]
           left == CHOOSE f : F(f)
<1>1. w \in Nat /\ \A n \in 1 .. w : text[n] \in S
  OBVIOUS
<1>2. \A n \in 1 .. w, s \in Seq(S) : step[<<n, s>>] = One(n, s)
  <2> HIDE DEF One, w
  <2> QED OBVIOUS
<1>3. ASSUME NEW n \in 1 .. w, NEW s \in Seq(S) PROVE One(n, s) \in Seq(S)
  BY <1>1
<1>4. \A n \in 1 .. w, s \in Seq(S) : step[<<n, s>>] \in Seq(S)
  <2> HIDE DEF One, step
  <2> QED BY <1>2, <1>3, Zenon
<1> HIDE DEF step
<1>5. PICK f \in [0 .. w -> Seq(S)] : Iterates(f, w, <<>>, step)
  <2>1. <<>> \in Seq(S)
    OBVIOUS
  <2> HIDE DEF w
  <2> QED BY <1>1, <1>4, <2>1, Iteration
<1>6. F(f)
  <2>1. \A n \in 0 .. w : n # 0 => n \in 1 .. w /\ f[n - 1] \in Seq(S)
    <3> HIDE DEF w
    <3> QED BY <1>1, <1>5
  <2>2. \A n \in 0 .. w : n # 0 => step[<<n, f[n - 1]>>] = One(n, f[n - 1])
    <3> HIDE DEF One, w
    <3> QED BY <1>2, <2>1, Zenon
  <2> QED BY <1>5, <2>2, Zenon DEF Iterates
<1>7. regex_erase(text, re) = left[w]
  BY Zenon DEF regex_erase
<1> HIDE DEF F
<1>8. F(left)
  BY <1>6, Zenon
<1> HIDE DEF left
<1>9. /\ left = [n \in 0 .. w |-> left[n]] /\ left[0] = <<>>
      /\ \A n \in 1 .. w : left[n] = One(n, left[n - 1])
  <2>1. left = [n \in 0 .. w |-> IF n = 0 THEN <<>> ELSE One(n, left[n - 1])]
    BY <1>8, Zenon DEF F
  <2> HIDE DEF w, One
  <2>2. 0 \in 0 .. w /\ \A n \in 1 .. w : n \in 0 .. w /\ n # 0
    BY <1>1
  <2> QED BY <2>1, <2>2, Zenon
<1>10. left \in [0 .. w -> Seq(S)]
  <2>1. left[0] \in Seq(S)
    <3>1. <<>> \in Seq(S)
      OBVIOUS
    <3> QED BY <1>9, <3>1, Zenon
  <2>2. \A n \in 1 .. w : left[n - 1] \in Seq(S) => left[n] \in Seq(S)
    <3> HIDE DEF One, w
    <3> QED BY <1>3, <1>9, Zenon
  <2> HIDE DEF w, One
  <2> QED BY <1>1, <1>9, <2>1, <2>2, Typed, Zenon
<1> QED BY <1>7, <1>9, <1>10, Zenon DEF Erases

LEMMA EraseIn ==
    ASSUME NEW S, NEW text \in Seq(S), NEW re
    PROVE  regex_erase(text, re) \in Seq(S)
<1>1. PICK left : Erases(left, text, re, S)
  BY regex_eraseIs
<1>2. Len(text) \in 0 .. Len(text)
  OBVIOUS
<1> QED BY <1>1, <1>2, Zenon DEF Erases

LEMMA EraseNothing ==
    ASSUME NEW re
    PROVE  regex_erase(<<>>, re) = <<>>
<1>1. <<>> \in Seq({}) /\ Len(<<>>) = 0
  OBVIOUS
<1>2. PICK left : Erases(left, <<>>, re, {})
  BY <1>1, regex_eraseIs
<1> QED BY <1>1, <1>2, Zenon DEF Erases

\* A text is erased word by word.
LEMMA EraseAppend ==
    ASSUME NEW S, NEW text \in Seq(S), NEW c \in S, NEW re
    PROVE  regex_erase(Append(text, c), re) =
                IF c \in re THEN regex_erase(text, re) ELSE Append(regex_erase(text, re), c)
<1> DEFINE more == Append(text, c)
           w == Len(text)
<1>1. /\ more \in Seq(S) /\ Len(more) = w + 1 /\ w \in Nat /\ more[w + 1] = c
      /\ \A n \in 1 .. w : more[n] = text[n]
  OBVIOUS
<1>2. PICK f : Erases(f, text, re, S)
  BY regex_eraseIs
<1> HIDE DEF more
<1>3. PICK g : Erases(g, more, re, S)
  BY <1>1, regex_eraseIs
<1>4. /\ f[0] = <<>> /\ regex_erase(text, re) = f[w]
      /\ \A n \in 1 .. w : f[n] = IF text[n] \in re THEN f[n - 1] ELSE Append(f[n - 1], text[n])
  BY <1>2, Zenon DEF Erases
<1>5. /\ g[0] = <<>> /\ regex_erase(more, re) = g[w + 1]
      /\ \A n \in 1 .. w + 1 : g[n] = IF more[n] \in re THEN g[n - 1] ELSE Append(g[n - 1], more[n])
  <2> HIDE DEF w
  <2> QED BY <1>1, <1>3, Zenon DEF Erases
<1> HIDE DEF w
<1> DEFINE T == {n \in 0 .. w : f[n] = g[n]}
<1>6. 0 \in T
  BY <1>1, <1>4, <1>5
<1>7. ASSUME NEW n \in 1 .. w, n - 1 \in T PROVE n \in T
  <2>1. n \in 1 .. w + 1 /\ n \in 0 .. w /\ more[n] = text[n] /\ f[n - 1] = g[n - 1]
    BY <1>1, <1>7
  <2>2. f[n] = g[n]
    BY <1>4, <1>5, <2>1, Zenon
  <2> QED BY <2>1, <2>2
<1> HIDE DEF T
<1>8. \A n \in 0 .. w : n \in T
  BY <1>1, <1>6, <1>7, UpTo
<1>9. f[w] = g[w]
  BY <1>1, <1>8 DEF T
<1>10. g[w + 1] = IF c \in re THEN g[w] ELSE Append(g[w], c)
  <2>1. w + 1 \in 1 .. w + 1 /\ (w + 1) - 1 = w
    BY <1>1
  <2>2. g[w + 1] = IF more[w + 1] \in re THEN g[(w + 1) - 1] ELSE Append(g[(w + 1) - 1], more[w + 1])
    BY <1>5, <2>1, Zenon
  <2> QED BY <1>1, <2>1, <2>2, Zenon
<1> QED BY <1>4, <1>5, <1>9, <1>10, Zenon DEF more

\* Every text is built word by word: a set that has the empty text and with a
\* text all that are longer by a word has all texts.
LEMMA WordByWord ==
    ASSUME NEW S, NEW T, <<>> \in T,
           \A text \in Seq(S), c \in S : text \in T => Append(text, c) \in T,
           NEW text \in Seq(S)
    PROVE  text \in T
<1> DEFINE w == Len(text)
           pre(n) == SubSeq(text, 1, n)
           N == {n \in 0 .. w : pre(n) \in T}
<1>1. w \in Nat /\ pre(0) = <<>> /\ pre(w) = text
  OBVIOUS
<1>2. ASSUME NEW n \in 1 .. w PROVE pre(n) = Append(pre(n - 1), text[n]) /\ pre(n - 1) \in Seq(S) /\ text[n] \in S
  <2>1. text[n] \in S /\ pre(n - 1) \in Seq(S) /\ Len(pre(n - 1)) = n - 1 /\ pre(n) \in Seq(S) /\ Len(pre(n)) = n
    OBVIOUS
  <2>2. pre(n) = Append(pre(n - 1), text[n])
    OBVIOUS
  <2> QED BY <2>1, <2>2
<1> HIDE DEF w, pre
<1>3. 0 \in N
  BY <1>1
<1>4. ASSUME NEW n \in 1 .. w, n - 1 \in N PROVE n \in N
  <2>1. n \in 0 .. w /\ pre(n - 1) \in T
    BY <1>1, <1>4
  <2>2. pre(n) \in T
    BY <1>2, <2>1, Zenon
  <2> QED BY <2>1, <2>2
<1> HIDE DEF N
<1>5. \A n \in 0 .. w : n \in N
  BY <1>1, <1>3, <1>4, UpTo
<1>6. w \in N
  BY <1>1, <1>5
<1> QED BY <1>1, <1>6 DEF N

LEMMA EraseTwice ==
    ASSUME NEW S, NEW text \in Seq(S), NEW re, NEW more
    PROVE  regex_erase(regex_erase(text, re), more) = regex_erase(text, re \cup more)
<1> DEFINE Twice(u) == regex_erase(regex_erase(u, re), more)
           Once(u) == regex_erase(u, re \cup more)
           T == {u \in Seq(S) : Twice(u) = Once(u)}
<1>1. <<>> \in T
  <2>1. <<>> \in Seq(S)
    OBVIOUS
  <2>2. Twice(<<>>) = <<>> /\ Once(<<>>) = <<>>
    BY EraseNothing, Zenon
  <2> QED BY <2>1, <2>2, Zenon
<1>2. ASSUME NEW u \in Seq(S), NEW c \in S, u \in T PROVE Append(u, c) \in T
  <2> DEFINE e == regex_erase(u, re)
             v == Append(u, c)
  <2>1. e \in Seq(S)
    BY EraseIn
  <2>2. regex_erase(v, re) = IF c \in re THEN e ELSE Append(e, c)
    BY EraseAppend
  <2>3. Once(v) = IF c \in re \cup more THEN Once(u) ELSE Append(Once(u), c)
    BY EraseAppend
  <2>4. regex_erase(e, more) = Once(u)
    BY <1>2, Zenon
  <2> HIDE DEF e
  <2>5. regex_erase(Append(e, c), more) = IF c \in more THEN regex_erase(e, more) ELSE Append(regex_erase(e, more), c)
    BY <2>1, EraseAppend
  <2>6. v \in Seq(S)
    OBVIOUS
  <2> HIDE DEF Once, v
  <2>7. regex_erase(regex_erase(v, re), more) = Once(v)
    <3>1. CASE c \in re
      <4>1. Once(v) = Once(u) /\ regex_erase(v, re) = e
        BY <2>2, <2>3, <3>1
      <4> QED BY <2>4, <4>1, Zenon
    <3>2. CASE c \notin re /\ c \in more
      <4>1. Once(v) = Once(u) /\ regex_erase(v, re) = Append(e, c) /\ regex_erase(Append(e, c), more) = regex_erase(e, more)
        BY <2>2, <2>3, <2>5, <3>2
      <4> QED BY <2>4, <4>1, Zenon
    <3>3. CASE c \notin re /\ c \notin more
      <4>1. Once(v) = Append(Once(u), c) /\ regex_erase(v, re) = Append(e, c)
            /\ regex_erase(Append(e, c), more) = Append(regex_erase(e, more), c)
        BY <2>2, <2>3, <2>5, <3>3
      <4> QED BY <2>4, <4>1, Zenon
    <3> QED BY <3>1, <3>2, <3>3
  <2> QED BY <2>6, <2>7, Zenon DEF v
<1>3. text \in T
  <2> HIDE DEF T
  <2> QED BY <1>1, <1>2, WordByWord
<1> QED BY <1>3, Zenon

LEMMA EraseNone ==
    ASSUME NEW S, NEW text \in Seq(S)
    PROVE  regex_erase(text, {}) = text
<1> DEFINE T == {u \in Seq(S) : regex_erase(u, {}) = u}
<1>1. <<>> \in T
  <2>1. <<>> \in Seq(S)
    OBVIOUS
  <2> QED BY <2>1, EraseNothing, Zenon
<1>2. ASSUME NEW u \in Seq(S), NEW c \in S, u \in T PROVE Append(u, c) \in T
  <2>1. regex_erase(Append(u, c), {}) = IF c \in {} THEN regex_erase(u, {}) ELSE Append(regex_erase(u, {}), c)
    BY EraseAppend
  <2>2. Append(u, c) \in Seq(S) /\ regex_erase(u, {}) = u
    BY <1>2
  <2> QED BY <2>1, <2>2, Zenon
<1>3. text \in T
  <2> HIDE DEF T
  <2> QED BY <1>1, <1>2, WordByWord
<1> QED BY <1>3, Zenon

\* The rules to ignore are applied one after the other, which is the same as all
\* at once.
LEMMA ignoreCasesIs ==
    ASSUME NEW S, NEW text \in Seq(S), NEW R, NEW ignore \in Seq(R)
    PROVE  ignoreCases(ignore, text) = regex_erase(text, UNION Range(ignore))
<1> DEFINE w == Len(ignore)
           step == [p \in (1 .. w) \X Seq(S) |-> regex_erase(p[2], ignore[p[1]])]
           F(f) == f = [n \in 0 .. w |-> IF n = 0 THEN text ELSE regex_erase(f[n - 1], ignore[n])]
           left == CHOOSE f : F(f)
           Upto(n) == UNION {ignore[i] : i \in 1 .. n}
<1>1. w \in Nat /\ DOMAIN ignore = 1 .. w
  OBVIOUS
<1>2. \A n \in 1 .. w, s \in Seq(S) : step[<<n, s>>] = regex_erase(s, ignore[n])
  <2> HIDE DEF w
  <2> QED OBVIOUS
<1>3. \A n \in 1 .. w, s \in Seq(S) : regex_erase(s, ignore[n]) \in Seq(S)
  BY EraseIn
<1>4. \A n \in 1 .. w, s \in Seq(S) : step[<<n, s>>] \in Seq(S)
  <2> HIDE DEF step, w
  <2> QED BY <1>2, <1>3, Zenon
<1> HIDE DEF step
<1>5. PICK f \in [0 .. w -> Seq(S)] : Iterates(f, w, text, step)
  <2> HIDE DEF w
  <2> QED BY <1>1, <1>4, Iteration
<1>6. F(f)
  <2> HIDE DEF w
  <2>1. \A n \in 0 .. w : n # 0 => n \in 1 .. w /\ f[n - 1] \in Seq(S)
    BY <1>1, <1>5
  <2>2. \A n \in 0 .. w : n # 0 => step[<<n, f[n - 1]>>] = regex_erase(f[n - 1], ignore[n])
    BY <1>2, <2>1, Zenon
  <2> QED BY <1>5, <2>2, Zenon DEF Iterates
<1>7. ignoreCases(ignore, text) = left[w]
  BY Zenon DEF ignoreCases
<1> HIDE DEF F
<1>8. F(left)
  BY <1>6, Zenon
<1> HIDE DEF left
<1>9. left[0] = text /\ \A n \in 1 .. w : left[n] = regex_erase(left[n - 1], ignore[n])
  <2> HIDE DEF w
  <2>1. 0 \in 0 .. w /\ \A n \in 1 .. w : n \in 0 .. w /\ n # 0
    BY <1>1
  <2> QED BY <1>8, <2>1, Zenon DEF F
<1> HIDE DEF w
<1> DEFINE T == {n \in 0 .. w : left[n] = regex_erase(text, Upto(n))}
<1>10. 0 \in T
  <2>1. Upto(0) = {} /\ 0 \in 0 .. w
    BY <1>1
  <2>2. regex_erase(text, {}) = text
    BY EraseNone
  <2> QED BY <1>9, <2>1, <2>2, Zenon
<1>11. ASSUME NEW n \in 1 .. w, n - 1 \in T PROVE n \in T
  <2>1. Upto(n) = Upto(n - 1) \cup ignore[n]
    <3>1. 1 .. n = (1 .. n - 1) \cup {n}
      BY <1>1
    <3> QED BY <3>1, Zenon
  <2> DEFINE u == Upto(n - 1)
             re == ignore[n]
  <2>2. left[n - 1] = regex_erase(text, u) /\ left[n] = regex_erase(left[n - 1], re)
    BY <1>9, <1>11, Zenon
  <2>3. Upto(n) = u \cup re
    BY <2>1
  <2> HIDE DEF u, re, Upto
  <2>4. regex_erase(regex_erase(text, u), re) = regex_erase(text, u \cup re)
    BY EraseTwice
  <2>5. n \in 0 .. w
    BY <1>1
  <2> QED BY <2>2, <2>3, <2>4, <2>5, Zenon
<1> HIDE DEF T
<1>12. \A n \in 0 .. w : n \in T
  BY <1>1, <1>10, <1>11, UpTo
<1>13. w \in T
  BY <1>1, <1>12
<1>14. Upto(w) = UNION Range(ignore)
  BY <1>1, Zenon DEF Range
<1> QED BY <1>7, <1>13, <1>14, Zenon DEF T

-----------------------------------------------------------------------------
(* The rules are those of the directives, the first one of a header.       *)

\* The first n directives that are for a list.
HeaderLines(dirs, list, n) == {i \in 1 .. n : dirs[i].name = "CompareHeader" /\ dirs[i].list = list}
BodyLinesOf(dirs, list, n) == {i \in 1 .. n : dirs[i].name = "CompareBody" /\ dirs[i].list = list}

FirstFor(dirs, list, n, k, i) ==
    /\ i \in HeaderLines(dirs, list, n) /\ dirs[i].key = k
    /\ \A j \in HeaderLines(dirs, list, n) : dirs[j].key = k => i <= j

HeaderHolds(dirs, rules, list, n) ==
    /\ \A k : k \in DOMAIN rules <=> \E i \in HeaderLines(dirs, list, n) : dirs[i].key = k
    /\ \A k \in DOMAIN rules : \E i : FirstFor(dirs, list, n, k, i) /\ rules[k] = dirs[i].re

BodyHolds(dirs, rules, list, n) ==
    /\ \E R : rules \in Seq(R)
    /\ UNION Range(rules) = UNION {dirs[i].re : i \in BodyLinesOf(dirs, list, n)}

Lists == {"stop", "ignore"}

RulesKept(dirs, c, n) ==
    /\ "mCompHeader" \in DOMAIN c /\ "mCompBody" \in DOMAIN c
    /\ Lists \subseteq DOMAIN c.mCompHeader /\ Lists \subseteq DOMAIN c.mCompBody
    /\ HeaderHolds(dirs, c.mCompHeader.stop, "STOP", n) /\ HeaderHolds(dirs, c.mCompHeader.ignore, "IGNORE", n)
    /\ BodyHolds(dirs, c.mCompBody.stop, "STOP", n) /\ BodyHolds(dirs, c.mCompBody.ignore, "IGNORE", n)

RulesInv ==
    /\ scenario \in Scenarios /\ "compare" \in DOMAIN conf
    /\ phase # "refused" =>
        \E n \in 0 .. Len(scenario.directives) :
            /\ todo = SubSeq(scenario.directives, n + 1, Len(scenario.directives))
            /\ RulesKept(scenario.directives, conf.compare, n)
            /\ phase = "running" => n = Len(scenario.directives)

LEMMA NextDirective ==
    ASSUME NEW R, NEW s \in Seq(R), NEW n \in 0 .. Len(s), SubSeq(s, n + 1, Len(s)) # <<>>
    PROVE  /\ n + 1 \in 1 .. Len(s) /\ Head(SubSeq(s, n + 1, Len(s))) = s[n + 1]
           /\ Tail(SubSeq(s, n + 1, Len(s))) = SubSeq(s, n + 2, Len(s))
<1> DEFINE u == SubSeq(s, n + 1, Len(s))
           v == SubSeq(s, n + 2, Len(s))
<1>1. Len(s) \in Nat /\ n \in Nat /\ n <= Len(s)
  OBVIOUS
<1>2. u \in Seq(R) /\ Len(u) = Len(s) - n
  BY <1>1
<1>3. n + 1 \in 1 .. Len(s)
  <2> HIDE DEF u
  <2>1. Len(u) # 0
    BY <1>2 DEF u
  <2> QED BY <1>1, <1>2, <2>1
<1>4. \A i \in 1 .. Len(u) : u[i] = s[i + n]
  BY <1>1
<1>5. v \in Seq(R) /\ Len(v) = Len(s) - n - 1 /\ \A i \in 1 .. Len(v) : v[i] = s[i + n + 1]
  BY <1>1, <1>3
<1> HIDE DEF u, v
<1>6. Head(u) = s[n + 1]
  <2>1. 1 \in 1 .. Len(u) /\ u # <<>> /\ Head(u) = u[1] /\ 1 + n = n + 1
    BY <1>1, <1>2, <1>3
  <2> QED BY <1>4, <2>1
<1>7. Tail(u) \in Seq(R) /\ Len(Tail(u)) = Len(u) - 1 /\ \A i \in 1 .. Len(u) - 1 : Tail(u)[i] = u[i + 1]
  BY <1>1, <1>2, <1>3
<1>8. Tail(u) = v
  <2> DEFINE x == Tail(u)
  <2>1. x \in Seq(R) /\ Len(x) = Len(v)
    BY <1>1, <1>2, <1>5, <1>7
  <2>2. \A i \in 1 .. Len(v) : x[i] = v[i]
    BY <1>1, <1>2, <1>4, <1>5, <1>7
  <2> HIDE DEF x
  <2> QED BY <1>5, <2>1, <2>2, SeqEqual DEF x
<1> QED BY <1>3, <1>6, <1>8 DEF u, v

LEMMA LinesNext ==
    ASSUME NEW dirs, NEW n \in Nat, NEW list
    PROVE  /\ HeaderLines(dirs, list, n) \subseteq HeaderLines(dirs, list, n + 1)
           /\ BodyLinesOf(dirs, list, n) \subseteq BodyLinesOf(dirs, list, n + 1)
           /\ \A i \in HeaderLines(dirs, list, n) : i \in Nat /\ i <= n
           /\ \A i \in HeaderLines(dirs, list, n + 1) : i \in HeaderLines(dirs, list, n) \/ i = n + 1
           /\ \A i \in BodyLinesOf(dirs, list, n + 1) : i \in BodyLinesOf(dirs, list, n) \/ i = n + 1
           /\ n + 1 \in HeaderLines(dirs, list, n + 1) <=> dirs[n + 1].name = "CompareHeader" /\ dirs[n + 1].list = list
           /\ n + 1 \in BodyLinesOf(dirs, list, n + 1) <=> dirs[n + 1].name = "CompareBody" /\ dirs[n + 1].list = list
<1>1. /\ 1 .. n \subseteq 1 .. n + 1 /\ n + 1 \in 1 .. n + 1 /\ \A i \in 1 .. n + 1 : i \in 1 .. n \/ i = n + 1
      /\ \A i \in 1 .. n : i \in Nat /\ i <= n
  OBVIOUS
<1> QED BY <1>1, Zenon DEF HeaderLines, BodyLinesOf

LEMMA HeaderSame ==
    ASSUME NEW dirs, NEW n \in Nat, NEW list, NEW rules, HeaderHolds(dirs, rules, list, n),
           ~(dirs[n + 1].name = "CompareHeader" /\ dirs[n + 1].list = list)
    PROVE  HeaderHolds(dirs, rules, list, n + 1)
<1> DEFINE A == HeaderLines(dirs, list, n)
           B == HeaderLines(dirs, list, n + 1)
<1>1. \A i : i \in HeaderLines(dirs, list, n) <=> i \in HeaderLines(dirs, list, n + 1)
  <2>1. /\ A \subseteq B /\ \A i \in B : i \in A \/ i = n + 1
        /\ n + 1 \in B <=> dirs[n + 1].name = "CompareHeader" /\ dirs[n + 1].list = list
    BY LinesNext
  <2> QED BY <2>1, Zenon
<1> QED BY <1>1, Zenon DEF HeaderHolds, FirstFor

LEMMA HeaderAdded ==
    ASSUME NEW dirs, NEW n \in Nat, NEW list, NEW rules, HeaderHolds(dirs, rules, list, n),
           dirs[n + 1].name = "CompareHeader", dirs[n + 1].list = list
    PROVE  HeaderHolds(dirs, AddRule(rules, dirs[n + 1].key, dirs[n + 1].re), list, n + 1)
<1> DEFINE key == dirs[n + 1].key
           re == dirs[n + 1].re
           new == AddRule(rules, key, re)
           Old == HeaderLines(dirs, list, n)
           New == HeaderLines(dirs, list, n + 1)
<1>1. /\ DOMAIN new = DOMAIN rules \cup {key}
      /\ \A k \in DOMAIN rules : new[k] = rules[k]
      /\ key \notin DOMAIN rules => new[key] = re
  <2> HIDE DEF key, re
  <2> QED BY DEF AddRule
<1>2. /\ n + 1 \in New /\ Old \subseteq New /\ \A i \in New : i \in Old \/ i = n + 1
      /\ \A i \in Old : i <= n + 1
  <2>1. \A i \in Old : i \in Nat /\ i <= n
    BY LinesNext
  <2>2. \A i \in Old : i <= n + 1
    <3> HIDE DEF Old
    <3> QED BY <2>1
  <2>3. /\ Old \subseteq New /\ \A i \in New : i \in Old \/ i = n + 1
        /\ n + 1 \in New <=> dirs[n + 1].name = "CompareHeader" /\ dirs[n + 1].list = list
    BY LinesNext
  <2> QED BY <2>2, <2>3, Zenon
<1>3. n + 1 <= n + 1
  OBVIOUS
<1> HIDE DEF new
<1>4. \A k : k \in DOMAIN new <=> \E i \in New : dirs[i].key = k
  BY <1>1, <1>2, Zenon DEF HeaderHolds
<1>5. ASSUME NEW k \in DOMAIN new PROVE \E i : FirstFor(dirs, list, n + 1, k, i) /\ new[k] = dirs[i].re
  <2>1. CASE k \in DOMAIN rules
    <3>1. PICK i : FirstFor(dirs, list, n, k, i) /\ rules[k] = dirs[i].re
      BY <2>1, Zenon DEF HeaderHolds
    <3>2. FirstFor(dirs, list, n + 1, k, i)
      BY <1>2, <3>1, Zenon DEF FirstFor
    <3> QED BY <1>1, <2>1, <3>1, <3>2, Zenon
  <2>2. CASE k \notin DOMAIN rules
    <3>1. k = key /\ new[k] = re
      BY <1>1, <2>2
    <3>2. \A j \in Old : dirs[j].key # k
      BY <2>2, Zenon DEF HeaderHolds
    <3>3. FirstFor(dirs, list, n + 1, k, n + 1)
      BY <1>2, <1>3, <3>1, <3>2, Zenon DEF FirstFor
    <3> QED BY <3>1, <3>3, Zenon
  <2> QED BY <2>1, <2>2
<1>6. HeaderHolds(dirs, new, list, n + 1)
  BY <1>4, <1>5, Zenon DEF HeaderHolds
<1> QED BY <1>6 DEF new

LEMMA BodySame ==
    ASSUME NEW dirs, NEW n \in Nat, NEW list, NEW rules, BodyHolds(dirs, rules, list, n),
           ~(dirs[n + 1].name = "CompareBody" /\ dirs[n + 1].list = list)
    PROVE  BodyHolds(dirs, rules, list, n + 1)
<1> DEFINE A == BodyLinesOf(dirs, list, n)
           B == BodyLinesOf(dirs, list, n + 1)
<1>1. /\ A \subseteq B /\ \A i \in B : i \in A \/ i = n + 1
      /\ n + 1 \in B <=> dirs[n + 1].name = "CompareBody" /\ dirs[n + 1].list = list
  BY LinesNext
<1>2. A = B
  <2> HIDE DEF A, B
  <2> QED BY <1>1
<1> QED BY <1>2, Zenon DEF BodyHolds

LEMMA BodyAdded ==
    ASSUME NEW dirs, NEW n \in Nat, NEW list, NEW rules, BodyHolds(dirs, rules, list, n),
           dirs[n + 1].name = "CompareBody", dirs[n + 1].list = list
    PROVE  BodyHolds(dirs, Append(rules, dirs[n + 1].re), list, n + 1)
<1> DEFINE re == dirs[n + 1].re
           new == Append(rules, re)
           Old == {dirs[i].re : i \in BodyLinesOf(dirs, list, n)}
           New == {dirs[i].re : i \in BodyLinesOf(dirs, list, n + 1)}
<1>1. PICK R : rules \in Seq(R)
  BY Zenon DEF BodyHolds
<1>2. \A r : r \in New <=> r \in Old \/ r = re
  <2> DEFINE A == BodyLinesOf(dirs, list, n)
             B == BodyLinesOf(dirs, list, n + 1)
  <2>1. /\ A \subseteq B /\ \A i \in B : i \in A \/ i = n + 1
        /\ n + 1 \in B <=> dirs[n + 1].name = "CompareBody" /\ dirs[n + 1].list = list
    BY LinesNext
  <2>2. \A r : (\E i \in B : r = dirs[i].re) <=> (\E i \in A : r = dirs[i].re) \/ r = re
    BY <2>1, Zenon
  <2> QED BY <2>2, Zenon
<1>3. UNION Range(rules) = UNION Old
  BY Zenon DEF BodyHolds
<1> HIDE DEF re, Old, New
<1>4. new \in Seq(R \cup {re})
  BY <1>1
<1>5. \A r : r \in Range(new) <=> r \in Range(rules) \/ r = re
  <2> DEFINE w == Len(rules)
  <2>1. /\ w \in Nat /\ DOMAIN rules = 1 .. w /\ DOMAIN new = 1 .. w + 1 /\ new[w + 1] = re
        /\ \A i \in 1 .. w : new[i] = rules[i]
    BY <1>1
  <2>2. w + 1 \in 1 .. w + 1 /\ 1 .. w \subseteq 1 .. w + 1 /\ \A i \in 1 .. w + 1 : i \in 1 .. w \/ i = w + 1
    BY <2>1
  <2> HIDE DEF new, w
  <2>3. \A r : (\E i \in 1 .. w + 1 : r = new[i]) <=> (\E i \in 1 .. w : r = rules[i]) \/ r = re
    BY <2>1, <2>2, Zenon
  <2> QED BY <2>1, <2>3, Zenon DEF Range
<1> HIDE DEF new
<1>6. UNION Range(new) = UNION New
  <2>1. \A e : e \in UNION Range(new) <=> e \in UNION Range(rules) \/ e \in re
    BY <1>5, Zenon
  <2>2. \A e : e \in UNION New <=> e \in UNION Old \/ e \in re
    BY <1>2, Zenon
  <2>3. \A e : e \in UNION New <=> e \in UNION Range(new)
    BY <1>3, <2>1, <2>2, Zenon
  <2> DEFINE A == UNION Range(new)
             B == UNION New
  <2>4. \A e : e \in A <=> e \in B
    BY <2>3, Zenon
  <2> HIDE DEF A, B
  <2>5. A = B
    BY <2>4
  <2> QED BY <2>5 DEF A, B
<1> QED BY <1>4, <1>6, Zenon DEF BodyHolds, new, re, New

\* Two configurations have the same rules.
SameRules(c, new) ==
    /\ "mCompHeader" \in DOMAIN new /\ "mCompBody" \in DOMAIN new
    /\ new.mCompHeader = c.mCompHeader /\ new.mCompBody = c.mCompBody

LEMMA OtherDirective ==
    ASSUME NEW dirs, NEW n \in Nat, NEW c, RulesKept(dirs, c, n), NEW new, SameRules(c, new),
           dirs[n + 1].name # "CompareHeader", dirs[n + 1].name # "CompareBody"
    PROVE  RulesKept(dirs, new, n + 1)
<1> DEFINE hs == c.mCompHeader.stop
           hi == c.mCompHeader.ignore
           bs == c.mCompBody.stop
           bi == c.mCompBody.ignore
<1>1. /\ HeaderHolds(dirs, hs, "STOP", n) /\ HeaderHolds(dirs, hi, "IGNORE", n)
      /\ BodyHolds(dirs, bs, "STOP", n) /\ BodyHolds(dirs, bi, "IGNORE", n)
  BY Zenon DEF RulesKept
<1> HIDE DEF hs, hi, bs, bi
<1>2. HeaderHolds(dirs, hs, "STOP", n + 1) /\ HeaderHolds(dirs, hi, "IGNORE", n + 1)
  BY <1>1, HeaderSame
<1>3. BodyHolds(dirs, bs, "STOP", n + 1) /\ BodyHolds(dirs, bi, "IGNORE", n + 1)
  BY <1>1, BodySame
<1> QED BY <1>2, <1>3, Zenon DEF RulesKept, SameRules, hs, hi, bs, bi

LEMMA ListTypeOf ==
    ASSUME NEW list \in DOMAIN ListTypes
    PROVE  \/ list = "STOP" /\ ListTypes[list] = "stop"
           \/ list = "IGNORE" /\ ListTypes[list] = "ignore"
BY DEF ListTypes

LEMMA HeaderDirective ==
    ASSUME NEW dirs, NEW n \in Nat, NEW c, RulesKept(dirs, c, n), NEW new,
           dirs[n + 1].name = "CompareHeader", dirs[n + 1].list \in DOMAIN ListTypes,
           new = [c EXCEPT !.mCompHeader[ListTypes[dirs[n + 1].list]] =
                               AddRule(@, dirs[n + 1].key, dirs[n + 1].re)]
    PROVE  RulesKept(dirs, new, n + 1)
<1> DEFINE hs == c.mCompHeader.stop
           hi == c.mCompHeader.ignore
           bs == c.mCompBody.stop
           bi == c.mCompBody.ignore
           list == dirs[n + 1].list
           Added(r) == AddRule(r, dirs[n + 1].key, dirs[n + 1].re)
<1>1. /\ HeaderHolds(dirs, hs, "STOP", n) /\ HeaderHolds(dirs, hi, "IGNORE", n)
      /\ BodyHolds(dirs, bs, "STOP", n) /\ BodyHolds(dirs, bi, "IGNORE", n)
  BY Zenon DEF RulesKept
<1>2. /\ "mCompHeader" \in DOMAIN c /\ "mCompBody" \in DOMAIN c
      /\ Lists \subseteq DOMAIN c.mCompHeader /\ Lists \subseteq DOMAIN c.mCompBody
      /\ {"stop", "ignore"} \subseteq DOMAIN c.mCompHeader
  BY Zenon DEF RulesKept, Lists
<1>3. new = [c EXCEPT !.mCompHeader = [c.mCompHeader EXCEPT ![ListTypes[list]] = Added(c.mCompHeader[ListTypes[list]])]]
  OBVIOUS
<1>4. \/ list = "STOP" /\ ListTypes[list] = "stop"
      \/ list = "IGNORE" /\ ListTypes[list] = "ignore"
  BY ListTypeOf
<1> HIDE DEF Added
<1>5. /\ DOMAIN new = DOMAIN c /\ new.mCompBody = c.mCompBody
      /\ DOMAIN new.mCompHeader = DOMAIN c.mCompHeader
      /\ list = "STOP" => new.mCompHeader.stop = Added(hs) /\ new.mCompHeader.ignore = hi
      /\ list = "IGNORE" => new.mCompHeader.stop = hs /\ new.mCompHeader.ignore = Added(hi)
  <2> HIDE DEF list
  <2> QED BY <1>2, <1>3, <1>4
<1>6. BodyHolds(dirs, bs, "STOP", n + 1) /\ BodyHolds(dirs, bi, "IGNORE", n + 1)
  <2> HIDE DEF bs, bi
  <2> QED BY <1>1, BodySame
<1>7. list = "STOP" => HeaderHolds(dirs, Added(hs), "STOP", n + 1) /\ HeaderHolds(dirs, hi, "IGNORE", n + 1)
  <2> HIDE DEF hs, hi
  <2> SUFFICES ASSUME list = "STOP"
               PROVE  HeaderHolds(dirs, Added(hs), "STOP", n + 1) /\ HeaderHolds(dirs, hi, "IGNORE", n + 1)
    OBVIOUS
  <2>1. HeaderHolds(dirs, AddRule(hs, dirs[n + 1].key, dirs[n + 1].re), "STOP", n + 1)
    BY <1>1, HeaderAdded
  <2>2. HeaderHolds(dirs, hi, "IGNORE", n + 1)
    BY <1>1, HeaderSame
  <2> QED BY <2>1, <2>2 DEF Added
<1>8. list = "IGNORE" => HeaderHolds(dirs, hs, "STOP", n + 1) /\ HeaderHolds(dirs, Added(hi), "IGNORE", n + 1)
  <2> HIDE DEF hs, hi
  <2> SUFFICES ASSUME list = "IGNORE"
               PROVE  HeaderHolds(dirs, hs, "STOP", n + 1) /\ HeaderHolds(dirs, Added(hi), "IGNORE", n + 1)
    OBVIOUS
  <2>1. HeaderHolds(dirs, AddRule(hi, dirs[n + 1].key, dirs[n + 1].re), "IGNORE", n + 1)
    BY <1>1, HeaderAdded
  <2>2. HeaderHolds(dirs, hs, "STOP", n + 1)
    BY <1>1, HeaderSame
  <2> QED BY <2>1, <2>2 DEF Added
<1>9. HeaderHolds(dirs, new.mCompHeader.stop, "STOP", n + 1) /\ HeaderHolds(dirs, new.mCompHeader.ignore, "IGNORE", n + 1)
  BY <1>4, <1>5, <1>7, <1>8, Zenon
<1> QED BY <1>2, <1>5, <1>6, <1>9, Zenon DEF RulesKept

LEMMA BodyDirective ==
    ASSUME NEW dirs, NEW n \in Nat, NEW c, RulesKept(dirs, c, n), NEW new,
           dirs[n + 1].name = "CompareBody", dirs[n + 1].list \in DOMAIN ListTypes,
           new = [c EXCEPT !.mCompBody[ListTypes[dirs[n + 1].list]] = Append(@, dirs[n + 1].re)]
    PROVE  RulesKept(dirs, new, n + 1)
<1> DEFINE hs == c.mCompHeader.stop
           hi == c.mCompHeader.ignore
           bs == c.mCompBody.stop
           bi == c.mCompBody.ignore
           list == dirs[n + 1].list
           Added(r) == Append(r, dirs[n + 1].re)
<1>1. /\ HeaderHolds(dirs, hs, "STOP", n) /\ HeaderHolds(dirs, hi, "IGNORE", n)
      /\ BodyHolds(dirs, bs, "STOP", n) /\ BodyHolds(dirs, bi, "IGNORE", n)
  BY Zenon DEF RulesKept
<1>2. /\ "mCompHeader" \in DOMAIN c /\ "mCompBody" \in DOMAIN c
      /\ Lists \subseteq DOMAIN c.mCompHeader /\ Lists \subseteq DOMAIN c.mCompBody
      /\ {"stop", "ignore"} \subseteq DOMAIN c.mCompBody
  BY Zenon DEF RulesKept, Lists
<1>3. new = [c EXCEPT !.mCompBody = [c.mCompBody EXCEPT ![ListTypes[list]] = Added(c.mCompBody[ListTypes[list]])]]
  OBVIOUS
<1>4. \/ list = "STOP" /\ ListTypes[list] = "stop"
      \/ list = "IGNORE" /\ ListTypes[list] = "ignore"
  BY ListTypeOf
<1> HIDE DEF Added
<1>5. /\ DOMAIN new = DOMAIN c /\ new.mCompHeader = c.mCompHeader
      /\ DOMAIN new.mCompBody = DOMAIN c.mCompBody
      /\ list = "STOP" => new.mCompBody.stop = Added(bs) /\ new.mCompBody.ignore = bi
      /\ list = "IGNORE" => new.mCompBody.stop = bs /\ new.mCompBody.ignore = Added(bi)
  <2> HIDE DEF list
  <2> QED BY <1>2, <1>3, <1>4
<1>6. HeaderHolds(dirs, hs, "STOP", n + 1) /\ HeaderHolds(dirs, hi, "IGNORE", n + 1)
  <2> HIDE DEF hs, hi
  <2> QED BY <1>1, HeaderSame
<1>7. list = "STOP" => BodyHolds(dirs, Added(bs), "STOP", n + 1) /\ BodyHolds(dirs, bi, "IGNORE", n + 1)
  <2> HIDE DEF bs, bi
  <2> SUFFICES ASSUME list = "STOP"
               PROVE  BodyHolds(dirs, Added(bs), "STOP", n + 1) /\ BodyHolds(dirs, bi, "IGNORE", n + 1)
    OBVIOUS
  <2>1. BodyHolds(dirs, Append(bs, dirs[n + 1].re), "STOP", n + 1)
    BY <1>1, BodyAdded
  <2>2. BodyHolds(dirs, bi, "IGNORE", n + 1)
    BY <1>1, BodySame
  <2> QED BY <2>1, <2>2 DEF Added
<1>8. list = "IGNORE" => BodyHolds(dirs, bs, "STOP", n + 1) /\ BodyHolds(dirs, Added(bi), "IGNORE", n + 1)
  <2> HIDE DEF bs, bi
  <2> SUFFICES ASSUME list = "IGNORE"
               PROVE  BodyHolds(dirs, bs, "STOP", n + 1) /\ BodyHolds(dirs, Added(bi), "IGNORE", n + 1)
    OBVIOUS
  <2>1. BodyHolds(dirs, Append(bi, dirs[n + 1].re), "IGNORE", n + 1)
    BY <1>1, BodyAdded
  <2>2. BodyHolds(dirs, bs, "STOP", n + 1)
    BY <1>1, BodySame
  <2> QED BY <2>1, <2>2 DEF Added
<1>9. BodyHolds(dirs, new.mCompBody.stop, "STOP", n + 1) /\ BodyHolds(dirs, new.mCompBody.ignore, "IGNORE", n + 1)
  BY <1>4, <1>5, <1>7, <1>8, Zenon
<1> QED BY <1>2, <1>5, <1>6, <1>9, Zenon DEF RulesKept

\* The n-th directive is read next, and the rules are those of the ones before.
NthNext(n) == /\ n \in Nat /\ d = scenario.directives[n + 1]
              /\ "compare" \in DOMAIN conf /\ RulesKept(scenario.directives, conf.compare, n)

LEMMA DirectiveRules ==
    ASSUME RulesInv, NEW name, NEW accepted, NEW newConf, Directive(name, accepted, newConf),
           ASSUME NEW n, NthNext(n), d.name = name, accepted
           PROVE  "compare" \in DOMAIN newConf /\ RulesKept(scenario.directives, newConf.compare, n + 1)
    PROVE  RulesInv'
<1> DEFINE dirs == scenario.directives
<1>1. /\ phase = "config" /\ todo # <<>> /\ d.name = name /\ scenario' = scenario /\ todo' = Tail(todo)
      /\ (accepted => phase' = phase /\ conf' = newConf) /\ (~accepted => phase' = "refused" /\ conf' = conf)
  BY Zenon DEF Directive
<1>2. CASE ~accepted
  BY <1>1, <1>2, Zenon DEF RulesInv
<1>3. CASE accepted
  <2>1. scenario \in Scenarios /\ dirs \in Seq(Range(dirs)) /\ "compare" \in DOMAIN conf
    BY CompareAssumption, Zenon DEF RulesInv
  <2>2. phase # "refused" /\ phase' = "config"
    BY <1>1, <1>3
  <2>3. PICK n \in 0 .. Len(dirs) : todo = SubSeq(dirs, n + 1, Len(dirs)) /\ RulesKept(dirs, conf.compare, n)
    BY <2>2, Zenon DEF RulesInv
  <2>4. /\ n + 1 \in 1 .. Len(dirs) /\ Head(SubSeq(dirs, n + 1, Len(dirs))) = dirs[n + 1]
        /\ Tail(SubSeq(dirs, n + 1, Len(dirs))) = SubSeq(dirs, n + 2, Len(dirs))
    <3>1. SubSeq(dirs, n + 1, Len(dirs)) # <<>>
      BY <1>1, <2>3, Zenon
    <3> HIDE DEF dirs
    <3> QED BY <2>1, <3>1, NextDirective
  <2>5. NthNext(n)
    <3>1. n \in Nat
      OBVIOUS
    <3> QED BY <2>1, <2>3, <2>4, <3>1, Zenon DEF NthNext, d
  <2>6. "compare" \in DOMAIN newConf /\ RulesKept(dirs, newConf.compare, n + 1)
    BY <1>1, <1>3, <2>5
  <2>7. todo' = SubSeq(dirs, (n + 1) + 1, Len(dirs))
    <3>1. (n + 1) + 1 = n + 2
      OBVIOUS
    <3> QED BY <1>1, <2>3, <2>4, <3>1, Zenon
  <2>8. n + 1 \in 0 .. Len(dirs) /\ phase' # "running"
    <3> HIDE DEF dirs
    <3> QED BY <2>2, <2>4
  <2>9. conf' = newConf /\ scenario' = scenario
    BY <1>1, <1>3
  <2> QED BY <2>1, <2>6, <2>7, <2>8, <2>9, Zenon DEF RulesInv
<1> QED BY <1>2, <1>3

LEMMA RulesStep ==
    ASSUME RulesInv, Configure
    PROVE  RulesInv'
<1> DEFINE dirs == scenario.directives
<1>1. ASSUME NEW n, NthNext(n), d.name # "CompareHeader", d.name # "CompareBody", NEW c,
             "compare" \in DOMAIN c, SameRules(conf.compare, c.compare)
      PROVE  "compare" \in DOMAIN c /\ RulesKept(dirs, c.compare, n + 1)
  <2> DEFINE old == conf.compare
             new == c.compare
  <2>1. n \in Nat /\ RulesKept(dirs, old, n) /\ SameRules(old, new)
        /\ dirs[n + 1].name # "CompareHeader" /\ dirs[n + 1].name # "CompareBody"
    BY <1>1, Zenon DEF NthNext
  <2> HIDE DEF dirs, old, new
  <2>2. RulesKept(dirs, new, n + 1)
    BY <2>1, OtherDirective
  <2> QED BY <1>1, <2>2 DEF new
<1>2. ASSUME NEW n, NthNext(n)
      PROVE  "compare" \in DOMAIN conf /\ "mCompHeader" \in DOMAIN conf.compare /\ "mCompBody" \in DOMAIN conf.compare
  BY <1>2, Zenon DEF NthNext, RulesKept
<1>3. CASE setBodyList
  <2> DEFINE old == conf.compare
             new == [old EXCEPT !.mCompBody[ListTypes[d.list]] = Append(@, d.re)]
             c == [conf EXCEPT !.compare.mCompBody[ListTypes[d.list]] = Append(@, d.re)]
  <2>1. ASSUME NEW n, NthNext(n), d.name = "CompareBody", d.list \in DOMAIN ListTypes /\ d.re # BadRegex
        PROVE  "compare" \in DOMAIN c /\ RulesKept(dirs, c.compare, n + 1)
    <3>1. "compare" \in DOMAIN c /\ c.compare = new
      BY <1>2, <2>1
    <3>2. n \in Nat /\ RulesKept(dirs, old, n) /\ d = dirs[n + 1]
      BY <2>1, Zenon DEF NthNext
    <3>3. /\ dirs[n + 1].name = "CompareBody" /\ dirs[n + 1].list \in DOMAIN ListTypes
          /\ new = [old EXCEPT !.mCompBody[ListTypes[dirs[n + 1].list]] = Append(@, dirs[n + 1].re)]
      BY <2>1, <3>2, Zenon
    <3> HIDE DEF c, new, old, dirs
    <3>4. RulesKept(dirs, new, n + 1)
      BY <3>2, <3>3, BodyDirective
    <3> QED BY <3>1, <3>4, Zenon
  <2> QED BY <1>3, <2>1, DirectiveRules DEF setBodyList
<1>4. CASE setHeaderList
  <2> DEFINE old == conf.compare
             new == [old EXCEPT !.mCompHeader[ListTypes[d.list]] = AddRule(@, d.key, d.re)]
             c == [conf EXCEPT !.compare.mCompHeader[ListTypes[d.list]] = AddRule(@, d.key, d.re)]
  <2>1. ASSUME NEW n, NthNext(n), d.name = "CompareHeader", d.list \in DOMAIN ListTypes /\ d.re # BadRegex
        PROVE  "compare" \in DOMAIN c /\ RulesKept(dirs, c.compare, n + 1)
    <3>1. "compare" \in DOMAIN c /\ c.compare = new
      BY <1>2, <2>1
    <3>2. n \in Nat /\ RulesKept(dirs, old, n) /\ d = dirs[n + 1]
      BY <2>1, Zenon DEF NthNext
    <3>3. /\ dirs[n + 1].name = "CompareHeader" /\ dirs[n + 1].list \in DOMAIN ListTypes
          /\ new = [old EXCEPT !.mCompHeader[ListTypes[dirs[n + 1].list]] =
                                   AddRule(@, dirs[n + 1].key, dirs[n + 1].re)]
      BY <2>1, <3>2, Zenon
    <3> HIDE DEF c, new, old, dirs
    <3>4. RulesKept(dirs, new, n + 1)
      BY <3>2, <3>3, HeaderDirective
    <3> QED BY <3>1, <3>4, Zenon
  <2> QED BY <1>4, <2>1, DirectiveRules DEF setHeaderList
<1>5. CASE setDiffLogType
  <2> DEFINE c == [conf EXCEPT !.compare.mCompareDisabled = d.type = "archive",
                               !.compare.mLogType = IF d.type = "archive" THEN @ ELSE LogTypes[d.type]]
  <2>1. ASSUME NEW n, NthNext(n), d.name = "CompareLogType"
        PROVE  "compare" \in DOMAIN c /\ RulesKept(dirs, c.compare, n + 1)
    <3>1. "compare" \in DOMAIN c /\ SameRules(conf.compare, c.compare)
      BY <1>2, <2>1 DEF SameRules
    <3> HIDE DEF c, dirs
    <3> QED BY <1>1, <2>1, <3>1
  <2> QED BY <1>5, <2>1, DirectiveRules DEF setDiffLogType
<1>6. CASE setDisableLibwsdiff
  <2> DEFINE c == [conf EXCEPT !.compare.mCompareDisabled = d.value]
  <2>1. ASSUME NEW n, NthNext(n), d.name = "DisableLibwsdiff"
        PROVE  "compare" \in DOMAIN c /\ RulesKept(dirs, c.compare, n + 1)
    <3>1. "compare" \in DOMAIN c /\ SameRules(conf.compare, c.compare)
      BY <1>2, <2>1 DEF SameRules
    <3> HIDE DEF c, dirs
    <3> QED BY <1>1, <2>1, <3>1
  <2> QED BY <1>6, <2>1, DirectiveRules DEF setDisableLibwsdiff
<1>7. CASE setCompareLog
  <2> DEFINE c == [conf EXCEPT !.gWriteInFile = d.type = "FILE"]
  <2>1. ASSUME NEW n, NthNext(n), d.name = "CompareLog"
        PROVE  "compare" \in DOMAIN c /\ RulesKept(dirs, c.compare, n + 1)
    <3>1. "compare" \in DOMAIN c /\ SameRules(conf.compare, c.compare)
      BY <1>2, <2>1 DEF SameRules
    <3> HIDE DEF c, dirs
    <3> QED BY <1>1, <2>1, <3>1
  <2> QED BY <1>7, <2>1, DirectiveRules DEF setCompareLog
<1>8. CASE setCompare
  <2> DEFINE c == [conf EXCEPT !.compare.mIsActive = TRUE]
  <2>1. ASSUME NEW n, NthNext(n), d.name = "Compare"
        PROVE  "compare" \in DOMAIN c /\ RulesKept(dirs, c.compare, n + 1)
    <3>1. "compare" \in DOMAIN c /\ SameRules(conf.compare, c.compare)
      BY <1>2, <2>1 DEF SameRules
    <3> HIDE DEF c, dirs
    <3> QED BY <1>1, <2>1, <3>1
  <2>2. PICK argument \in {"readable", "unmapped"} :
            Directive("Compare", argument = "readable" /\ scenario.modules, c)
    BY <1>8, Zenon DEF setCompare
  <2> HIDE DEF c
  <2> QED BY <2>1, <2>2, DirectiveRules
<1>9. CASE setApplicationScope
  <2> DEFINE c == [conf EXCEPT !.migrate.mDirName = TRUE, !.migrate.scope = MigrateScopes[d.scope]]
  <2>1. ASSUME NEW n, NthNext(n), d.name = "MigrateApplicationScope"
        PROVE  "compare" \in DOMAIN c /\ RulesKept(dirs, c.compare, n + 1)
    <3>1. "compare" \in DOMAIN c /\ SameRules(conf.compare, c.compare)
      BY <1>2, <2>1 DEF SameRules
    <3> HIDE DEF c, dirs
    <3> QED BY <1>1, <2>1, <3>1
  <2> QED BY <1>9, <2>1, DirectiveRules DEF setApplicationScope
<1>10. CASE setMigrateEnv
  <2> DEFINE e == [var |-> d.var, re |-> d.re, value |-> d.value, scope |-> conf.migrate.scope]
             c == [conf EXCEPT !.migrate.mDirName = TRUE, !.migrate.mEnvLists = Append(@, e)]
  <2>1. ASSUME NEW n, NthNext(n), d.name = "MigrateEnv"
        PROVE  "compare" \in DOMAIN c /\ RulesKept(dirs, c.compare, n + 1)
    <3>1. "compare" \in DOMAIN c /\ SameRules(conf.compare, c.compare)
      <4> HIDE DEF e
      <4>1. c.compare = conf.compare /\ "compare" \in DOMAIN c
        BY <1>2, <2>1
      <4> HIDE DEF c
      <4> QED BY <1>2, <2>1, <4>1, Zenon DEF SameRules
    <3> HIDE DEF c, dirs
    <3> QED BY <1>1, <2>1, <3>1
  <2> QED BY <1>10, <2>1, DirectiveRules DEF setMigrateEnv
<1>11. CASE postConfig
  <2>1. /\ phase = "config" /\ todo = <<>> /\ phase' \in {"refused", "running"}
        /\ UNCHANGED <<scenario, todo, conf>>
    BY <1>11 DEF postConfig
  <2>2. scenario \in Scenarios /\ dirs \in Seq(Range(dirs)) /\ "compare" \in DOMAIN conf
    BY CompareAssumption, Zenon DEF RulesInv
  <2>3. PICK n \in 0 .. Len(dirs) : todo = SubSeq(dirs, n + 1, Len(dirs)) /\ RulesKept(dirs, conf.compare, n)
    <3>1. phase # "refused"
      BY <2>1
    <3> QED BY <3>1, Zenon DEF RulesInv
  <2>4. n = Len(dirs)
    <3>1. SubSeq(dirs, n + 1, Len(dirs)) = <<>>
      BY <2>1, <2>3, Zenon
    <3> HIDE DEF dirs
    <3>2. Len(SubSeq(dirs, n + 1, Len(dirs))) = Len(dirs) - n /\ Len(dirs) \in Nat
      BY <2>2
    <3>3. Len(<<>>) = 0
      OBVIOUS
    <3>4. Len(dirs) - n = 0
      BY <3>1, <3>2, <3>3, Zenon
    <3> QED BY <3>2, <3>4
  <2> QED BY <2>1, <2>2, <2>3, <2>4, Zenon DEF RulesInv
<1> QED BY <1>3, <1>4, <1>5, <1>6, <1>7, <1>8, <1>9, <1>10, <1>11, Zenon DEF Configure

\* The inductive invariant: the rules are those of the directives that have been
\* read, and all have been when the server runs.
THEOREM RulesInvariant == Spec => []RulesInv
<1>1. Init => RulesInv
  <2> SUFFICES ASSUME Init PROVE RulesInv
    OBVIOUS
  <2> DEFINE dirs == scenario.directives
  <2>1. /\ scenario \in Scenarios /\ todo = dirs /\ phase = "config"
        /\ conf = [compare |-> CompareConf, migrate |-> MigrateConf, gWriteInFile |-> TRUE]
    BY Zenon DEF Init
  <2>2. dirs \in Seq(Range(dirs))
    BY <2>1, CompareAssumption, Zenon
  <2>3. "compare" \in DOMAIN conf /\ conf.compare = CompareConf
    BY <2>1
  <2>4. /\ {"mCompHeader", "mCompBody"} \subseteq DOMAIN CompareConf
        /\ CompareConf.mCompHeader = NoRules /\ CompareConf.mCompBody = NoRules
        /\ DOMAIN NoRules = Lists /\ NoRules.stop = <<>> /\ NoRules.ignore = <<>>
    BY DEF CompareConf, NoRules, Lists
  <2>5. \A list : HeaderLines(dirs, list, 0) = {} /\ BodyLinesOf(dirs, list, 0) = {}
    BY DEF HeaderLines, BodyLinesOf
  <2>6. \A list : HeaderHolds(dirs, <<>>, list, 0)
    <3>1. DOMAIN <<>> = {}
      OBVIOUS
    <3> QED BY <2>5, <3>1, Zenon DEF HeaderHolds
  <2>7. \A list : BodyHolds(dirs, <<>>, list, 0)
    <3>1. <<>> \in Seq({}) /\ Range(<<>>) = {}
      BY DEF Range
    <3> QED BY <2>5, <3>1, Zenon DEF BodyHolds
  <2>8. RulesKept(dirs, conf.compare, 0)
    BY <2>3, <2>4, <2>6, <2>7, Zenon DEF RulesKept
  <2>9. todo = SubSeq(dirs, 0 + 1, Len(dirs)) /\ 0 \in 0 .. Len(dirs)
    <3> HIDE DEF dirs
    <3> QED BY <2>1, <2>2
  <2>10. phase # "running"
    BY <2>1
  <2> QED BY <2>1, <2>3, <2>8, <2>9, <2>10, Zenon DEF RulesInv
<1>2. RulesInv /\ [Next]_vars => RulesInv'
  <2> SUFFICES ASSUME RulesInv, [Next]_vars PROVE RulesInv'
    OBVIOUS
  <2>1. ASSUME UNCHANGED <<scenario, phase, todo, conf>> PROVE RulesInv'
    BY <2>1, Zenon DEF RulesInv
  <2>2. CASE UNCHANGED vars
    BY <2>1, <2>2, Zenon DEF vars
  <2>3. CASE Configure
    BY <2>3, RulesStep
  <2>4. ASSUME NEW t \in Threads, Step(t) PROVE RulesInv'
    <3>1. UNCHANGED <<scenario, phase, todo, conf>>
      BY <2>4, Zenon DEF Step, translateHookCompare, translateHookMigrate, Translated, inputFilterHandler,
         Unpacks, StopsReading, outputFilterHandler, TruncatesLog, PassesOn,
         writeSerializedRequest, outputFilterHandler2, writeDifferences, RecordWritten, PassesAgain,
         Finishes, OnlyRequest, writeDifferencesThrows, WritesRecord
    <3> QED BY <2>1, <3>1, Zenon
  <2>5. ASSUME NEW t \in Threads, Wakes(t) PROVE RulesInv'
    BY <2>1, <2>5, Zenon DEF Wakes
  <2>6. ASSUME NEW p \in Processes, Crash(p) PROVE RulesInv'
    BY <2>1, <2>6, Zenon DEF Crash
  <2> QED BY <2>2, <2>3, <2>4, <2>5, <2>6, Zenon DEF Next
<1> QED BY <1>1, <1>2, PTL DEF Spec

-----------------------------------------------------------------------------
(* The comparison, from the directives.                                    *)

\* The rules of a list are the first directive for each header.
RuleOf(rules, list) == \A k : HeaderRule(list, k) = IF k \in DOMAIN rules THEN {rules[k]} ELSE {}

LEMMA HeaderRuleIs ==
    ASSUME NEW S, scenario.directives \in Seq(S), NEW rules, NEW list,
           HeaderHolds(scenario.directives, rules, list, Len(scenario.directives))
    PROVE  RuleOf(rules, list)
<1> DEFINE dirs == scenario.directives
           w == Len(dirs)
<1> SUFFICES ASSUME NEW k PROVE HeaderRule(list, k) = IF k \in DOMAIN rules THEN {rules[k]} ELSE {}
  BY Zenon DEF RuleOf
<1> DEFINE I == {i \in HeaderLines(dirs, list, w) : dirs[i].key = k}
           F == {i \in I : \A j \in I : i <= j}
<1>1. DOMAIN dirs = 1 .. w /\ w \in Nat
  OBVIOUS
<1>2. I = {i \in DOMAIN dirs : dirs[i].name = "CompareHeader" /\ dirs[i].list = list /\ dirs[i].key = k}
  <2> HIDE DEF w, dirs
  <2>1. \A i : i \in HeaderLines(dirs, list, w) <=>
                i \in DOMAIN dirs /\ dirs[i].name = "CompareHeader" /\ dirs[i].list = list
    BY <1>1, Zenon DEF HeaderLines
  <2> QED BY <2>1
<1>3. HeaderRule(list, k) = {dirs[i].re : i \in F}
  BY <1>2, Zenon DEF HeaderRule
<1>4. I \subseteq Nat
  <2> HIDE DEF w, dirs
  <2> QED BY <1>1 DEF HeaderLines
<1>5. CASE k \in DOMAIN rules
  <2>1. PICK i : FirstFor(dirs, list, w, k, i) /\ rules[k] = dirs[i].re
    BY <1>5, Zenon DEF HeaderHolds
  <2>2. i \in F
    BY <2>1, Zenon DEF FirstFor
  <2>3. \A j \in F : j = i
    <3> SUFFICES ASSUME NEW j \in F PROVE j = i
      OBVIOUS
    <3>1. j \in I /\ i \in I /\ j <= i /\ i <= j
      BY <2>2, Zenon
    <3> HIDE DEF I, F
    <3>2. j \in Nat /\ i \in Nat
      BY <1>4, <3>1
    <3> QED BY <3>1, <3>2
  <2>4. F = {i}
    <3> HIDE DEF F
    <3> QED BY <2>2, <2>3
  <2> HIDE DEF F
  <2> QED BY <1>3, <1>5, <2>1, <2>4
<1>6. CASE k \notin DOMAIN rules
  <2>1. I = {}
    BY <1>6, Zenon DEF HeaderHolds
  <2>2. F = {}
    BY <2>1, Zenon
  <2> HIDE DEF F
  <2> QED BY <1>3, <1>6, <2>2
<1> QED BY <1>5, <1>6

LEMMA checkStopIs ==
    ASSUME NEW stop, RuleOf(stop, "STOP"), NEW map
    PROVE  checkStop(stop, map) <=> \E k \in DOMAIN map : Mentions(map[k], UNION HeaderRule("STOP", k))
<1>1. ASSUME NEW k \in DOMAIN map
      PROVE  Mentions(map[k], UNION HeaderRule("STOP", k)) <=> k \in DOMAIN stop /\ regex_search(map[k], stop[k])
  <2> DEFINE words == map[k]
             re == stop[k]
  <2>1. CASE k \in DOMAIN stop
    <3>1. HeaderRule("STOP", k) = {re}
      BY <2>1, Zenon DEF RuleOf
    <3>2. UNION HeaderRule("STOP", k) = re
      BY <3>1, Zenon
    <3> HIDE DEF words, re
    <3>3. Mentions(words, re) <=> regex_search(words, re)
      BY Zenon DEF Mentions, regex_search, Range
    <3> QED BY <2>1, <3>2, <3>3, Zenon DEF words, re
  <2>2. CASE k \notin DOMAIN stop
    <3>1. HeaderRule("STOP", k) = {}
      BY <2>2, Zenon DEF RuleOf
    <3>2. UNION HeaderRule("STOP", k) = {}
      BY <3>1, Zenon
    <3> QED BY <2>2, <3>2, Zenon DEF Mentions
  <2> QED BY <2>1, <2>2
<1> QED BY <1>1, Zenon DEF checkStop

\* What applyIgnoreRegex leaves of a header.
LEMMA LeftOfIs ==
    ASSUME NEW ignore, RuleOf(ignore, "IGNORE"), NEW map, NEW k
    PROVE  LeftOf(map, k) = IF k \in DOMAIN applyIgnoreRegex(ignore, map)
                            THEN {applyIgnoreRegex(ignore, map)[k]} ELSE {}
<1> DEFINE erased == [e \in DOMAIN map |->
                        IF e \in DOMAIN ignore THEN regex_erase(map[e], ignore[e]) ELSE map[e]]
           D == {e \in DOMAIN map : e \in DOMAIN ignore => erased[e] # <<>>}
           left == applyIgnoreRegex(ignore, map)
<1>1. left = [e \in D |-> erased[e]]
  BY Zenon DEF applyIgnoreRegex, Restrict
<1>2. DOMAIN left = D /\ \A e \in D : left[e] = erased[e]
  <2> HIDE DEF D, erased
  <2> QED BY <1>1, Zenon
<1> HIDE DEF left
<1>3. CASE k \notin DOMAIN map
  <2>1. k \notin D /\ LeftOf(map, k) = {}
    BY <1>3, Zenon DEF LeftOf
  <2> QED BY <1>2, <2>1, Zenon DEF left
<1>4. CASE k \in DOMAIN map /\ k \notin DOMAIN ignore
  <2>1. HeaderRule("IGNORE", k) = {}
    BY <1>4, Zenon DEF RuleOf
  <2>2. LeftOf(map, k) = {map[k]}
    BY <1>4, <2>1, Zenon DEF LeftOf
  <2>3. k \in D /\ erased[k] = map[k]
    BY <1>4
  <2> QED BY <1>2, <2>2, <2>3, Zenon DEF left
<1>5. CASE k \in DOMAIN map /\ k \in DOMAIN ignore
  <2> DEFINE e == regex_erase(map[k], ignore[k])
  <2>1. HeaderRule("IGNORE", k) = {ignore[k]}
    BY <1>5, Zenon DEF RuleOf
  <2>2. LeftOf(map, k) = {regex_erase(map[k], re) : re \in {ignore[k]}} \ {<<>>}
    <3>1. HeaderRule("IGNORE", k) # {}
      BY <2>1, Zenon
    <3> QED BY <1>5, <2>1, <3>1, Zenon DEF LeftOf
  <2>3. LeftOf(map, k) = {e} \ {<<>>}
    <3>1. {regex_erase(map[k], re) : re \in {ignore[k]}} = {e}
      BY Zenon
    <3> QED BY <2>2, <3>1, Zenon
  <2>4. erased[k] = e /\ (k \in D <=> e # <<>>)
    BY <1>5
  <2> HIDE DEF e
  <2>5. CASE e = <<>>
    <3>1. LeftOf(map, k) = {} /\ k \notin D
      BY <2>3, <2>4, <2>5, Zenon
    <3> QED BY <1>2, <3>1, Zenon DEF left
  <2>6. CASE e # <<>>
    <3>1. LeftOf(map, k) = {e}
      BY <2>3, <2>6
    <3>2. k \in D /\ left[k] = e
      BY <1>2, <2>4, <2>6, Zenon
    <3> QED BY <1>2, <3>1, <3>2, Zenon DEF left
  <2> QED BY <2>5, <2>6
<1> QED BY <1>3, <1>4, <1>5

\* The keys that retrieveDiff reports.
LEMMA HeaderDifferencesAre ==
    ASSUME NEW rules, RuleOf(rules.ignore, "IGNORE"), NEW src, NEW dst
    PROVE  {h.key : h \in HeaderDifferences(rules, src, dst)} =
                {k \in DOMAIN src \cup DOMAIN dst : LeftOf(src, k) # LeftOf(dst, k)}
<1> DEFINE ignore == rules.ignore
           a == applyIgnoreRegex(ignore, src)
           b == applyIgnoreRegex(ignore, dst)
           A == MapDifference(a, b)
           B == MapDifference(b, a)
           HD == HeaderDifferences(rules, src, dst)
<1>1. HD = {[key |-> k, src |-> a[k], dst |-> NoValue] : k \in A \ B}
           \cup {[key |-> k, src |-> NoValue, dst |-> b[k]] : k \in B \ A}
           \cup {[key |-> k, src |-> a[k], dst |-> b[k]] : k \in A \cap B}
  BY Zenon DEF HeaderDifferences
<1>2. RuleOf(ignore, "IGNORE") /\ a = applyIgnoreRegex(ignore, src) /\ b = applyIgnoreRegex(ignore, dst)
  OBVIOUS
<1> HIDE DEF ignore
<1>3. \A k : LeftOf(src, k) = IF k \in DOMAIN a THEN {a[k]} ELSE {}
  BY <1>2, LeftOfIs
<1>4. \A k : LeftOf(dst, k) = IF k \in DOMAIN b THEN {b[k]} ELSE {}
  BY <1>2, LeftOfIs
<1>5. DOMAIN a \subseteq DOMAIN src /\ DOMAIN b \subseteq DOMAIN dst
  <2>1. ASSUME NEW map, NEW k \in DOMAIN applyIgnoreRegex(ignore, map) PROVE k \in DOMAIN map
    BY <2>1 DEF applyIgnoreRegex, Restrict
  <2> QED BY <2>1, Zenon
<1> HIDE DEF a, b, HD
<1>6. \A k : k \in A \cup B <=> LeftOf(src, k) # LeftOf(dst, k)
  <2> SUFFICES ASSUME NEW k PROVE k \in A \cup B <=> LeftOf(src, k) # LeftOf(dst, k)
    OBVIOUS
  <2>1. k \in A <=> k \in DOMAIN a /\ (k \in DOMAIN b => a[k] # b[k])
    BY DEF MapDifference
  <2>2. k \in B <=> k \in DOMAIN b /\ (k \in DOMAIN a => a[k] # b[k])
    BY DEF MapDifference
  <2> HIDE DEF A, B
  <2>3. LeftOf(src, k) = (IF k \in DOMAIN a THEN {a[k]} ELSE {}) /\ LeftOf(dst, k) = (IF k \in DOMAIN b THEN {b[k]} ELSE {})
    BY <1>3, <1>4, Zenon
  <2> QED BY <2>1, <2>2, <2>3
<1>7. \A k \in A \cup B : k \in DOMAIN src \cup DOMAIN dst
  BY <1>5, Zenon DEF MapDifference
<1> HIDE DEF A, B
<1>8. {h.key : h \in HD} = A \cup B
  <2>1. \A h \in HD : h.key \in A \cup B
    BY <1>1
  <2>2. \A k \in A \cup B : \E h \in HD : h.key = k
    <3> SUFFICES ASSUME NEW k \in A \cup B PROVE \E h \in HD : h.key = k
      OBVIOUS
    <3> DEFINE h1 == [key |-> k, src |-> a[k], dst |-> NoValue]
               h2 == [key |-> k, src |-> NoValue, dst |-> b[k]]
               h3 == [key |-> k, src |-> a[k], dst |-> b[k]]
    <3>1. h1 \in HD \/ h2 \in HD \/ h3 \in HD
      BY <1>1, Zenon
    <3>2. h1.key = k /\ h2.key = k /\ h3.key = k
      OBVIOUS
    <3> QED BY <3>1, <3>2, Zenon
  <2> QED BY <2>1, <2>2
<1> QED BY <1>6, <1>7, <1>8 DEF HD

LEMMA BodyRulesAre ==
    ASSUME NEW S, scenario.directives \in Seq(S), NEW rules, NEW list,
           BodyHolds(scenario.directives, rules, list, Len(scenario.directives))
    PROVE  UNION Range(rules) = BodyRules(list)
<1> DEFINE dirs == scenario.directives
           w == Len(dirs)
           A == {dirs[i].re : i \in BodyLinesOf(dirs, list, w)}
           B == {r.re : r \in {e \in Range(dirs) : e.name = "CompareBody" /\ e.list = list}}
<1>1. DOMAIN dirs = 1 .. w
  OBVIOUS
<1>2. UNION Range(rules) = UNION A
  BY Zenon DEF BodyHolds
<1>3. BodyRules(list) = UNION B
  BY Zenon DEF BodyRules
<1>4. \A r : r \in A <=> r \in B
  <2> HIDE DEF dirs, w
  <2>1. \A i : i \in BodyLinesOf(dirs, list, w) <=>
                i \in DOMAIN dirs /\ dirs[i].name = "CompareBody" /\ dirs[i].list = list
    BY <1>1, Zenon DEF BodyLinesOf
  <2>2. \A r : r \in A => r \in B
    BY <2>1, Zenon DEF Range
  <2>3. \A r : r \in B => r \in A
    BY <2>1, Zenon DEF Range
  <2> QED BY <2>2, <2>3, Zenon
<1>5. A = B
  <2> HIDE DEF A, B
  <2> QED BY <1>4
<1> QED BY <1>2, <1>3, <1>5, Zenon

LEMMA RangeConcat ==
    ASSUME NEW S, NEW s \in Seq(S), NEW u \in Seq(S), NEW c
    PROVE  c \in Range(s \o u) <=> c \in Range(s) \/ c \in Range(u)
<1> DEFINE m == Len(s)
           n == Len(u)
           v == s \o u
<1>1. /\ m \in Nat /\ n \in Nat /\ DOMAIN s = 1 .. m /\ DOMAIN u = 1 .. n /\ DOMAIN v = 1 .. m + n
      /\ \A i \in 1 .. m : v[i] = s[i]
      /\ \A i \in m + 1 .. m + n : v[i] = u[i - m]
  OBVIOUS
<1> HIDE DEF m, n, v
<1>2. ASSUME NEW i \in 1 .. m PROVE i \in 1 .. m + n /\ v[i] = s[i]
  BY <1>1, <1>2
<1>3. ASSUME NEW i \in 1 .. n PROVE i + m \in 1 .. m + n /\ v[i + m] = u[i]
  <2>1. i + m \in m + 1 .. m + n /\ i + m \in 1 .. m + n /\ (i + m) - m = i
    BY <1>1, <1>3
  <2>2. v[i + m] = u[(i + m) - m]
    BY <1>1, <2>1, Zenon
  <2> QED BY <2>1, <2>2, Zenon
<1>4. ASSUME NEW i \in 1 .. m + n PROVE (i \in 1 .. m /\ v[i] = s[i]) \/ (i - m \in 1 .. n /\ v[i] = u[i - m])
  <2>1. i \in 1 .. m \/ (i \in m + 1 .. m + n /\ i - m \in 1 .. n)
    BY <1>1, <1>4
  <2> QED BY <1>1, <2>1, Zenon
<1>5. (\E i \in 1 .. m + n : v[i] = c) <=> (\E i \in 1 .. m : s[i] = c) \/ (\E i \in 1 .. n : u[i] = c)
  BY <1>2, <1>3, <1>4, Zenon
<1>6. c \in Range(v) <=> (\E i \in 1 .. m : s[i] = c) \/ (\E i \in 1 .. n : u[i] = c)
  BY <1>1, <1>5, Zenon DEF Range
<1> QED BY <1>1, <1>6, Zenon DEF Range, v

LEMMA SearchIs ==
    ASSUME NEW stop, NEW text
    PROVE  checkStopRegex(stop, text) <=> \E c \in Range(text) : c \in UNION Range(stop)
BY Zenon DEF checkStopRegex, regex_search, Range

\* What the comparison of the bodies finds, from the directives.
LEMMA BodyDiffersIs ==
    ASSUME NEW S, scenario.directives \in Seq(S), NEW rules, NEW C, NEW src \in Seq(C), NEW dst \in Seq(C),
           BodyHolds(scenario.directives, rules.stop, "STOP", Len(scenario.directives)),
           BodyHolds(scenario.directives, rules.ignore, "IGNORE", Len(scenario.directives)),
           NEW t, Request(t).originalBody = src, Request(t).answer = dst
    PROVE  BodyDiffers(rules, src, dst) <=> BodiesDiffer(t)
<1> DEFINE stop == rules.stop
           ignore == rules.ignore
           re == BodyRules("STOP")
           ire == BodyRules("IGNORE")
<1>1. /\ BodyHolds(scenario.directives, stop, "STOP", Len(scenario.directives))
      /\ BodyHolds(scenario.directives, ignore, "IGNORE", Len(scenario.directives))
  OBVIOUS
<1>2. BodyDiffers(rules, src, dst) <=>
        /\ ~(checkStopRegex(stop, src) \/ checkStopRegex(stop, dst))
        /\ BodyLines(ignoreCases(ignore, src)) # BodyLines(ignoreCases(ignore, dst))
  BY Zenon DEF BodyDiffers, BodyStopped
<1> HIDE DEF stop, ignore
<1>3. UNION Range(stop) = re /\ UNION Range(ignore) = ire
  BY <1>1, BodyRulesAre
<1>4. PICK R : ignore \in Seq(R)
  BY <1>1, Zenon DEF BodyHolds
<1>5. ignoreCases(ignore, src) = regex_erase(src, ire) /\ ignoreCases(ignore, dst) = regex_erase(dst, ire)
  <2>1. /\ ignoreCases(ignore, src) = regex_erase(src, UNION Range(ignore))
        /\ ignoreCases(ignore, dst) = regex_erase(dst, UNION Range(ignore))
    BY <1>4, ignoreCasesIs
  <2> QED BY <1>3, <2>1, Zenon
<1>6. checkStopRegex(stop, src) \/ checkStopRegex(stop, dst) <=> Mentions(src \o dst, re)
  <2>1. \A text : checkStopRegex(stop, text) <=> \E c \in Range(text) : c \in re
    <3>1. \A text : checkStopRegex(stop, text) <=> \E c \in Range(text) : c \in UNION Range(stop)
      BY SearchIs
    <3> QED BY <1>3, <3>1, Zenon
  <2>2. \A c : c \in Range(src \o dst) <=> c \in Range(src) \/ c \in Range(dst)
    BY RangeConcat
  <2>3. Mentions(src \o dst, re) <=> \E c \in Range(src \o dst) : c \in re
    BY Zenon DEF Mentions
  <2> HIDE DEF re
  <2> QED BY <2>1, <2>2, <2>3, Zenon
<1>7. BodiesDiffer(t) <=> /\ ~Mentions(src \o dst, re)
                          /\ BodyLines(regex_erase(src, ire)) # BodyLines(regex_erase(dst, ire))
  BY Zenon DEF BodiesDiffer
<1> QED BY <1>2, <1>5, <1>6, <1>7, Zenon

\* A request that is through and was comparable.
Through(t) == rq[t].pc = "done" /\ Comparable(t) /\ ~conf.compare.mCompareDisabled

\* What the comparison finds is what is to be logged.
FoundRight(F, t) ==
    /\ {h.key : h \in F.header} = HeaderKeys(t)
    /\ F.header = {} <=> HeaderKeys(t) = {}
    /\ F.body \in BOOLEAN /\ (F.body <=> BodiesDiffer(t))

LEMMA ComparableIs ==
    ASSUME RequestInv, AnswerInv, NEW t \in Serving, Comparable(t), rq[t].pc \notin Reading
    PROVE  /\ rq[t].info.eos = TRUE
           /\ rq[t].info.mResponseHeader = Original(t) /\ rq[t].headersOut = Answered(t)
           /\ rq[t].info.mResponseBody = Request(t).originalBody /\ rq[t].info.mDupResponseBody = Request(t).answer
<1> DEFINE x == rq[t]
           q == Request(t)
<1>1. OriginalKept(x, q) /\ Sending(x, q)
  BY Zenon DEF AnswerInv, AnswerKept
<1>2. WellFormed(q) /\ ~x.cut /\ ~x.unread /\ x.ictx = 1 /\ x.info.eos
  BY Zenon DEF Comparable
<1>3. x.info.mResponseHeader = HeaderMap(HeaderText(q.original)) /\ x.info.mResponseBody = q.originalBody
  BY <1>1, <1>2, Zenon DEF OriginalKept, OriginalIs
<1>4. HeaderMap(HeaderText(q.original)) = Original(t)
  BY OriginalIsLast
<1>5. x.info.eos = TRUE /\ x.unread = FALSE
  BY <1>1, <1>2, Zenon DEF Sending
<1>6. x.headersOut = AnswerOf(q) /\ x.info.mDupResponseBody = q.answer
  BY <1>1, <1>5, Zenon DEF Sending
<1>7. AnswerOf(q) = Answered(t)
  BY Zenon DEF AnswerOf, Answered, WantsLog
<1> QED BY <1>3, <1>4, <1>5, <1>6, <1>7, Zenon

LEMMA RulesWhenRunning ==
    ASSUME RulesInv, phase = "running"
    PROVE  /\ scenario.directives \in Seq(Range(scenario.directives))
           /\ RulesKept(scenario.directives, conf.compare, Len(scenario.directives))
<1>1. phase # "refused"
  OBVIOUS
<1> QED BY <1>1, CompareAssumption, Zenon DEF RulesInv

LEMMA AnsweredWhenRunning ==
    ASSUME EnvInv, NEW t \in Serving, rq[t].pc \notin Reading
    PROVE  phase = "running"
<1> SUFFICES ASSUME phase # "running" PROVE FALSE
  OBVIOUS
<1>1. rq[t] = NewRequest(Request(t), scenario.hooks)
  BY Zenon DEF EnvInv, Fresh
<1>2. NewRequest(Request(t), scenario.hooks).pc \in Reading
  BY DEF NewRequest, Reading
<1> QED BY <1>1, <1>2, Zenon

LEMMA StoppedIs ==
    ASSUME RulesInv, phase = "running", NEW t
    PROVE  HeaderStopped(conf.compare.mCompHeader, Original(t), Answered(t)) <=> HeadersStop(t)
<1> DEFINE stop == conf.compare.mCompHeader.stop
           dirs == scenario.directives
           a == Original(t)
           b == Answered(t)
<1>1. dirs \in Seq(Range(dirs)) /\ HeaderHolds(dirs, stop, "STOP", Len(dirs))
  BY RulesWhenRunning, Zenon DEF RulesKept
<1>2. HeaderStopped(conf.compare.mCompHeader, a, b) <=> checkStop(stop, a) \/ checkStop(stop, b)
  BY Zenon DEF HeaderStopped
<1>3. HeadersStop(t) <=> \/ \E k \in DOMAIN a : Mentions(a[k], UNION HeaderRule("STOP", k))
                         \/ \E k \in DOMAIN b : Mentions(b[k], UNION HeaderRule("STOP", k))
  BY Zenon DEF HeadersStop
<1> HIDE DEF stop, a, b
<1>4. RuleOf(stop, "STOP")
  BY <1>1, HeaderRuleIs
<1>5. /\ checkStop(stop, a) <=> \E k \in DOMAIN a : Mentions(a[k], UNION HeaderRule("STOP", k))
      /\ checkStop(stop, b) <=> \E k \in DOMAIN b : Mentions(b[k], UNION HeaderRule("STOP", k))
  BY <1>4, checkStopIs
<1> QED BY <1>2, <1>3, <1>5, Zenon DEF a, b

LEMMA FoundIsRight ==
    ASSUME RequestInv, AnswerInv, RulesInv, phase = "running",
           NEW t \in Serving, Comparable(t), rq[t].pc \notin Reading
    PROVE  FoundRight(Found(rq[t], conf.compare), t)
<1> DEFINE x == rq[t]
           q == Request(t)
           rules == conf.compare
           R == rules.mCompHeader
           B == rules.mCompBody
           F == Found(x, rules)
           a == Original(t)
           b == Answered(t)
           dirs == scenario.directives
<1>1. /\ x.info.mResponseHeader = a /\ x.headersOut = b
      /\ x.info.mResponseBody = q.originalBody /\ x.info.mDupResponseBody = q.answer
  BY ComparableIs
<1>2. dirs \in Seq(Range(dirs)) /\ RulesKept(dirs, rules, Len(dirs))
  BY RulesWhenRunning
<1>3. /\ F.header = IF HeaderStopped(R, a, b) THEN {} ELSE HeaderDifferences(R, a, b)
      /\ F.body \in BOOLEAN /\ (F.body <=> BodyDiffers(B, q.originalBody, q.answer))
  <2>1. /\ F.header = IF HeaderStopped(R, x.info.mResponseHeader, x.headersOut) THEN {}
                      ELSE HeaderDifferences(R, x.info.mResponseHeader, x.headersOut)
        /\ F.body \in BOOLEAN
        /\ F.body <=> BodyDiffers(B, x.info.mResponseBody, x.info.mDupResponseBody)
    BY FoundIs, Zenon
  <2> QED BY <1>1, <2>1, Zenon
<1>4. HeaderStopped(R, a, b) <=> HeadersStop(t)
  BY StoppedIs
<1>5. {h.key : h \in HeaderDifferences(R, a, b)} = {k \in DOMAIN a \cup DOMAIN b : LeftOf(a, k) # LeftOf(b, k)}
  <2> DEFINE ignore == R.ignore
  <2>1. HeaderHolds(dirs, ignore, "IGNORE", Len(dirs))
    BY <1>2, Zenon DEF RulesKept
  <2> HIDE DEF ignore
  <2>2. RuleOf(ignore, "IGNORE")
    BY <1>2, <2>1, HeaderRuleIs
  <2>3. RuleOf(R.ignore, "IGNORE")
    BY <2>2 DEF ignore
  <2> HIDE DEF R, a, b
  <2> QED BY <2>3, HeaderDifferencesAre
<1>6. F.body <=> BodiesDiffer(t)
  <2> DEFINE src == q.originalBody
             dst == q.answer
             C == Range(src) \cup Range(dst)
  <2>1. IsRequest(q)
    BY CompareAssumption, Zenon DEF RequestInv, Request, Serving
  <2>2. src \in Seq(Range(src)) /\ dst \in Seq(Range(dst))
    BY <2>1, Zenon DEF IsRequest
  <2>3. Request(t).originalBody = src /\ Request(t).answer = dst
    OBVIOUS
  <2>4. BodyHolds(dirs, B.stop, "STOP", Len(dirs)) /\ BodyHolds(dirs, B.ignore, "IGNORE", Len(dirs))
    BY <1>2, Zenon DEF RulesKept
  <2>5. BodyDiffers(B, src, dst) <=> F.body
    BY <1>3, Zenon
  <2> HIDE DEF src, dst, B, F
  <2>6. src \in Seq(C) /\ dst \in Seq(C)
    BY <2>2
  <2> HIDE DEF C
  <2>7. BodyDiffers(B, src, dst) <=> BodiesDiffer(t)
    BY <1>2, <2>3, <2>4, <2>6, BodyDiffersIs
  <2> QED BY <2>5, <2>7, Zenon
<1>7. HeaderKeys(t) = {k \in DOMAIN a \cup DOMAIN b : ~HeadersStop(t) /\ LeftOf(a, k) # LeftOf(b, k)}
  BY Zenon DEF HeaderKeys
<1> HIDE DEF F, R, a, b
<1>8. {h.key : h \in F.header} = HeaderKeys(t)
  <2>1. CASE HeadersStop(t)
    <3>1. F.header = {} /\ HeaderKeys(t) = {}
      BY <1>3, <1>4, <1>7, <2>1, Zenon
    <3> QED BY <3>1
  <2>2. CASE ~HeadersStop(t)
    <3>1. F.header = HeaderDifferences(R, a, b)
      BY <1>3, <1>4, <2>2, Zenon
    <3>2. HeaderKeys(t) = {k \in DOMAIN a \cup DOMAIN b : LeftOf(a, k) # LeftOf(b, k)}
      BY <1>7, <2>2
    <3> QED BY <1>5, <3>1, <3>2, Zenon
  <2> QED BY <2>1, <2>2
<1>9. F.header = {} <=> HeaderKeys(t) = {}
  BY <1>8
<1> QED BY <1>3, <1>6, <1>8, <1>9, Zenon DEF FoundRight, F

\* DifferencesLogged without its exception: also where USAGE.md says something else
\* of the rules, the differences are those that the code takes them to leave.
LoggedAsCoded ==
    \A t \in Serving :
        Through(t) =>
            /\ rq[t].logged <=> HeaderKeys(t) # {} \/ BodiesDiffer(t) \/ rq[t].printer.cassandra # {}
            /\ rq[t].logged => /\ {h.key : h \in rq[t].printer.header} = HeaderKeys(t)
                               /\ rq[t].printer.body = BodiesDiffer(t)

\* A request that is through is in the log exactly if the answers differ in what
\* the code leaves of them or Cassandra had something on it, with these
\* differences and no others: through unpacking, collecting brigade by brigade,
\* outputFilterHandler2 and writeDifferences.
THEOREM DifferencesAsCoded == Spec => []LoggedAsCoded
<1>1. RequestInv /\ EnvInv /\ AnswerInv /\ RulesInv => LoggedAsCoded
  <2> SUFFICES ASSUME RequestInv, EnvInv, AnswerInv, RulesInv, NEW t \in Serving, Through(t)
               PROVE  /\ rq[t].logged <=> HeaderKeys(t) # {} \/ BodiesDiffer(t) \/ rq[t].printer.cassandra # {}
                      /\ rq[t].logged => /\ {h.key : h \in rq[t].printer.header} = HeaderKeys(t)
                                         /\ rq[t].printer.body = BodiesDiffer(t)
    BY Zenon DEF LoggedAsCoded
  <2> DEFINE x == rq[t]
             rules == conf.compare
             F == Found(x, rules)
             p == x.printer
  <2>1. x.pc = "done" /\ Comparable(t) /\ rules.mIsActive /\ ~rules.mCompareDisabled
    BY Zenon DEF Through, Comparable
  <2>2. x.pc \notin Reading /\ x.pc \in Respond
    BY <2>1 DEF Reading, Respond
  <2>3. phase = "running"
    BY <2>2, AnsweredWhenRunning
  <2>4. FoundRight(F, t)
    BY <2>1, <2>2, <2>3, FoundIsRight
  <2>5. Decided(x, F)
    <3>1. Judged(x, rules)
      BY <2>2, Zenon DEF AnswerInv, AnswerKept
    <3>2. x.info.eos = TRUE
      BY <2>1, <2>2, ComparableIs
    <3>3. x.off2 = TRUE
      BY <2>1, <2>2, <3>1, <3>2, Zenon DEF Judged
    <3> QED BY <2>1, <3>1, <3>2, <3>3, Zenon DEF Judged
  <2> HIDE DEF F
  <2>6. CASE x.logged = TRUE
    <3>1. p.header = F.header /\ p.body = F.body /\ (p.header # {} \/ p.body \/ p.cassandra # {})
      BY <2>5, <2>6, Zenon DEF Decided, isDiff
    <3>2. {h.key : h \in p.header} = HeaderKeys(t) /\ (p.header = {} <=> HeaderKeys(t) = {})
      BY <2>4, <3>1, Zenon DEF FoundRight
    <3>3. p.body = BodiesDiffer(t) /\ (p.body <=> BodiesDiffer(t))
      <4>1. BodiesDiffer(t) \in BOOLEAN
        BY Zenon DEF BodiesDiffer
      <4> QED BY <2>4, <3>1, <4>1, Zenon DEF FoundRight
    <3> QED BY <2>6, <3>1, <3>2, <3>3, Zenon
  <2>7. CASE x.logged = FALSE
    <3>1. F.header = {} /\ F.body = FALSE /\ p.cassandra = {}
      BY <2>5, <2>7, Zenon DEF Decided
    <3> QED BY <2>4, <2>7, <3>1, Zenon DEF FoundRight
  <2> QED BY <2>5, <2>6, <2>7, Zenon DEF Decided
<1> QED BY <1>1, RequestInvariant, EnvInvariant, AnswerInvariant, RulesInvariant, PTL

\* The same where USAGE.md and the code agree on what the rules of the directives
\* leave: a request is in the log with the differences that are documented, and
\* with no others (outputFilterHandler2, writeDifferences).
THEOREM DifferencesAreLogged == Spec => []DifferencesLogged
<1>1. LoggedAsCoded => DifferencesLogged
  BY Zenon DEF LoggedAsCoded, DifferencesLogged, Through
<1> QED BY <1>1, DifferencesAsCoded, PTL

-----------------------------------------------------------------------------
(* What Cassandra had on a request is taken when the request is compared.  *)

\* The comparison of x is over, and a header's STOP rule did not silence it.
Loud(x, rules) ==
    \/ ~HeaderStopped(rules.mCompHeader, x.info.mResponseHeader, x.headersOut)
    \/ Found(x, rules).body

Settled(x, rules) ==
    /\ x.pc \notin Reading /\ x.info.eos = TRUE /\ rules.mIsActive /\ ~rules.mCompareDisabled
    /\ x.pc = "write" \/ x.off2 = TRUE
    /\ Loud(x, rules)

\* None of the differences left is one that the request of t found.
NoneOf(left, t) == \A e \in left : e[1] # t

TakenInv == \A t \in Serving : Settled(rq[t], conf.compare) => NoneOf(cassandra[Process[t]], t)

\* A step of t leaves the others' differences, and its own unless they are taken.
LEMMA TakenMoves ==
    ASSUME CassandraInv, TakenInv, NEW t \in Serving, NEW y, DOMAIN rq = Serving, Becomes(t, y),
           UNCHANGED <<scenario, conf>>,
           \A p \in Processes : \A e \in cassandra'[p] : e \in cassandra[p] \/ e[1] = t,
           Settled(y, conf.compare) => NoneOf(cassandra'[Process[t]], t)
    PROVE  TakenInv'
<1>1. Serving' = Serving /\ conf' = conf
  BY Zenon DEF Serving
<1>2. \A u \in Serving : rq'[u] = IF u = t THEN y ELSE rq[u]
  BY DEF Becomes
<1>3. ASSUME NEW u \in Serving, Settled(rq'[u], conf.compare) PROVE NoneOf(cassandra'[Process[u]], u)
  <2>1. CASE u = t
    BY <1>2, <1>3, <2>1, Zenon
  <2>2. CASE u # t
    <3>1. Settled(rq[u], conf.compare)
      BY <1>2, <1>3, <2>2, Zenon
    <3>2. NoneOf(cassandra[Process[u]], u) /\ Process[u] \in Processes
      BY <3>1, ServingThreads, Zenon DEF TakenInv
    <3> QED BY <2>2, <3>2, Zenon DEF NoneOf
  <2> QED BY <2>1, <2>2
<1> QED BY <1>1, <1>3, Zenon DEF TakenInv

\* The step leaves the map of Cassandra, and the request is as settled as before.
LEMMA TakenStays ==
    ASSUME CassandraInv, TakenInv, NEW t \in Serving, NEW y, DOMAIN rq = Serving, Becomes(t, y),
           UNCHANGED <<scenario, conf, cassandra>>,
           Settled(y, conf.compare) => NoneOf(cassandra[Process[t]], t)
    PROVE  TakenInv'
<1>1. \A p \in Processes : \A e \in cassandra'[p] : e \in cassandra[p] \/ e[1] = t
  BY Zenon
<1>2. Settled(y, conf.compare) => NoneOf(cassandra'[Process[t]], t)
  BY Zenon
<1> QED BY <1>1, <1>2, TakenMoves

LEMMA SettledMoves ==
    ASSUME NEW x, Complete(x), NEW y, SameBut(x, y, Moving), NEW rules, x.pc \notin Reading,
           y.pc = "write" \/ y.off2 = TRUE => x.pc = "write" \/ x.off2 = TRUE,
           Settled(y, rules)
    PROVE  Settled(x, rules)
<1>1. y.info = x.info /\ y.headersOut = x.headersOut
  BY DEF SameBut, Moving, Complete, ReadFields, AnswerFields
<1>2. Found(y, rules) = Found(x, rules)
  BY <1>1, Zenon DEF Found
<1> QED BY <1>1, <1>2, Zenon DEF Settled, Loud

\* Steps of an answer before and after the comparison.
LEMMA TakenPasses ==
    ASSUME CassandraInv, AnswerInv, TakenInv, NEW t \in Serving, DOMAIN rq = Serving,
           PassesOn(t) \/ PassesAgain(t) \/ Finishes(t) \/ TruncatesLog(t) \/ RecordWritten(t)
    PROVE  TakenInv'
<1> DEFINE x == rq[t]
<1>1. x.pc \in {"respond", "reopen", "write"} /\ UNCHANGED <<scenario, conf, cassandra>>
  BY Zenon DEF PassesOn, PassesAgain, Finishes, TruncatesLog, RecordWritten, Running, OnlyRequest
<1>2. x.pc \notin Reading
  BY <1>1 DEF Reading
<1>3. Complete(x)
  BY <1>2, Zenon DEF AnswerInv, AnswerKept, OriginalKept
<1>4. ASSUME NEW y, Becomes(t, y), SameBut(x, y, Moving),
             y.pc = "write" \/ y.off2 = TRUE => x.pc = "write" \/ x.off2 = TRUE
      PROVE  TakenInv'
  <2>1. ASSUME Settled(y, conf.compare) PROVE Settled(x, conf.compare)
    <3> DEFINE rules == conf.compare
    <3>1. Settled(y, rules)
      BY <2>1
    <3> HIDE DEF rules, x
    <3>2. Settled(x, rules)
      BY <1>2, <1>3, <1>4, <3>1, SettledMoves
    <3> QED BY <3>2 DEF rules
  <2>2. Settled(y, conf.compare) => NoneOf(cassandra[Process[t]], t)
    BY <2>1, Zenon DEF TakenInv
  <2> QED BY <1>1, <1>4, <2>2, TakenStays
<1>5. CASE PassesOn(t)
  <2> DEFINE y == [x EXCEPT !.toPass = FALSE]
  <2>1. Becomes(t, y)
    BY <1>5, Zenon DEF PassesOn, Passed
  <2>2. SameBut(x, y, Moving) /\ y.off2 = x.off2 /\ y.pc = x.pc
    BY <1>3 DEF SameBut, Moving, Complete, ReadFields, AnswerFields
  <2> HIDE DEF y
  <2> QED BY <1>4, <2>1, <2>2, Zenon
<1>6. CASE PassesAgain(t)
  <2> DEFINE y == [x EXCEPT !.toPass = TRUE, !.again = TRUE]
  <2>1. Becomes(t, y)
    BY <1>6, Zenon DEF PassesAgain
  <2>2. SameBut(x, y, Moving) /\ y.off2 = x.off2 /\ y.pc = x.pc
    BY <1>3 DEF SameBut, Moving, Complete, ReadFields, AnswerFields
  <2> HIDE DEF y
  <2> QED BY <1>4, <2>1, <2>2, Zenon
<1>7. CASE Finishes(t)
  <2> DEFINE y == [x EXCEPT !.pc = "done"]
  <2>1. Becomes(t, y)
    BY <1>7, Zenon DEF Finishes
  <2>2. SameBut(x, y, Moving) /\ y.off2 = x.off2 /\ y.pc # "write"
    BY <1>3 DEF SameBut, Moving, Complete, ReadFields, AnswerFields
  <2> HIDE DEF y
  <2> QED BY <1>4, <2>1, <2>2, Zenon
<1>8. CASE TruncatesLog(t)
  <2> DEFINE y == [x EXCEPT !.pc = "reopen"]
             z == [x EXCEPT !.pc = "respond", !.off = TRUE]
  <2>1. Becomes(t, y) \/ Becomes(t, z)
    BY <1>8, Zenon DEF TruncatesLog
  <2>2. SameBut(x, y, Moving) /\ y.off2 = x.off2 /\ y.pc # "write"
    BY <1>3 DEF SameBut, Moving, Complete, ReadFields, AnswerFields
  <2>3. SameBut(x, z, Moving) /\ z.off2 = x.off2 /\ z.pc # "write"
    BY <1>3 DEF SameBut, Moving, Complete, ReadFields, AnswerFields
  <2> HIDE DEF y, z
  <2> QED BY <1>4, <2>1, <2>2, <2>3, Zenon
<1>9. CASE RecordWritten(t)
  <2> DEFINE y == Compared(x)
  <2>1. x.pc = "write" /\ Becomes(t, y) /\ y = Compared(x)
    BY <1>9, Zenon DEF RecordWritten, Running
  <2> HIDE DEF x, y
  <2>2. SameBut(x, y, Moving)
    BY <1>3, <2>1, ComparedFields
  <2> QED BY <1>4, <2>1, <2>2, Zenon DEF x
<1> QED BY <1>5, <1>6, <1>7, <1>8, <1>9

\* The comparison: nothing is left in the map, or the request goes on to take it.
LEMMA TakenCompares ==
    ASSUME CassandraInv, AnswerInv, TakenInv, NEW t \in Serving, DOMAIN rq = Serving,
           outputFilterHandler2(t)
    PROVE  TakenInv'
<1> DEFINE x == rq[t]
           rules == conf.compare
           F == Found(x, rules)
           y == [x EXCEPT !.pc = "differs", !.printer = F]
           z == Compared(x)
<1>1. /\ x.pc = "respond" /\ ~x.off2 /\ UNCHANGED <<scenario, conf, cassandra>>
      /\ \/ Becomes(t, y)
         \/ Becomes(t, z) /\ (Loud(x, rules) => ~checkCassandraDiff(t))
  BY Zenon DEF outputFilterHandler2, Running, Compares, OnlyRequest, Loud
<1>2. x.pc \notin Reading
  BY <1>1 DEF Reading
<1>3. Complete(x)
  BY <1>2, Zenon DEF AnswerInv, AnswerKept, OriginalKept
<1> HIDE DEF F
<1>4. y.pc # "write" /\ y.off2 = x.off2
  BY <1>3 DEF Complete, AnswerFields
<1>5. SameBut(x, z, Moving)
  <2>1. z = Compared(x)
    OBVIOUS
  <2> HIDE DEF x, z
  <2> QED BY <1>3, <2>1, ComparedFields
<1> HIDE DEF y, z
<1>6. CASE Becomes(t, y)
  <2>1. ~Settled(y, conf.compare)
    BY <1>1, <1>4, Zenon DEF Settled
  <2> QED BY <1>1, <1>6, <2>1, TakenStays
<1>7. CASE Becomes(t, z) /\ (Loud(x, rules) => ~checkCassandraDiff(t))
  <2>1. ASSUME Settled(z, conf.compare) PROVE NoneOf(cassandra[Process[t]], t)
    <3>1. z.info = x.info /\ z.headersOut = x.headersOut
      BY <1>3, <1>5 DEF SameBut, Moving, Complete, ReadFields, AnswerFields
    <3>2. Found(z, rules) = Found(x, rules)
      BY <3>1, Zenon DEF Found
    <3>3. Loud(x, rules)
      BY <2>1, <3>1, <3>2, Zenon DEF Settled, Loud
    <3> QED BY <1>7, <3>3, Zenon DEF checkCassandraDiff, SameId, NoneOf
  <2> QED BY <1>1, <1>7, <2>1, TakenStays
<1> QED BY <1>1, <1>6, <1>7

\* writeCassandraDiff takes all with the id of the request.
LEMMA TakenWrites ==
    ASSUME CassandraInv, TakenInv, NEW t \in Serving, DOMAIN rq = Serving, writeDifferences(t)
    PROVE  TakenInv'
<1> DEFINE p == Process[t]
           taken == {entry \in cassandra[p] : SameId(t, entry)}
<1>1. /\ UNCHANGED <<scenario, conf>> /\ cassandra' = [cassandra EXCEPT ![p] = cassandra[p] \ taken]
      /\ \E y : Becomes(t, y)
  <2>1. writeCassandraDiff(t).left = cassandra[p] \ taken
    BY DEF writeCassandraDiff
  <2> QED BY <2>1, Zenon DEF writeDifferences
<1>2. p \in Processes /\ DOMAIN cassandra = Processes
  BY ServingThreads, Zenon DEF CassandraInv
<1>3. cassandra'[p] = cassandra[p] \ taken /\ \A o \in Processes : o # p => cassandra'[o] = cassandra[o]
  BY <1>1, <1>2
<1>4. NoneOf(cassandra'[Process[t]], t)
  BY <1>3, Zenon DEF NoneOf, SameId
<1>5. \A o \in Processes : \A e \in cassandra'[o] : e \in cassandra[o] \/ e[1] = t
  BY <1>3, Zenon
<1> QED BY <1>1, <1>4, <1>5, TakenMoves

\* The handler finds differences before there is anything to compare.
LEMMA TakenFinds ==
    ASSUME CassandraInv, AnswerInv, TakenInv, NEW t \in Serving, DOMAIN rq = Serving, StopsReading(t)
    PROVE  TakenInv'
<1> DEFINE p == Process[t]
           x == rq[t]
           y == [x EXCEPT !.pc = "respond"]
           found == {<<t, f>> : f \in Request(t).cassandra}
<1>1. /\ UNCHANGED <<scenario, conf>> /\ cassandra' = [cassandra EXCEPT ![p] = cassandra[p] \cup found]
      /\ Becomes(t, y) /\ x.pc = "handle"
  BY DEF StopsReading, Running
<1>2. p \in Processes /\ DOMAIN cassandra = Processes
  BY ServingThreads, Zenon DEF CassandraInv
<1>3. \A e \in found : e[1] = t
  OBVIOUS
<1> HIDE DEF found
<1>4. cassandra'[p] = cassandra[p] \cup found /\ \A o \in Processes : o # p => cassandra'[o] = cassandra[o]
  BY <1>1, <1>2
<1>5. \A o \in Processes : \A e \in cassandra'[o] : e \in cassandra[o] \/ e[1] = t
  BY <1>3, <1>4, Zenon
<1>6. Complete(x) /\ x.off2 = FALSE
  <2>1. x.pc \in Reading
    BY <1>1 DEF Reading
  <2> QED BY <2>1, Zenon DEF AnswerInv, AnswerKept, OriginalKept, Untouched
<1>7. y.pc # "write" /\ y.off2 = x.off2
  BY <1>6 DEF Complete, AnswerFields
<1> HIDE DEF x, y
<1>8. ~Settled(y, conf.compare)
  <2>1. y.off2 # TRUE
    BY <1>6, <1>7
  <2> QED BY <1>7, <2>1, Zenon DEF Settled
<1> QED BY <1>1, <1>5, <1>8, TakenMoves

\* An answer that is still collected has not been compared.
LEMMA TakenCollects ==
    ASSUME CassandraInv, AnswerInv, TakenInv, NEW t \in Serving, DOMAIN rq = Serving, outputFilterHandler(t)
    PROVE  TakenInv'
<1> DEFINE x == rq[t]
<1>1. x.pc = "respond" /\ ~x.ended /\ UNCHANGED <<scenario, conf, cassandra>>
  BY Zenon DEF outputFilterHandler, Running, OnlyRequest
<1>2. x.pc \notin Reading /\ x.pc # "write"
  BY <1>1 DEF Reading
<1>3. Sending(x, Request(t)) /\ Judged(x, conf.compare) /\ Complete(x)
  BY <1>2, Zenon DEF AnswerInv, AnswerKept, OriginalKept
<1>4. x.off2 # TRUE
  <2>1. x.info.eos \in BOOLEAN /\ x.info.eos # TRUE
    BY <1>1, <1>3, Zenon DEF Sending
  <2>2. x.info.eos = FALSE
    BY <2>1
  <2>3. x.off2 = FALSE
    BY <1>3, <2>2, Zenon DEF Judged
  <2> QED BY <2>3
<1>5. PICK y, data : \E b \in AnswerBrigades(x) : Becomes(t, y) /\ Took(x, y, b, data)
  BY <1>3, outputFilterTakes, Zenon
<1>6. ~Settled(y, conf.compare)
  BY <1>2, <1>4, <1>5, Zenon DEF Took, Settled
<1>7. Becomes(t, y)
  BY <1>5
<1> QED BY <1>1, <1>6, <1>7, TakenStays

LEMMA TakenStep ==
    ASSUME RequestInv, CassandraInv, AnswerInv, TakenInv, NEW t \in Threads, Step(t)
    PROVE  TakenInv'
<1>1. DOMAIN rq = Serving
  BY Zenon DEF RequestInv
<1>2. CASE writeDifferencesThrows(t) \/ WritesRecord(t)
  BY <1>2, Zenon DEF writeDifferencesThrows, WritesRecord, TakenInv, Serving
<1>3. CASE ~(writeDifferencesThrows(t) \/ WritesRecord(t))
  <2> DEFINE q == Request(t)
             m == Migrates
  <2>1. t \in Serving
    BY <1>3, Zenon DEF Step, translateHookCompare, translateHookMigrate, Translated, inputFilterHandler,
       Unpacks, StopsReading, outputFilterHandler, TruncatesLog, PassesOn,
       writeSerializedRequest, outputFilterHandler2, writeDifferences, RecordWritten, PassesAgain,
       Finishes, Running
  <2>2. Reads(rq[t], q, m) /\ OriginalKept(rq[t], q)
    BY <2>1, Zenon DEF RequestInv, AnswerInv, AnswerKept
  <2>3. IsRequest(q)
    BY <2>1, CompareAssumption, Zenon DEF RequestInv, Request, Serving
  <2>4. q = Request(t)
    OBVIOUS
  <2> HIDE DEF q, m
  <2>5. ASSUME \E y : StillReads(t, y, q), UNCHANGED <<scenario, conf, cassandra>> PROVE TakenInv'
    <3>1. PICK y : StillReads(t, y, q)
      BY <2>5
    <3>2. Becomes(t, y) /\ ~Settled(y, conf.compare)
      BY <3>1, Zenon DEF StillReads, Settled
    <3> QED BY <1>1, <2>1, <2>5, <3>2, TakenStays
  <2>6. CASE translateHookCompare(t) \/ translateHookMigrate(t) \/ Translated(t)
    <3>1. \E y : StillReads(t, y, q)
      BY <2>1, <2>2, <2>6, translateStay
    <3>2. UNCHANGED <<scenario, conf, cassandra>>
      BY <2>6, Zenon DEF translateHookCompare, translateHookMigrate, Translated, OnlyRequest
    <3> QED BY <2>5, <3>1, <3>2, Zenon
  <2>7. CASE inputFilterHandler(t)
    <3>1. \E y : StillReads(t, y, q)
      BY <2>1, <2>2, <2>7, inputFilterStay
    <3>2. UNCHANGED <<scenario, conf, cassandra>>
      BY <2>7, Zenon DEF inputFilterHandler, OnlyRequest
    <3> QED BY <2>5, <3>1, <3>2, Zenon
  <2>8. CASE Unpacks(t)
    <3>1. \E y : StillReads(t, y, q)
      BY <2>1, <2>2, <2>3, <2>4, <2>8, extractStay
    <3>2. UNCHANGED <<scenario, conf, cassandra>>
      BY <2>8, Zenon DEF Unpacks, OnlyRequest
    <3> QED BY <2>5, <3>1, <3>2, Zenon
  <2>9. CASE StopsReading(t)
    BY <1>1, <2>1, <2>9, TakenFinds
  <2>10. CASE outputFilterHandler(t)
    BY <1>1, <2>1, <2>10, TakenCollects
  <2>11. CASE TruncatesLog(t) \/ PassesOn(t) \/ RecordWritten(t) \/ PassesAgain(t) \/ Finishes(t)
    BY <1>1, <2>1, <2>11, TakenPasses
  <2>12. CASE writeSerializedRequest(t)
    <3>1. \E y : Becomes(t, y)
      BY <2>12, Zenon DEF writeSerializedRequest
    <3>2. PICK y : Becomes(t, y)
      BY <3>1
    <3>3. UNCHANGED <<scenario, conf, cassandra>> /\ ~Settled(y, conf.compare)
      BY <2>12, Zenon DEF writeSerializedRequest, Settled
    <3> QED BY <1>1, <2>1, <3>2, <3>3, TakenStays
  <2>13. CASE outputFilterHandler2(t)
    BY <1>1, <2>1, <2>13, TakenCompares
  <2>14. CASE writeDifferences(t)
    BY <1>1, <2>1, <2>14, TakenWrites
  <2> QED BY <1>3, <2>6, <2>7, <2>8, <2>9, <2>10, <2>11, <2>12, <2>13, <2>14, Zenon DEF Step
<1> QED BY <1>2, <1>3

\* The inductive invariant: a request that has been compared has left nothing in
\* the map of its process that was found during it.
THEOREM TakenInvariant == Spec => []TakenInv
<1>1. ASSUME NEW q, NEW hooks, NEW rules PROVE ~Settled(NewRequest(q, hooks), rules)
  <2>1. NewRequest(q, hooks).pc \in Reading
    BY DEF NewRequest, Reading
  <2> QED BY <2>1, Zenon DEF Settled
<1>2. Init => TakenInv
  <2> SUFFICES ASSUME Init PROVE TakenInv
    OBVIOUS
  <2>1. rq = [t \in Serving |-> NewRequest(Request(t), scenario.hooks)]
    BY Zenon DEF Init
  <2>2. \A t \in Serving : rq[t] = NewRequest(Request(t), scenario.hooks)
    BY <2>1, Zenon
  <2> QED BY <1>1, <2>2, Zenon DEF TakenInv
<1>3. RequestInv /\ EnvInv /\ CassandraInv /\ AnswerInv /\ TakenInv /\ [Next]_vars => TakenInv'
  <2> SUFFICES ASSUME RequestInv, EnvInv, CassandraInv, AnswerInv, TakenInv, [Next]_vars PROVE TakenInv'
    OBVIOUS
  <2>1. ASSUME UNCHANGED <<scenario, conf, rq, cassandra>> PROVE TakenInv'
    BY <2>1, Zenon DEF TakenInv, Serving
  <2>2. CASE UNCHANGED vars
    BY <2>1, <2>2, Zenon DEF vars
  <2>3. CASE Configure
    <3>1. phase = "config" /\ UNCHANGED <<scenario, rq>>
      BY <2>3, Zenon DEF Configure, setBodyList, setHeaderList, setDiffLogType, setDisableLibwsdiff, setCompareLog,
         setCompare, setApplicationScope, setMigrateEnv, postConfig, Directive
    <3>2. \A t \in Serving : rq[t] = NewRequest(Request(t), scenario.hooks)
      <4>1. phase # "running"
        BY <3>1
      <4> QED BY <4>1, Zenon DEF EnvInv, Fresh
    <3>3. Serving' = Serving
      BY <3>1, Zenon DEF Serving
    <3>4. ASSUME NEW t \in Serving PROVE ~Settled(rq[t], conf'.compare)
      BY <1>1, <3>2, Zenon
    <3> QED BY <3>1, <3>3, <3>4, Zenon DEF TakenInv
  <2>4. ASSUME NEW t \in Threads, Step(t) PROVE TakenInv'
    BY <2>4, TakenStep
  <2>5. ASSUME NEW t \in Threads, Wakes(t) PROVE TakenInv'
    BY <2>1, <2>5, Zenon DEF Wakes
  <2>6. ASSUME NEW p \in Processes, Crash(p) PROVE TakenInv'
    BY <2>1, <2>6, Zenon DEF Crash
  <2> QED BY <2>2, <2>3, <2>4, <2>5, <2>6, Zenon DEF Next
<1> QED BY <1>2, <1>3, RequestInvariant, EnvInvariant, CassandraInvariant, AnswerInvariant, PTL DEF Spec

\* What the handler of a request found in Cassandra is no longer in the map when
\* the request is through, unless a STOP rule for a header silenced a request
\* whose bodies are equal: outputFilterHandler2 comes after the handler, and
\* checkCassandraDiff or writeCassandraDiff sees what it left.
THEOREM CassandraIsComplete == Spec => []CassandraComplete
<1>1. RequestInv /\ EnvInv /\ AnswerInv /\ RulesInv /\ TakenInv => CassandraComplete
  <2> SUFFICES ASSUME RequestInv, EnvInv, AnswerInv, RulesInv, TakenInv, NEW t \in Serving, Through(t),
                      ~HeadersStop(t) \/ BodiesDiffer(t)
               PROVE  Gone(t) = {<<t, f>> : f \in Request(t).cassandra}
    BY Zenon DEF CassandraComplete, Through
  <2> DEFINE x == rq[t]
             rules == conf.compare
             F == Found(x, rules)
  <2>1. x.pc = "done" /\ Comparable(t) /\ rules.mIsActive /\ ~rules.mCompareDisabled
    BY Zenon DEF Through, Comparable
  <2>2. x.pc \notin Reading /\ x.pc \in Respond
    BY <2>1 DEF Reading, Respond
  <2>3. phase = "running"
    BY <2>2, AnsweredWhenRunning
  <2>4. FoundRight(F, t)
    BY <2>1, <2>2, <2>3, FoundIsRight
  <2>5. x.info.eos = TRUE /\ x.info.mResponseHeader = Original(t) /\ x.headersOut = Answered(t)
    BY <2>1, <2>2, ComparableIs
  <2>6. x.off2 = TRUE
    <3>1. Judged(x, rules)
      BY <2>2, Zenon DEF AnswerInv, AnswerKept
    <3> QED BY <2>1, <2>2, <2>5, <3>1, Zenon DEF Judged
  <2>7. HeaderStopped(rules.mCompHeader, x.info.mResponseHeader, x.headersOut) <=> HeadersStop(t)
    <3>1. HeaderStopped(rules.mCompHeader, Original(t), Answered(t)) <=> HeadersStop(t)
      BY <2>3, StoppedIs
    <3> QED BY <2>5, <3>1, Zenon
  <2>8. Loud(x, rules)
    BY <2>4, <2>7, Zenon DEF FoundRight, Loud
  <2>9. NoneOf(cassandra[Process[t]], t)
    BY <2>1, <2>2, <2>5, <2>6, <2>8, Zenon DEF Settled, TakenInv
  <2> QED BY <2>9 DEF NoneOf, Gone
<1> QED BY <1>1, RequestInvariant, EnvInvariant, AnswerInvariant, RulesInvariant, TakenInvariant, PTL
=============================================================================
