# TLA+ models of mod_dup

mod_dup is an Apache module that duplicates live HTTP requests to other servers
without slowing down the original ones. Two companions live in the same
repository: mod_compare, which receives a duplicate together with the original
answer and compares it with its own, and mod_migrate, which redirects requests
on their body. This directory holds TLA+ models of the code, the TLC
configurations that check them and proofs checked by TLAPS. `PROJECT.json` maps
each definition to the lines of source it models.

## The system

| part | state | operations | talks to |
|---|---|---|---|
| request queue (`MultiThreadQueue.*`) | deque, drop size, three counters, running flag, mutex, condition variable | `push`, `push_front`, `pop`, `size`, `setDropSize`, `getCounters`, `stop` | called by request threads, workers, manager, main thread |
| thread pool (`ThreadPool.*`) | list of threads, number being killed, limits, running flag | `start`, `stop`, `push`, the manager's `run` (`collectKilled`, `newThread`, `poisonThread`, statistics) | owns the queue and the workers |
| worker (`RequestProcessor::run`, `runOne`) | its curl handle, the request it works on, two atomic counters | `initCurl`, pop, match, send | the queue, the destinations (HTTP) |
| filter chain (`filters_dup.cc`, `RequestInfo.*`, `Utils.*`) | one `RequestInfo` per request, a context per filter | input filter, output body filter, output headers filter, `initiateDuplication` | called back by Apache; pushes to the pool or runs `runOne` itself; `RequestInfo` is shared with the worker |
| matching and substitution (`RequestProcessor.cc`) | commands by location and destination | `matchesFilter`, `substituteRequest`, `toDuplicateInt` | reads the request; the filters are shared by all workers |
| configuration (`mod_dup.cc`) | `DupConf`, global pool and processor | one function per directive, `childInit`, `cleanUp` | builds the commands; starts and stops the pool |
| dup format (`RequestProcessor.cc`, `deserialize.cc`) | none | `Serialize`, `sendDupFormat`, `addOrigHeaders`, `deserializeBody` | mod_dup to mod_compare |
| mod_compare (`filters_compare.cc`, `mod_compare.cc`, `response_diff.cc`, `libws_diff/`) | per request `RequestInfo`, a difference log shared by all processes behind a global mutex | translate hook, input and output filters, comparison, logging | receives duplicates |
| mod_migrate (`filters_migrate.cc`, `mod_migrate.cc`) | the body read in advance, environment variables | translate hook, body to brigade filter | Apache |
| Cassandra differences (`CassandraDiff.*`, `response_diff.cc`) | a map by request id, shared by the threads of a process | add (by the application's handler), check, report and erase | mod_compare |
| URL codecs (`UrlCodec.cc`), logging (`Log.cc`) | none | formatting | all |

What is hard here is concurrency (four kinds of threads around one queue, with
some accesses outside the lock), resizing a pool with poison pills that travel in
the same bounded queue as the requests, shutdown while workers are inside curl
calls, Apache's order of callbacks, filters that all workers share and write to, a
mutex that processes create on first use and may be killed holding, and text that is
cut, parsed and rebuilt at every stage. The hazards are listed in `PROJECT.json`,
each at the line where it bites, with the properties that watch it.

What makes each part correct:

* queue: no wakeup lost, bound respected, counters exact;
* pool: no request lost, duplicated or reordered, minimum and maximum of threads
  kept, pills and threads accounted for, shutdown ends and stops everything;
* filter chain: handed over once, complete, never touched afterwards; loops end;
* configuration: whatever the order of the directives, a filter gets what it needs
  and the processor exists;
* matching: prevent filters win, a request goes to exactly the destinations whose
  filters find it, as often as the percentage says, rewritten by their rules only;
* dup format: deserialising gives back what was serialised, in whatever pieces;
* mod_compare: the differences that the rules leave are logged and no others,
  records of two processes do not mix, nobody waits for a dead owner of the mutex;
* mod_migrate: the body read in advance is given back unchanged.

## Modules

* `MultiThreadQueue` - the queue under its most general client. `push`,
  `push_front` and `pop` are split where another thread can see the middle: inside
  the critical section the deque is changed and a counter loaded (`PushBegin`,
  `PushFrontBegin`, `PopBegin`); at its end the counter is stored and the mutex
  released (`PushEnd`, `PopEnd`); `NotifyOne` follows without the mutex. `PopWait`
  and `SpuriousWakeup` are the condition variable. `size()` and `getCounters()`
  take no lock in the code and none here: `size()` may return any of `TornSizes`
  while a thread is inside, and `getCounters()` is six separate accesses.
* `ThreadPool` extends it with the threads: the main thread (`Start` ...
  `JoinManager`), request threads (`ClientPush` ...), workers (`InitCurl` ...
  `FinishRequest`) and the manager, whose program counter `mpc` follows the loop of
  `ThreadPool::run`. `fate` is a history variable: what became of each request.
  `mBeingKilled` and `mThreads.size() - mBeingKilled` are unsigned of their width.
  The comparison of the float `lQueuedPerThread` with the limits is kept as the two
  booleans the manager uses after `collectKilled()` (`load`).
* `DupService` - what the pool promises: a bounded FIFO that refuses or gives up a
  request only when crowded.
* `DupRequest` - one request through the three filters, handed over to a worker or
  run synchronously, and the chain of servers that duplicate it again. The pool
  appears as what `DupService` says of it: a pushed request is queued or dropped,
  then taken or evicted. Bodies are sequences of numbered buckets; of the headers
  only X_DUP_LOG and X-DUP-COUNT are kept. Apache is external: the content handler
  produces any brigades and reads the body whenever it likes, and the filters
  between the two output filters may hold brigades back and merge them.
* `DupRules` - filters, prevent filters, substitutions, percentages and url codecs as
  operators. Text is a sequence of words, with separators and escapes as words of
  their own, a regular expression the set of words it finds, a scope the set of the
  parts of a request it names. `matchesFilter` returns a reference to the filter it
  found and the text it stores in `mMatch`.
* `DupProcess` extends it with state: the directives of `mod_dup.cc`, one action each,
  read in order; then `runOne` in several threads, split where threads can meet:
  matching a destination, assigning the shared `tFilter::mMatch` (`storeMatch`), reading it
  back (`addValidationHeadersDup`), each curl call and each count. Two threads that use
  the string at once is undefined behaviour: the reader gets either value or neither
  (`Torn`). Scenarios give the directives and the requests as `DupRequest` leaves them.
* `DupFormat` - the three sections with their lengths, written and read, with every
  exception of the reader. Digits and width are constants.
* `LibWsDiff` - the comparison of header maps and bodies with STOP and IGNORE rules.
* `Migrate` - the variables mod_migrate sets and the filter that gives the body back.
* `CompareLog` - writing a record: creating, mapping, locking and unlocking the shared
  mutex, the stream of each process with its buffer and position, syslog, kills and
  `comp_truncate`. Two threads of a process that use the stream at once (`Races`), because one of
  them writes the late line end of an archive or because the mutex was locked too early, is
  undefined behaviour: the part that is written may be lost, be repeated or take the place of what
  was in the buffer (`BuffersAfter`), and the history `torn` remembers it. Locking a mutex that its creator has not initialised is undefined
  behaviour: without memory the process dies, zeroed memory acts as a plain mutex whose
  sleepers may never be woken (`LockSleeps`, `LockWakes`).
* `Compare` composes the last four: directives of both modules, translate hooks,
  input filters, both output filters, Cassandra's differences and the record, for
  several threads in several processes. The network cuts the body anyhow and may fail
  at any read and be read again; in `extractBrigadeContent` a bucket may be unreadable as
  well. That function takes every failure for the end of the body, and the rest may still
  be read later. Two histories say what happened: `failed`, a read of the network failed,
  and `cut`, a part of the body was lost or taken for all of it. The handler reads what it
  likes, also after an error, and the filters between the two output filters hold
  brigades back.
* `MCMultiThreadQueue`, `MCQueueCounters`, `MCThreadPool`, `MCDupProcess`, `MCCompare` -
  instances for TLC.
* `MultiThreadQueueProofs`, `ThreadPoolProofs`, `PoolAccountingProofs`, `PoolServiceProofs`,
  `DupRequestProofs`, `DupProcessProofs`, `CompareProofs` (the mutex, the dup format and
  what the handler reads), `CompareRecordsProofs` (the log, Cassandra's differences and
  the types) - theorems.

Definitions named `Faulty...` are not part of the models. Each is the definition
after it with a plausible bug, and some property must notice it.

## Runs

| run | checks | bounds |
|---|---|---|
| `queue` | `QueueTypeOK`, `NoLostWakeup`, `QueueBounded` | 3 threads making any call, drop sizes 0, 1, 2, queue length at most 3, counters modulo 2 so that they wrap |
| `pool` | `ImplementsService`, `TypeOK`, `PillsFirst`, `KillAccounting`, `MinimumKept`, `ThreadsListed`, `RequestsAccounted` | 2 request threads, 3 requests, 1 to 2 workers, queue of 2, torn sizes 0 and 9 |
| `pool_faults` | `EnoughPills` | as above with 1 request, `curl_easy_init` may fail, so `mBeingKilled` wraps |
| `pool_live` | `StopReturns`, `WorkersEnd`, `RequestsServed` | 1 request thread, 2 requests, 1 to 2 workers |
| `dup_request` | `TypeOK`, `ExactlyOnce`, `AnswerComplete`, `BodyIsPrefix`, `StatusReported`, `ChainBounded`, `AnswerFrozen` | 2 body buckets, 2 brigades, 2 curl calls, chains up to 5 |
| `dup_process` | `TypeOK`, `FiltersServed`, `DuplicatesExact`, `PatternFromRequest`, `DuplicatesIndependent`, `ArgumentsKept`, `HeadersOnce`, `DuplicatesCounted` | 2 threads, 2 destinations, 2 locations; families of configurations: any two of six rules in any two of four scopes, raw filters in every scope, substitutions with every type and codec, percentages from 0 to 250, two threads on the same filters, stops and stat lines, refused directives |
| `compare` | `TypeOK`, `RequestRestored`, `EnvMatches`, `DifferencesLogged`, `CassandraReported`, `CassandraComplete`, `LogExclusive`, `RecordsKept`, `RecordsWhole`, `WritersProceed` | 3 threads in 2 processes, one of which may be killed; sections of at most 3 characters; records of 3 parts; families of scenarios: bodies and malformed bodies with and without mod_migrate, short ones while reads of brigades and buckets fail, variables, rules and answers, statuses, equal ids, every form of log with and without an existing mutex, refused directives |
| `stop_leaves_workers` | `StopStopsWorkers` is violated | 1 worker |
| `pool_minimum` | `MinimumThreads` is violated | `curl_easy_init` may fail |
| `queue_counters` | `CountersExact` is violated | 2 threads, 3 events |
| `dup_status` | `StatusTruthful` is violated | one hop |
| `dup_null` | `ProcessorExists` is violated | configurations with one or two directives |

Why these bounds are enough to be interesting: with a queue of 2 places and 3
requests the queue is full, refuses, and gives up its last request to a pill; with
2 workers and a minimum of 1 the pool grows, shrinks, collects and grows again,
and pills meet threads that are busy, waiting, dying and dead; with 3 threads on
the bare queue a notification can be taken by the wrong one. Two brigades are
enough for the headers filter to run before and after the end of stream, and to
find two brigades waiting when it does. In the pool runs `CounterMod` is 1: the
statistics are written and never read by the pool, so their values are collapsed
there and studied in `queue_counters`.

In `dup_process` the values of `random_r` are 0, 49, 50 and 99, on both sides of every
percentage used; numbers wrap at 20000 instead of 2^32, above the limit of 10000 they
are compared with. In `compare` numbers have two binary digits instead of eight decimal
ones, so that sections of length 0, 3 (the largest) and 4 (which does not fit) occur;
the modules ask for 3 cells at a time and the handler for 1 or 4, so that pieces end
before, at and after the boundaries of sections; a stream buffers 2 parts of a record
of 3, so that a buffer goes out in the middle of one; one kill is enough to leave the
mutex at every stage of its creation and use to the threads that remain.

Deadlock is checked in the runs of the queue, the pool and the request chain; the
pool and the request may only stop in `Terminated`. The runs of `DupProcess` and `Compare` end when all
requests are served and do not check it; `WritersProceed` says that they get there.

### What the violated properties show

* `StopStopsWorkers`: `stop()` is documented to stop the manager and all workers,
  but it joins the manager only, and the manager gives each worker 10 ms once. A
  worker in a curl call outlives `stop()`, and `cleanUp` deletes the pool, the queue
  and the processor it is using.
* `MinimumThreads`: a worker whose `initCurl()` fails ends by itself; it is collected
  as if it had been killed (`mBeingKilled` wraps) and not replaced until the load
  passes the maximum per thread.
* `CountersExact`: `getCounters()` races with the increments: events are lost or
  reported twice.
* `StatusTruthful`: with substitutions the calls are made on a copy of the
  `RequestInfo`, so a client that sent X_DUP_LOG reads "No Duplication, No
  Comparison" after a duplication.
* `ProcessorExists`: `init()` is documented to run on the first config call, but `Dup`,
  `DupSync`, `DupDuplicationType` and `DupErrorLogBodyMatch` do not call it. A location
  with `DupDuplicationType` alone is active and its first request uses a null processor.

### What the conditions of passing properties leave out

Some properties of `dup_process` and `compare` hold under a condition which says what the code does
not give: `PatternFromRequest` excludes threads that overlapped on the same filter
(`raced`); `ArgumentsKept` excludes values with a separator, which `encode` leaves
unescaped, and an argument with neither key nor value, which is dropped when the text is read again
(`Expressible`; it also leaves out escapes that the constant `Escaped` of an instance does not
escape again, as the real function does); `HeadersOnce` is about names in the same case and exempts X-MATCHED-PATTERN, of which there is
one for each filter that matched; `LogExclusive` and
`WritersProceed` exclude a mutex that was locked between its creation and its
initialisation (`early`); `RecordsKept` and `RecordsWhole` exclude a log that
`comp_truncate` reopened. `RecordsKept` also excludes the records of a process in which two threads used
the stream at once (`torn`): the archive's destructor writes to it after the unlock, and an early mutex
excludes nobody. The property says that there is no other way to such a race.
`RecordsWhole` is about logs without archives, and not after an `early` lock. The model has one location
and so one form of record; where one location archives and another logs differences to the same
file, the late line end of an archive can fall into a difference, and nothing is claimed of that.

`RequestRestored` and `EnvMatches` exclude a body of which a part was lost (`cut`). `extractBrigadeContent`
takes a read that fails, of a brigade or of a bucket, for the end of the body and
says nothing of it to its callers. If the network can be read again after that, the handler is
given what is left of the serialized text behind the unpacked body, or a body with a hole in it. A
failure in mod_migrate's filter after it gave a piece back in the same call loses this piece too.
Failures that reach the handler as errors are not excluded, and it may read on after them.

`CassandraComplete` excludes a STOP rule for a header that silences a request
whose bodies are equal. `DifferencesLogged` excludes answers on which the code and the
manual disagree (`AsDocumented`):

* `docs/USAGE.md:128` says of a STOP rule for headers that "mod_compare will stop the comparison as soon as it
  finds that the indicated header matches the reg_ex", and `:141` the same of a body line. `outputFilterHandler2`
  compares the headers and then the bodies whatever came of the headers, and logs what either finds: a STOP rule
  for headers silences the headers and leaves the body, one for the body leaves the headers.
* `docs/USAGE.md:139` says that with an IGNORE rule "mod_compare will ignore in the comparison the body line which
  matches the reg_ex". `ignoreCases` (`libws_diff/stringCompare.cc:41`) erases the text that matches
  and leaves the rest of the line: with the manual's own `BodyList "IGNORE" "Date"` two bodies with different dates differ.

The scenarios have answers of both kinds, and in those that are left STOP and IGNORE rules for headers
and bodies do apply. What the code does in all cases is proved (`DifferencesAsCoded`). `DifferencesLogged` says that a difference in the status alone is not
logged: `outputFilterHandler2` asks for it and `writeDifferences` drops it. It also
has the headers X_DUP_LOG and X-MATCHED-PATTERN, which mod_dup adds to the original
answer, and X-COMP-STATUS, which mod_compare adds to the new one, among the differences
unless a rule ignores them, as in the code.

### Fairness

`Scheduling` is weak fairness of each thread: of the manager, of the main thread
inside `start()` and `stop()`, of each worker except for the end of its curl call,
and of a request thread inside `push`. It is what the operating system gives to
runnable threads. Nothing forces requests to arrive or `stop()` to be called.
`CurlCallsEnd` is separate and a hypothesis of two properties: it holds when
DupTimeout is set, not when it is left at 0. `StopReturns` does without it, which
contradicts the remark in `ThreadPool::stop` that the process "can be stuck here":
it is not, at the price of `StopStopsWorkers`.

In `Compare` every thread of a living process is scheduled (`WF_vars(Step(t))`) and the
configuration is read. Nothing is assumed of kills, nor of the waking of a thread that
sleeps on an uninitialised mutex. A robust mutex is taken from a dead owner by whoever
locks it next, which is a step of that thread.

Weak fairness is enough for the pool's mutex in the run: under it a thread waiting for
the mutex gets it when it is free for good, and in the instance the other threads
run out of calls. The live run has no torn sizes: with them the manager may take
the mutex again and again for new pills, and weak fairness does not keep it from
starving a worker. It also has a minimum of one thread: with none,
`RequestsServed` fails by a livelock in which each new worker gets to the queue only
after the manager has sent it a pill.

## Proofs

TLAPS proves the following for every value of the constants, from the named
assumptions of the modules. They are what the code or the configuration gives: the sets of
threads and of objects are finite or disjoint, the limits are naturals with minimum at
most maximum, the widths exceed twice the number of threads, a buffer holds something,
every thread belongs to a process, nobody is called `Nobody`, and the shared memory is in
one of its five states when the server starts. Of the data they say that text is a
finite sequence and so are the directives, that digits differ from each other and from header lines, that an
original header is one that a line can carry (`IsRequest`), that a request has finitely many
headers, that Apache calls the translate hook of a module once (`HookOrders`), that a read asks for
something, that random numbers are below 100, and what Apache's table of directives
gives to their functions: a percentage is a number in range or none, a filter is of one
of the two kinds, a replacement is a text (`DirectiveOK`). Of Apache's escapes they say that
unescaping undoes escaping, which leaves no `+` and no `&`, and that upper case is no
separator (`CodecAssumption`). TLC evaluates them in every run.

### The queue and the pool

* `QueueTypeCorrect`, `QueueIsBounded`: inductive given the types. The bound needs
  that the drop size is set only while the queue is unused.
* `NoWakeupIsLost`: `NoLostWakeup` is inductive given the types, because it counts:
  when a thread waits, the queue is no longer than the number of threads about to
  notify or to pop. The step follows the cardinality of that set: a push adds a
  waker with the object, `notify_one` trades the notifier for a woken thread, a pop
  takes away at most one of each, and a thread goes to sleep only when the queue
  is empty.
* `PoolImplementsQueue`: every step of the pool is a step of the most general client
  or leaves the queue alone, so `Spec => QueueSpec`; `PoolQueueSafe` carries the
  queue's theorems over.
  It rests on `NotStarted`: before `start()` nobody has touched the queue, so that
  the drop size is set while it is unused.
* `PoolTypeCorrect`, from the inductive invariant of `PoolTypeInv`: `TypeOK` alone is
  not inductive and needs that a thread leaving `pop()` has an object in hand
  (`PopHolds`) and that a worker inside a curl call has a call left (`CurlHasCall`).
* `PillsComeFirst`: pills form a prefix of the queue; `push` appends a request behind
  it, `push_front` extends it, eviction and `pop` shorten an end.
* `ThreadListCorrect`: the list is a duplicate-free enumeration of the existing
  threads, at most `mMaxThreads` long. Erasing at the iterator keeps it. The
  strengthening (`WorkerCalls`) says that a worker inside the queue is an idle one.
* `KillsAccounted`, `MinimumIsKept`: proved together (`Killed`), because neither is
  inductive alone: that a pill is not evicted by another one needs that fewer pills
  are queued than there are threads, hence that `mBeingKilled` counts them. Under
  both is `Base`: the theorems above, an empty hand outside of `pop()` (`EmptyHands`), a
  request in every worker at work (`AtWork`) and what `start()` did (`Started`). Since
  pills come first, their number is where the requests begin, and the lemmas
  `PillsAfterPush`, `PillsAfterPill` and `PillsAfterPop` say what each call does to it.
* `PillsAreEnough`: after the loop every living worker has a pill in the queue or one
  the final loop is still to push (`PillsToCome`). It does not need `Killed`, and so
  holds where `curl_easy_init` fails.
* `NoRequestLost`: the queued requests are at one place of the deque each and the taken
  ones with one worker each (`Accounted`); what the property says follows.
* `PoolImplementsService`: every step of the pool is a step of `DupService` or a
  stutter, with the requests behind the pills (`RequestsOf`) as its queue. The step that
  is hard is the refusal: a full queue must be crowded in the sense of `DupService`, which
  leaves room for the pills of the threads above the minimum only, so `MinimumKept`
  bounds the pills as long as the pool is up (`FullIsCrowded`).

`KillsAccounted`, `MinimumIsKept` and `PoolImplementsService` assume that
`curl_easy_init` does not fail (`InitCurlMayFail = FALSE`), as the run `pool` does. This is a
fact about the code, not about the proof: a worker that ends without a pill is joined
and taken off `mBeingKilled`, which then wraps, and the run `pool_minimum` shows what follows.

### The filter chain

All seven properties of `DupRequest` (`RequestTypeCorrect`, `HandedOverOnce`,
`AnswersAreComplete`, `BodiesArePrefixes`, `StatusIsReported`, `ChainsEnd`, and the action property
`AnswersAreFrozen`) follow from one invariant, `RequestInvariant`. Its heart is `Flow`: how the end of the response,
the contexts of the two output filters, the brigades between them and the thread that
is in `initiateDuplication` determine whether the request was handed over. `BodyKept` and
`AnswerKept` add what the `RequestInfo` holds, `StatusKept` what became of the calls, and
`Calls` the count that goes out, which is one more than the one that came in.

### The directives

`FiltersAreServed`, from `DirectivesInvariant`: `FiltersServed` is not inductive because the type that the
next filter will take comes from `DupConf`; it needs that this type is not above the
highest one either (`ConfOK`). Directives, locations and destinations are arbitrary.

### Matching and sending

All eight properties of `DupProcess` are proved, for any directives, requests, locations,
destinations and number of threads. All of them rest on what the directives leave behind
(above) and on `WorkInvariant`, which says what a thread holds at each step of `runOne`: the
destinations left and matched are among those of its location, every entry of `matched`
names a filter that exists, a thread in a curl call has a destination and a number of calls to make,
and until the matching is over the request is the one that was handed over.

* `TypeCorrect`: from `WorkInvariant`, the counts and the directives.
* `DuplicatesAreCounted`, from `CountInvariant`: the calls of all threads are a finite set, whose
  cardinality a curl call raises by one together with the set of threads about to
  count. Reading and resetting the count is one step, as in the code (an atomic
  exchange), or the sum would not be kept.
* `PatternsFromRequest`, from `PatternInvariant`: as long as `raced` is false, what a thread is about to
  assign to `mMatch`, what the filters it has matched hold there, and what it has read
  back was found in its own request. The middle part is what another thread can break, and each
  way to break it sets `raced`. That what `matchesFilter` returns was found in the request
  is a lemma about the first key, filter and part that match.
* `DuplicatesAreExact`, from `ExactInvariant`: a destination is still to be tried, or it is in `matched`
  exactly when `ToDuplicate` holds, or its turn has come or is over; in the turn, what was sent and
  what is still to be sent lie between the two bounds of the percentage, unless the
  pool was stopped. The property says what a destination should get by the rules of
  `Prevented` and of the regular filters, not by the order in which `matchesFilter` tries
  them; that the two agree is a lemma.
* `DuplicatesAreIndependent` and `HeadersSentOnce`, from `CallInvariant`: what a thread has sent
  was made from the request as it was handed over by the substitutions of the
  destination, because `runOne` works on a copy for each and adds only to the headers of the answer.
  That `addOrigHeaders` repeats no header is a lemma about `Pick`, the entries of a
  list that a loop does not skip.
* `ArgumentsAreKept`, from `CallInvariant`: the query string of a duplicate is read again as the
  substituted arguments. `RoundTrip` says that `decode` undoes `encode` word by word for both codecs,
  `KeyValBack` that the first `=` of what `ArgText` writes is the one it put there, `TokensAppend`
  that a separator and a token after a text add one start and leave the others (`StartsMore`, `TokenKept`);
  `TokensJoin` follows `join` along its recursion by the least step that could fail. Keys come back
  because `parseArgs` left them in upper case and without `=` (`ArgOK`), and the substitutions keep that.

### The log of mod_compare

* `OneWriterAtATime`, from `LogInvariant`: a thread in its critical section owns the mutex (`Owns`). What
  makes it inductive is `Creators`: `O_EXCL` gives one creator, `shm` follows its steps, so
  `pthread_mutex_init`, which forgets the owner, runs once and before any lock (or
  after one that `early` records); and `DeadOwner`: a mutex taken over with EOWNERDEAD was that of
  a dead process, which is in no critical section.
* `RecordsAreWhole`, from `RecordsInvariant`: a record in the log that stops in the middle is the last one
  and its writer is still writing, or the one after it found a dead writer (`Chained`).
  This needs the buffers: the stream of a process holds back only parts of the record
  its thread inside the critical section is writing, in order and up to the last one
  written (`Unflushed`), which is so because the last part is flushed before the unlock; and
  that records are all of one form as the directives are (`Alike`). A second invariant,
  `OneRecordInvariant`, says that a location that archives requests never writes a
  difference, and that a request begins at most one record; it follows a request through
  every filter.
* `RecordsAreKept`, from `KeptInvariant` and `TornInvariant`: of the parts of a thread, those it has written are
  in the file or in the stream of its process, once, in order, and those in the file
  first (`Fits`), and none is in the stream once the record is over. Without the stream
  this is not inductive, because any thread of the process writes the parts of all of
  them out. It needs that a request
  begins one record (`OneRecordInvariant`), that a stream is open for appending
  (`Placed`), which `comp_truncate` ends, and that no two threads of the process used the stream at
  once: then a part is appended and nothing else happens to the buffer (`NoRace`). `TornInvariant`
  says when that is so. A thread that uses the stream is in its critical section or at the
  line end of an archive; two in their critical sections contradict `LogExclusive`, unless the
  mutex was locked too early, and an archive that was begun stays one (`Formed`, `Archives`).

### What the handler reads

`RequestIsRestored`, from `RequestInvariant`: the handler reads the original body, whole when it is told
so, although the text is cut by the network, read ahead by mod_migrate, collected and unpacked by
mod_compare and given back in pieces of the handler's choice, and although reads may fail and be
repeated, as long as no failure was taken for the end of the body (`cut`).

* The arithmetic: a length that fits is written on `SectionWidth` digits of any base and read
  back as the same number (`NumberKept`). Writing divides and reading multiplies, so the
  proof follows both digit by digit, with the number without its last digits
  (`Quotients`) as the value read so far.
* Parsing: `deserializeBody` of the packed text gives the body of the request back, and
  of a text that was cut it gives the body or fails; it never gives another body (`Restores`).
* `RequestRestored` is not inductive: it says nothing of the bytes on their way. `RequestInv`
  says for each stage of a request where they are: what mod_migrate holds and the
  network has left make up the text (`Translating`), or what the handler got and the
  rest (`Passing`), or what mod_compare has collected and the rest (`Collecting`), or the
  handler got the first `offset` bytes of the unpacked body and nothing is behind it
  (`Reinjecting`). Which of them applies is decided by the Duplication-Type header, which no filter changes.
  Reads that fail and are repeated leave all of this as it is; where a part is lost, `cut` is set in the same step and
  the stages say nothing more. An error comes from the network only (`failed`), or follows a `cut`.

The provers have no induction over data, and these facts are about functions defined by recursion on
numbers. `UpTo` replaces it: a set of numbers that has 0 and with every
number below a bound the next one has all up to the bound, because otherwise the rest has a least
element (`WFMin`, which has no operator as a parameter). `Iteration` uses it to show that a function
defined by recursion exists, and each fact about one is an application of `UpTo`
to the set of numbers for which it holds. `DupProcessProofs` takes least elements in the same way, for `Pick` and for `FlattenSeq`.

### The variables of mod_migrate

`EnvIsSet`, from `EnvInvariant`: the variables are those for which the rules find something in the query
string, in the whole body and in the headers, each with the value of the last rule and
text that match.

* `enrichContextIs` says what the loop of the code computes for any list of rules: after the first
  `n` texts of all rules, the variables are those set by these texts (`EnvAfter`), for
  every `n` by `UpTo`. The property is stated without a loop.
* `EnvMatches` is not inductive. While the hooks are called, the headers are those of the
  request, or mod_compare has changed them, according to which hook came first (`HooksAt`); that the
  body mod_migrate looks at is the whole text comes from `Translating` in `RequestInvariant`; and
  until the server runs no request has begun (`Fresh`), so that no rule is added after
  a request was looked at. A read that fails while the body is read is the exception (`cut`): mod_migrate
  then sets the variables from what it has, as the code does.

### Cassandra's differences and the types of mod_compare

* `CassandraIsReported`, from `CassandraInvariant`: a difference that a handler found is, once its request was
  read, in the map of its process or in exactly one record, of a request with its
  id. What makes it inductive is where it was found (`FoundIn`): the entries of a request are
  added once, before it is compared, so that none comes back after it was reported; and a
  request has one record, which `OneRecordInvariant` gives.
* `TypeCorrect`: the offset of mod_compare and the position of mod_migrate stay inside what they give
  back (from `RequestInvariant`), a stream is written out when its buffer is full (`TypeInv`), and only
  a request in its second output filter, or past it, has a record (`UnderWay`, `OneRecord`).

### The differences in the log

`DifferencesAreLogged` and `CassandraIsComplete` compare what the records hold with a definition that
knows neither maps, nor folds, nor filters, only the directives and the two answers as they were sent.
The first is `DifferencesAsCoded`, which is about all answers, restricted to those on which the manual agrees.

* `AnswerInvariant` follows both answers to the comparison. The original one is what `HeaderMap` and the
  body section give once the request is unpacked, and stays so (`OriginalKept`); of the new one, what
  was collected and what is to come make it up, whatever the size of the brigades (`Sending`); and
  after the comparison the record has what `Found` gives, or nothing is logged because there is nothing
  (`Judged`). A brigade that holds the end of the answer is not lost before it reaches the
  second filter, which is why a request that is through has been compared.
* `RulesInvariant` says what the lists hold after the first `n` directives: for a header the first
  directive with its key (`HeaderHolds`; the code's `std::map::insert` leaves the older one), for the body
  all of them (`BodyHolds`).
* Lemmas say what the loops compute, by `UpTo`: the header map has the last line for each key
  (`OriginalIsLast`), erasing the words of one expression and then those of another erases those of
  both (`EraseTwice`), so a list of ignored expressions is one expression (`ignoreCasesIs`), and the
  header keys that differ are those of either answer of which the rules leave something
  different (`HeaderDifferencesAre`).
* `CassandraIsComplete`, from `TakenInvariant`: a request that was compared, and not silenced by a STOP
  rule, has left in the map nothing that was found during it. The two critical sections
  of the code cannot disagree on these entries: they were added before the comparison, so
  `checkCassandraDiff` sees them unless another request took them, and then `writeCassandraDiff` takes all.

### What is only model-checked

Liveness (`StopReturns`, `WorkersEnd`, `RequestsServed`, `WritersProceed`), which is out of the
prover's reach. Every other property of the passing runs is a theorem.

Some definitions have the form they have because the prover cannot see through
another one: `Assigned` and `Updated` of `DupProcess` and `With` of `Compare` stand for `:>` and `@@`,
`Pick` of `DupRules` for `SelectSeq`, `Largest` and `Quotients` of `DupFormat` for powers of the base,
`setNthVar` of `Migrate` for the body of a loop in a loop, `HeaderMap` of `DupFormat` and `regex_erase` and
`ignoreCases` of `LibWsDiff` are recursive functions where a fold or `SelectSeq` would do, and brigades in
`Compare` are records where they could be tuples.

## Plan

All parts with state of their own are modelled, and every safety property of the passing runs is
proved. What is left is to keep them in step with the code.

## Not modelled

* Logging and the layout of what the difference printers write; the overloads of
  libws_diff that mod_compare does not call; the diff algorithm (dtl, vendored), of
  which only whether it finds a difference matters.
* `CompareConf::merge`, `mergeDirConfig` and `destroyGlobalMutex`, which are not
  registered with Apache or not called.
* Apache, APR, boost and curl themselves, beyond the calls they make and return;
  failures of `ftruncate`, `mmap` and `apr_brigade_write`, which need exhausted memory.
* What a directive stored before it failed: the server does not start then.
* The build, tests, tools and vendored code.

Data races on `bool` flags (`mQueue.isRunning()`, `mRunning`) are modelled as reads and
writes that take effect at once. The race of the input filter with a worker that
already sends the request (see the hazards) is in `DupRequest` as an interleaving of
whole appends and reads.
