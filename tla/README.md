# gopoller in TLA+

Models of [gopoller](https://github.com/seankndy/gopoller), a Go library that
polls network services: it executes *checks* when they are due, derives
*incidents* from the results and passes both to *handlers*.  The modules are
translated from the source files named in each; TLC checks them on small
instances, and TLAPS proves every safety property and both refinements that TLC
checks, for any instance.

## 1. The system

### Components

| component | source | state | operations |
|---|---|---|---|
| server | `server/server.go` | channels `pendingChecks` and `runningLimiter`, `runningChecks`, a WaitGroup, the goroutines | `Run`, cancelled through its `ctx` |
| check execution | `check/check.go` | a check's `Executed`, `LastCheck`, `LastResult`, `Incident` | `Execute` |
| results, incidents | `check/result.go`, `check/incident.go` | states OK, WARN, CRIT, UNKNOWN; an incident's from, to, resolved | `justifiesNewIncidentForCheck`, `Overrides`, `MakeIncidentFromResults`, `Resolve` |
| schedule | `check/check.go` | `IntervalSeconds` | `DueAt`, `IsDue` |
| memory queue | `memqueue/queue.go` | `checks` by due second, `priorities`, `minPriority`, `total` | `Enqueue`, `Dequeue`, `Flush`, `Count`, `All` |
| buffered queue | `bufqueue/queue.go` | a memory queue and `pendingEnqueued`, between a provider and an enqueuer | `Enqueue`, `Dequeue`, `Flush`, a ticker goroutine |
| SNMP getter, counters | `snmp/*.go` | none between calls | `Get`, `CalculateCounterDiff`, `ToBigInt` |
| snmp command | `check/command/snmp` | none of its own: the metrics in `LastResult` | `Run` |
| smtp command | `check/command/smtp` | the connection in the global `DefaultClient` | `Run`; `Connect`, `Cmd`, `Close` |
| other commands | `check/command/{dns,http,ping,junsubpool,ciscoresources}` | none | `Run` |
| handlers | `check/handler/{rrdcached,statsd,dummy}` | the default dialer's `Timeout` | `Mutate`, `Process` |

### How they interact

The populator goroutine of the server calls `Queue.Dequeue` and sends the check
on `pendingChecks`; the main loop receives it, takes a token from
`runningLimiter` and starts a worker goroutine, which calls `Check.Execute` and
then `Queue.Enqueue`.  `Execute` calls the command in the worker's goroutine and
the handlers' `Process` in one goroutine each; they share the check and the
result without a lock.  The buffered queue adds a ticker goroutine, which passes
the checks on to a backend, and shares its list with the workers under a mutex.
Smtp commands that were given no client share `DefaultClient`, whichever worker
runs them; the other commands share nothing.  An snmp command finds its previous
readings in the check's `LastResult` and the time of them in its `LastCheck`, both
written by `Execute`.

### What is hard, and what makes each part correct

* **server**: three kinds of goroutines hand a `*Check` to each other and none
  locks it.  A check must have one owner at a time; the tokens and the WaitGroup
  must count the goroutines exactly; the populator must not block with a check
  in hand; a shutdown must end, must bring every check back, and must not start
  new ones without bound.
* **check execution**: incidents are decided from the result, the last result
  and the last incident, any of which may be nil, over an unbounded history.
  At most one incident is open, it is about the present state, and a handler
  never sees the check change under it; the errors of all handlers arrive
  though the channel has no buffer.
* **memory queue**: three views of one queue move together; the due time is
  found outside the lock and filed by the second; order must still be that of
  the due seconds.
* **buffered queue**: a check passes through seven places on its way from the
  backend and back; it must be in exactly one at any moment, and be stored in
  the end.
* **snmp command**: the value and the time a rate starts from must belong
  together whatever failed in between; roll-overs; a division by elapsed seconds.
* **smtp command**: the connection is a field that every method loads anew for
  each call, so that another worker may replace it between two calls; responses
  are read in turns; a deferred `Close` replaces the error.  A run must talk to
  its own host, say OK only for it, close what it opened, and end.
* **handlers**: a request or its answer may be lost between `Last`, `Create` and
  `Batch`; the columns of an update shift when a metric is missing; datagrams
  are lost, repeated or overtaken.  A backend must hold only what was reported,
  and what was handed over must stay.
* **other commands**: chains of thresholds in which one quantity hides another,
  quotients that are rounded or 0/0, answers that are lost inside the command.

`PROJECT.json` lists each of these as a hazard at its line, with the properties
that cover it.

## 2. Modules

| module | models | state and actions |
|---|---|---|
| `Dispatch` | what the server promises of each check | a phase per check: queued, held, running, gone |
| `Server` | `Server.Run` | a program counter for the populator (`popPc`), the main loop (`mainPc`) and each worker (`workerPc`), the check each holds, both channels, `tracked` (= `runningChecks`), `wg`.  One action per statement that another goroutine can see |
| `MCServer` | | the instances of the `Server` runs |
| `Schedule` | `DueAt`, `IsDue`, `Unix` | operators; a clock of several ticks to the second |
| `Memqueue` | `memqueue.Queue` | the four fields of the queue, the clock, `LastCheck` and `Executed` of each check, and the enqueuing goroutines.  `EnqueueCall` and `EnqueueInsert` are Enqueue before and under the lock; `Dequeue` is the Dequeue that returns a check (one that returns nil changes nothing) |
| `DueQueue` | what the memory queue promises | a line of checks: the second each is due in, and which is ahead of which |
| `MemqueueRefinement`, `MCMemqueue` | | the line that the buckets stand for; the instance |
| `Bufqueue`, `MCBufqueue` | `bufqueue.Queue` | where each check is and whether it is due, and the steps of Dequeue, of the ticker goroutine and of Flush |
| `Poller`, `MCPoller` | a server with a memory queue, over time | the variables of `Server` and `Memqueue`; a step of both is the conjunction of a step of each |
| `Execute`, `MCExecute` | `Check.Execute` | the fields of one check, every incident ever made, and a program counter for Execute and each handler's goroutine |
| `Counter` | `CalculateCounterDiff` | an operator, the widths of the counters as parameters |
| `SnmpCommand`, `MCSnmpCommand` | the snmp command's `Run`, `GoSnmpGetter.Get` and the part of Execute around them | the metrics and the time of the last execution, the true counts of the host, the loop over the objects |
| `Smtp`, `MCSmtp` | the smtp command's `Run` and the methods of `TextProtoSmtp` | `text` of each client, the connections with their requests and turns, the connection each run has loaded; a step for each load and each call |
| `Commands` | the outcomes of the dns, http, ping, junsubpool and ciscoresources commands | operators: the outcome for what a command can see, and what it should be |
| `Delivery`, `MCDelivery` | the rrdcached and statsd handlers, fed by the commands | `Process` step by step; the files of rrdcached, the datagrams under way, the gauges of statsd |
| `ServerProofs`, `ExecuteProofs`, `BufqueueProofs`, `MemqueueProofs`, `SnmpCommandProofs`, `DeliveryProofs`, `SmtpProofs`, `PollerProofs` | | the theorems and their proofs |

`Memqueue` and `SnmpCommand` extend `Schedule`; `SnmpCommand` extends `Counter`;
`Delivery` extends `Commands`.
Each `...Proofs` extends the module it is about (`MemqueueProofs` the refinement).
`Poller` takes an instance of `Server` and one of `Memqueue`, and `PollerProofs`
one of `ServerProofs` and one of `MemqueueProofs`.  Alone, `Server`
sees its queue through the interface `check.Queue` only: a bag whose
`Dequeue` may return any check in it, or nil.  Definitions headed "Mutant" are
variants of the definition after them, with a plausible mistake; no
specification uses them.  Each is there to show that a property notices it.

### What the models assume

* The clock does not go back.  Checks have a schedule (a nil one panics) and
  distinct Ids; nobody outside the server enqueues a check a second time while
  it is in flight.
* The `Mutate` methods of the repository's handlers do nothing, so a mutation
  changes nothing but the count of handlers that had their turn.
* The backend of a buffered queue (external) provides only checks that are
  stored in it and provides none again before it is stored again; which it
  provides, due or not, is its own choice.  Flush is called once, after the server
  has returned.
* A check reloaded from a backend may have lost its `LastResult`, which
  `check.go` allows, but not its `Incident`.
* The host of an snmp check does not reset its counters, and counts less than
  the width of a Counter32 between the readings of two executions.  The widths
  are any two of which the greater is at least twice the smaller
  (`CounterAssumption`; 2^32 and 2^64 are).  A command monitors each object once.
* Due seconds are below `MaxInt64`, which marks the empty queue
  (`MemqueueAssumption`, `PollerAssumption`).  A poller starts with every check in
  its queue, in any order within a second.
* A quotient that `big.Float` rounds down matters to whole percentages only when
  it should be one (`CommandsAssumption`), as amounts are far below 2^64; which
  quotients are rounded is a constant.  Amounts, and thresholds of any kind, are
  natural numbers.
* Two goroutines that read one connection at once race for its buffer: each may
  see anything its host can have sent.  `SetDeadline` does not fail.
* rrdcached takes a row only if it is newer than the last one of its file and
  stores none that is short of a value; `Batch` fails if an update was refused;
  a CREATE replaces the file.  statsd sets a gauge to a value without a sign,
  adds one with a sign, and applies the lines of one datagram together.  One
  metric of a statsd result stands for all, as each has a gauge of its own.
* A panic ends the process: a model that has reached one stops.

## 3. Runs

| run | asks | instance | result |
|---|---|---|---|
| `ServerSafety` | ownership, counts, tracking, shutdown, refinement of `Dispatch` | 3 checks, 3 worker slots, limit 2, both values of AutoReEnqueue | holds |
| `ServerStop` | `server.go:60-61`: the running checks finish before it stops | 2 checks, 2 slots, limit 2 | **violated** |
| `Memqueue` | agreement of the indexes, order, refinement of `DueQueue` | 3 checks (1, 1 and 2 s), 2 enqueuers, 2 ticks per second, 6 instants | holds |
| `MemqueueTop` | `queue.go:54`: nothing is due if the top is not | as above | **violated** |
| `Execute` | incidents over any history, containment of handlers | 0 to 2 handlers, 3 incidents | holds |
| `ExecuteFlap` | `README.md:78`: ok to non-ok raises an incident | 1 handler | **violated** |
| `Bufqueue` | nothing lost or doubled, everything stored, everything stored handed out again | 3 checks, fair | holds |
| `Poller` | do `Server` and `Memqueue` keep what each expects of the other; is no check executed early, each executed in the end; does a cancelled server end | 2 checks (0 and 1 s), 2 slots, limit 1, 3 seconds, fair | holds |
| `SnmpCommand` | worst state, right baseline, differences, division by zero | counters of 4 and 8 values, a gauge, 2 objects per request, 5 instants, intervals 1 s and 0 s | holds |
| `Smtp` | what a run that no other overlaps can rely on; does it end | 2 workers, each with or without a client of its own, 2 connections, fair | holds |
| `Delivery` | is a result earned, is what is stored what was reported, does it stay | 2 checks with a file each and one in common, 3 executions, 2 seconds, symmetric | holds |
| `SnmpRollover` | `result.go:131-132`: roll-over at the integer's size | as above | **violated** |

### What the passing runs leave open

`UncrossedIsSound` and `UncrossedRunEnds` speak of runs that no other run on the
same client overlaps.  Where two do overlap on `DefaultClient`, the model has
runs that hear the other's host and report OK for it, that leave their
connection open, that wait in `StartResponse` for a turn that never comes, and
that panic in `EndResponse` ("out of sync").  Checks with a client of their own
are never crossed.  An error of `Cmd` is lost in every run whose `Close`
succeeds; the state of the result is not.

`OutcomeIsEarned` and `AcceptedIsStored` name their exceptions:

* `dns.go:57,64`: a CNAME or MX answer is kept only when the lookup failed, so
  any expectation is reported as CRIT.
* `junsubpool.go:82`, `ciscoresources.go:74`: the quotient is rounded before it
  is multiplied by 100.  A pool at exactly its threshold may be over it; memory
  may be one percent lower than it is.
* ping and ciscoresources report WARN when an earlier quantity is at WARN,
  though a later one is critical.
* junsubpool panics on a pool of no addresses and no users, ciscoresources on no
  memory at all and on an object it did not ask for.
* A row that lacks a metric is sent without it and `Process` returns nil, but
  rrdcached cannot store it.
* Two checks that write one file may both find it missing; the second CREATE
  takes the rows of the first, so `AcceptedIsStored` is about a check's own file.

### What the violated runs show

* `ServerStop`: after the cancellation the populator closes `pendingChecks`
  while the main loop is still in its select, where now both cases are ready.
  When Go picks the receive, `chk` is nil and `chk.Id` (line 112) panics, with
  checks still executing.  The run needs a limit of 2, as a token must be free.
* `MemqueueTop`: a second holds its checks in order of arrival, so a check that
  is due can wait behind one that is due later in the same second.
  `WithheldLessThanASecond` shows it never waits a whole second for that.
* `ExecuteFlap`: CRIT, OK, CRIT.  The resolved incident stays for one OK result
  and its ToState equals the new state, so no new incident is made.  If OK lasts
  for two executions the incident has been discarded and a new one is made.
* `SnmpRollover`: the difference across a roll-over is one too small, and wrong
  altogether for a Counter32 last read at its maximum.  `DiffWithinOne` shows
  that there is no other case.

### Bounds, and why they are enough

* Three checks under a limit of two let a check wait in each place (queue,
  populator, channel, main loop) while two run, and three slots let one worker
  be between its release and its end while both tokens are taken again.
* Two enqueuers are what it takes to reorder the computation of a priority and
  its insertion; three checks fill one second with two and another with one.
* In `Poller` a check with an interval of 0 competes with another for the only
  token.  Two checks under a limit of one let one wait at every place (queue,
  populator, channel, main loop without a token) while the other runs.  The clock
  counts whole seconds there, as `Memqueue` looks at what happens within one, and
  three of them let each check come back twice.
* Two handlers are what it takes for one to block on the error channel while
  another waits.  Three incidents include resolve, discard and replacement.
  When the bound is reached the execution that would make a fourth stops there
  (`Exhausted`), and `ExecuteReturns` excepts it.
* Two counter widths, the larger twice the smaller, give each kind of roll-over
  and the mistaken one; two ticks per second let two executions share one.
  Five instants allow three executions and an elapsed time of two seconds.
* Two smtp workers with one connection each are what it takes to overlap, and
  let one worker make two runs on one client.
* Two checks and three executions are what it takes to create one file twice,
  to update it with two rows out of order, and for one check to come back to the
  file it created.  Two seconds tell rows apart.
* Thresholds of 0 and 1 and values up to 2 give every order of a value and its
  two thresholds, the unset threshold included.  The amounts 0, 3, 5, 47 and 53
  give 3 of 5, a quotient that is rounded up, 53 of 100, one that is rounded
  down, exact ones, pools that are empty or more than full and no memory at all;
  with them stand thresholds below, at and above the percentage.
* `MaxNow`, `MaxIncidents`, `MaxCount`, `MaxHandlers`, `MaxDials` and
  `MaxExecutions` are bounds of the models; no action is bounded otherwise.

Deadlock is checked in every run: the only states without a step are those in
`Terminated`, `Exhausted` and `Ended`, which stutter explicitly.  Symmetry is
used in `Delivery` only, which checks invariants and nothing temporal, and in
which no action tells one check from another.

### Fairness

`Poller`: weak fairness of the populator, the main loop and each worker, for
the Go scheduler runs goroutines that can run, and the commands and handlers of
the repository work under timeouts, so a worker's Execute ends (save where smtp
runs overlap on `DefaultClient`, see the runs above: `Poller` assumes they do not).  Time
passes.  Nothing obliges the caller to cancel, or the select to prefer a case.
`Execute`: weak fairness of its own goroutine, each handler's and the one that
closes the channel.  `Bufqueue`: of the ticker goroutine and of a Flush that
has begun, as tickers tick and the backend answers; of the populator's Dequeue,
as the populator asks again until it is stopped; of time, which makes checks due;
and of the backend strong fairness: asked again and again it provides every check
it stores.  The server need not stop.
`Smtp`: of each worker that has a step, and of the passing of each deadline; no
host is obliged to answer.

## 4. Proofs

Every theorem is about all values of the constants that the assumptions in its
module allow: any set of checks, any finite pool of goroutine slots, any
`MaxRunningChecks`, any intervals, ticks to the second, monitors, thresholds,
widths of counters, numbers of handlers, connections and executions.  Each
module has one inductive invariant, `IInv`, in named parts; each part has a
lemma for the steps, and `Invariance` (`Spec => []IInv`) is the theorem the
others follow from.

### Server (`ServerProofs`)

| theorem | statement |
|---|---|
| `Invariance` | `Spec => []IInv` |
| `Typing` | `Spec => []TypeOK` |
| `Ownership` | `Spec => []ExclusiveOwner` |
| `SendReady` | `Spec => []SendNeverBlocks` |
| `Counting` | `Spec => []CountsExact` |
| `LateStarts` | `Spec => []StartsAfterCancelBounded` |
| `Implementation` | `Spec => ImplementsDispatch` |
| `Tracking` | `Spec => []TrackingExact` |
| `Quiescence` | `Spec => []ReturnedMeansQuiescent` |

`IInv` is the conjunction of five parts:

* `Typed`: the types, except that `wg` is only known to be an integer, and what
  each goroutine holds at which step (`Holding`).
* `ExclusiveOwner`: inductive given `Typed`.  The cases that matter are those
  that move a check; `OwnerHead` says what taking the head of `pendingChecks`
  leaves behind.
* `SendNeverBlocks`: inductive given `Typed`, as only the populator appends.
* `LateBound` strengthens the bound on `startedLate`, which says nothing of what
  may still come: started checks, the one with the main loop, those in
  `pendingChecks` and one with the populator together stay within the bound.
* `CountsExact`: by the finite-set theorems; `wg >= 0` in `TypeOK` follows from
  it, which is why `Typed` leaves it out.

`Implementation` shows that each step moves at most one check (`PhaseStay`,
`PhaseMove`) and, for a step that starts one, that fewer than
`MaxRunningChecks` are running: a surjection from the workers that run a check
(`RunningOwing`), and the token the main loop has taken on top of theirs.

`Tracking` needs to know why a deletion from `runningChecks` cannot remove the
entry of another worker: without AutoReEnqueue a started check is neither in the
check queue nor held again (`StartedOnce`, inductive given `IInv`), so two
workers never have the same check.  With AutoReEnqueue they may, one of them
about to delete, and only `tracked \subseteq Keeping` holds.

`Quiescence` adds that `wg` stays at zero after `wg.Wait` (`Joined`: by
`CountsExact` nobody is left who could change it or send, `AllEnded`) and that
with AutoReEnqueue no check is in phase "gone" (`Kept`, from the steps of
`Dispatch` that `Implementation` maps to).

### Check execution (`ExecuteProofs`)

| theorem | statement |
|---|---|
| `Typing` | `Spec => []TypeOK` |
| `OneOpen` | `Spec => []OneOpenIncident` |
| `OpenMatches` | `Spec => []OpenIncidentMatches` |
| `NotOkIncident` | `Spec => []NotOkHasIncident` |
| `Containment` | `Spec => []ProcessingContained` |
| `Unwritten` | `Spec => NothingWrittenWhileProcessing` |
| `RaisedOnlyOnChange` | `Spec => RaisedOnChange` |

The properties speak of a check between executions; `IInv` says how they survive
one.  `Judged` is the core: until the incident is decided the check's incident is
about its last result, from then on the *current* incident (the new one, if
there is one) is about the new result, though the check still has the old one.
`Local` says which of Execute's locals exist at which step.  `Goroutines` and
`Counted` tie the handlers' goroutines, the WaitGroup and the channel: an error
that has been reported is collected or still being sent, and when the channel is
closed all goroutines have ended.

### Memory queue (`MemqueueProofs`)

| theorem | statement |
|---|---|
| `Typing` | `Spec => []TypeOK` |
| `IndexAgrees` | `Spec => []IndexConsistent` |
| `Withheld` | `Spec => []WithheldLessThanASecond` |
| `Implementation` | `Spec => ImplementsDueQueue` |

`IInv` is `Lined`, what the order of the line depends on, and `Counted`.  The parts
are `Typed`; `Indexed` (no empty bucket, `priorities` the keys,
`minPriority` the least of them) and `Counted` (`total` is the number of places in
the buckets), which `SlotsGrown` carries over an insertion and, read backwards, over a
removal; `FiledInQueue` and `FiledInCall`: a check that has run waits, or is being
enqueued, under the second it is due in, which does not depend on the clock, as
nobody runs it meanwhile; `Once`: a check has one place at most, and none while
it is being enqueued; `Unexecuted`; and `FoundDue`: a check that never ran has
been found due at a moment that is past.

`Withheld` is arithmetic on top: the first check is filed no later than any
other, and two times in one second are less than a second apart
(`SameSecondOrLower`, from the rules of division).

`Implementation` maps the buckets to a line: `Due` is the second of the bucket a
check is in, `Ahead` the order of the places.  By `Once` a check has one place
(`OnePlace`), and `InsertPlaces` and `RemovePlaces` say what an insertion and a
removal do to all places.  From these, `InsertJoins` shows that `EnqueueInsert` puts
the check behind those of its second or a lower one and ahead of the others, and
`DequeueLeaves` that the check which leaves was ahead of all.  `EnqueueCall`, which
finds out the priority, is a stutter of the line.

### Buffered queue (`BufqueueProofs`)

| theorem | statement |
|---|---|
| `Typing` | `Spec => []TypeOK` |
| `ExactlyOnePlace` | `Spec => []NowhereTwiceNeverLost` |
| `FlushStores` | `Spec => []FlushedMeansStored` |
| `EnqueuerTold` | `Spec => []ExecutedTellsRan` |

The seven places become sets: `Whole` (every check is in one), `Apart` (no two
share a check) and `PendingOnce` (none is in the list twice).  Between the calls of
`All` and of the memory queue's `Flush` a check is in two of them, so `Kept` stands
for the memory queue.  `Holding` says what each goroutine holds at which step, and
`Told` that from the memory queue on `Executed` is set exactly for what ran.

### Snmp command (`SnmpCommandProofs`)

| theorem | statement |
|---|---|
| `Worst` | `Spec => []ResultIsWorst` |
| `Baseline` | `Spec => []BaselineFromLastExecution` |
| `NoDivisionByZero` | `Spec => []PanicsOnlyWithoutInterval` |
| `DiffBound` | `Spec => []DiffWithinOne` |

`DiffBound` follows from `Fresh` and `Recent` (a metric has the remainder that its
counter showed, and no counter has been all the way round since the last one) by
arithmetic of remainders (`Diff64`, `Diff32`).  The proof failed at first for a
good reason: with widths such as 4 and 5 a difference is wrong by more than one,
as a roll-over of the wider counter is then taken for one of the narrower.  TLC
confirmed it, and `CounterAssumption` now asks for `2 * Size32 <= Size64`.
`NoDivisionByZero` needs `Running` (an execution begins no earlier than the check is
due) and the fact that times an interval apart are in different seconds.

### Commands and handlers (`DeliveryProofs`)

| theorem | statement |
|---|---|
| `Earning` | `Spec => []OutcomeIsEarned` |
| `Faithful` | `Spec => []StoredIsReported` |
| `Accepted` | `Spec => []AcceptedIsStored` |

`Earning` is a lemma for each command (`EarnedDns` ... `EarnedCisco`): what it makes
of anything it can see agrees with what the thresholds alone say.  For
ciscoresources that is `MemoryOverPercent`: the whole percentage exceeds a
threshold exactly when `used * 100 >= (threshold + 1) * total`, unless the quotient
is rounded down to it.  `Accepted` needs `Storing`: a check that is about to create
its own file has found it missing, and nobody else creates it meanwhile.
`Faithful` needs `Typed`, where `FileType` has the rows of a file in the order of its
columns, and `Sending`: a datagram on its way carries a reported value.

### Smtp command (`SmtpProofs`)

| theorem | statement |
|---|---|
| `Typing` | `Spec => []TypeOK` |
| `Soundness` | `Spec => []UncrossedIsSound` |

`Uncrossed` is the core: a run that no other overlaps goes its whole way on the
connection it dialled, which is the one its client has (`Alone`), has heard from
its host what its step implies (`Hears`), and has closed the connection when it is
over (`Tidy`).  `Crossing` says why others do not disturb it: two runs on one client
are both crossed.  `Owned` keeps connections with their clients, so that a step of
one client leaves those of another alone; `Loaded` says who holds a connection at
which step, without which `TypeOK` would not say that no nil one is used.

### Poller (`PollerProofs`)

| theorem | statement |
|---|---|
| `Views` | `Spec => []ViewsAgree` |
| `Filing` | `Spec => []DueWhereFiled` |
| `Spacing` | `Spec => NeverEarly` |
| `ServerRuns` | `Spec => G!Spec` (of `Server`) |
| `Promise` | `Spec => G!ImplementsDispatch` |
| `Order` | `Spec => [][M!Ordered!Next]_(M!Ordered!lineVars)` (of `DueQueue`) |

The composition reuses the proofs of its parts: each step of `Poller` is a step or
a stutter of `Server` and of `Memqueue` (`StepsOfBoth`), so the lemmas of
`ServerProofs` and `MemqueueProofs`, taken through instances, give `Apart`, what each
keeps on its own.  An instance brings lemmas but not their assumptions, so
`ServerConstants` and `QueueConstants` derive those from `PollerAssumption`.  On top
stand the parts that relate the two: `Bag` (a check is in the server's bag exactly
when it is in a bucket), `Callers` (whoever enqueues a check holds it) and
`DueInHand` (a check that the server holds and has not executed is due).  The last
one is what carries `NeverEarly` from the Dequeue to the Execute.

With the same lemmas, `ServerRuns` says that the composition is a behaviour of
`Server` as a whole, so that what is proved of the server holds of it; `Promise` is
one instance of that.  For the queue it is the steps only (`Order`): the queue of a
poller is full at the start, while that of `Memqueue`, like the one `NewQueue`
returns, is empty.

### What is only model-checked

Liveness and what `ENABLED` is part of are out of the prover's reach:
`ExecuteReturns`, `ComesRound`, `UncrossedRunEnds`, `DueIsExecuted` and
`ShutdownCompletes`.  Every other property of a passing run is proved.
The four violated runs have counterexamples and nothing to prove.

## 5. Not modelled

* The dummy handler, which prints; what `http.go:29` leaves of idle connections.
* The write of `Timeout` in `gorrd.go:18` without a lock: every worker that
  writes it writes the same ten seconds before it reads them.
* `Acknowledge` and `IsAcknowledged`, which nothing calls.
* `PostProcessValue` and the conversions between strings, big.Int and big.Float,
  whose values only handlers read; the layout of the archives of an RRD file.
* `minPriority` going through float64, exact for every time a schedule yields.
* The warning about long-running checks itself; `Debugf` and the callbacks.
* A Flush of either queue while a Dequeue is under way: it is called after the
  server has returned.

## 6. Plan

Proofs: an abstract specification of the buffered queue (a check is stored, handed
out or on its way back), its refinement, and then the server over a buffered queue,
as `Poller` is the server over a memory queue.
