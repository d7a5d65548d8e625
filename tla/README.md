# A verification of tplink_archer_exporter

TLA+ models of the exporter that polls a TP-Link Archer router and publishes
Prometheus metrics, or pushes them over OTLP. Each module is translated from the Go
source in `src/`; TLC checks it on small instances, and TLAPS proves the theorems of the
`*Proofs.tla` modules for every value of the constants. `PROJECT.json` lists the runs,
the source lines behind each definition, the hazards, the findings and, for every
property, a slip in the code's place that breaks it.

## The system

The router has **one** web session. A person who opens the router's web page takes it,
or is refused it; the firmware locks the device for two hours over what it reads as
concurrent logins. Most of what is hard here follows from that.

    main ── signal ──► Poller.Run ──► cycle ──► tpapi.Client ──HTTP──► router
      │                    │             │                              ▲
      │                    │             └► State (mutex) ◄── Collector ◄── scrape
      │                    └► OnCycle ──► push.Sender ──OTLP──► receiver
      └── stop sequence: cancel, http shutdown, join the poller, Sender.Shutdown

| component | state it keeps | operations | hard about it | correct when |
|---|---|---|---|---|
| polling loop, `exporter/poller.go` | session, backoff, cooldown, two waits, two pruned histories, `State` | `Run`, `cycle`, `holdOff`, `login`, `poll`, `renew`, `sessionLost`, `record`, `suppress`, `logout` | deadline and signal in any request, four ways a cycle fails, a login policy spread over five fields | at most so many logins an hour, no login inside a wait, waits bounded and escalating, a scrape and a push agree, the stop ends |
| session client, `tpapi/client.go` | features, mode, sequence number, hash, stok | `Login` (4–5 requests), `Call`, `Logout` | partial failure of a login, the hash one request leaves to the next, four layers a reply can fail in | requests verify, verdicts are right, nobody on another device is evicted unasked, a login is granted one session at most, the stok is as the loop expects |
| snapshot, `exporter/assemble.go`, `parse.go`, `snapshot.go` | one `Snapshot` a cycle | `poll`, `assemble`, the parsers | partial cycles, several parsers on one reply | every reading was taken, every failure is charged to its path |
| collector, `exporter/collector.go` | nothing, it reads `State` | `Collect` | staleness, the mode of an access point, series that collide | nothing stale, nothing invented, a device is one client |
| push sender, `push/sender.go`, `ring.go`, `status.go`, `metrics.go` | ring of unsent batches, drain token, last status, counters, the outage flag | `Push`, `deliver`, `drainRing`, `send`, `report`, `Shutdown` | two drainers, lost replies, a full ring, a stop in the middle | every batch is delivered, kept, or dropped and counted; oldest first; no recovery is logged while batches wait |
| process and stop sequence, `cmd/tplink_exporter/main.go` | where `main` is, the listener, the signal's context | `main`, `stopSequence.run` | three waits with a limit each, a second signal, a listener that fails | in order, in time, to the end |
| configuration, the same file | `options`, `env.errs` | `bindFlags`, `configure`, `validate`, the constructors' defaults | two sources for each value, defaults in three places | every fault is found, what is accepted is run as written |

The poller's goroutine runs cycles and, through `Config.OnCycle`, every `Push`; scrapes
read `State` under its mutex; `main`'s goroutine runs the stop. The goroutines share
`State`, the ring with its token, and nothing else.

## The modules

**`Poller`** — `Run`, `cycle` and the login policy. `pc` is the call the goroutine is in
(`login`, `poll`, `renewLogout`, `renewLogin`, `onCycle`, `sleep`, `logout`) or the
decision it is at (`start`, `judge`, `renew`); there is one action per branch of
`cycle`'s switch and per end of each request. The clock advances only while the loop is
blocked, since its own steps cost nothing beside a request. The two pruned slices are
sets of indices into histories of all attempts and losses, so that a property can speak
of an attempt the program has forgotten. The router's session is `free`, `remote`
(a browser on another device, which it defends), `local` (one on this machine, which a
login replaces in silence), `exporter`, or `orphan` (granted by a login whose reply is
not in). `SomebodyElse` moves it at any time, also between the router's reply and its
arrival. The signal may come at any time, and after it a request ends with its context.
A logout that arrives is honoured here; refusals are `Client`'s. Left out: logging, and
with it `polledOK` and `failing`; `PollDuration` and `LastErr`; the mode, which only
sets the number of sources.

**`Lifecycle`** — the contract of `Poller.Run`, in six phases: what the process around it
counts on. A cycle is bounded by `Timeout` and ends at once when it is cancelled; each is
handed to `OnCycle`, which bounds itself; the next starts an interval after the last
started; after a cancellation comes the push owed, then one logout. `Poller` refines it
(checked and proved), and `Exporter` is written against it.

**`Sender`** — `Push` and `Shutdown`, each a process of its own, with the ring, the
token, the status of the last round trip, the delivery metrics and the log's outage flag.
A batch is the number of its cycle. A request may be lost before or after the receiver
stored the batch, be refused for good or for now, or never be made (spent context, closed
exporter); a context ends at any moment. `joinFirst` is main's stop sequence; without it
`Shutdown` may meet a `Push` in flight, which is what the drain token is documented for.
The OTLP exporter serialises less here than in the library, so more orders are explored
than can occur. The labels and stamps on points are left out.

**`Ring`** and **`Delivery`** — the array with head, size and the count of evictions, each
method an operator on the record; and the promise of the push side: at least once, oldest
first, only the oldest evicted, every drop counted. `Sender`, array and all, refines
`Delivery` (checked and proved) under the mapping *what the ring holds, then what `Push` has in
hand*.

**`Options`** and **`Exporter`** — `Options` is the command line: a setting is what its
flag was given and what its variable holds, resolved, validated, and taken over by
`NewPoller` and `push.New`. `Exporter` starts with one and refuses it, or runs on it, or
ends because `tpapi.New` or `push.New` failed (`NewFails`; nothing is running by then):
`main`, its select and the stop sequence, with the loop as `Lifecycle` has it, the listener, a
request in flight, and signals, of which the second may find the handler gone. There is
one clock; it advances while every goroutine waits. Its unit is ten seconds, so that the
defaults in the source, which are multiples of it, are the model's. How a last drain goes
is `Sender`'s; here it ends, by its limit at the latest.

**`Client`** and **`WebSession`** — `Client` sends the requests of `Login`, `Call` and
`Logout` to a router that verifies what it is sent (credential hash, per-request hash,
sequence number, stok) and whose replies may be lost, be no JSON, be sealed with
another key, hold no JSON once decrypted, carry any of three statuses, or be a refusal.
A hash is the name of what it was made from, a ciphertext the number of its request.
The session is free, the client's, or a browser's: a *remote* one, against which the router
reports a conflict until the login is confirmed, or a *local* one on the exporter's own
machine, whose session any login replaces silently (`client.go:238-240`), as in `Poller`.
Each grant remembers the `Login` it was made to.
The cipher is one per client and never changes, so it and OAEP are left out. Changes of
the session by others between the router's reply and the client's reading of it are put
after the reading, which cannot tell the difference. `WebSession` is the contract
`Poller` is written against — a stok after a `Login` that returned nil, unchanged by a
failed one, gone after any `Logout` — and `Client` refines it (checked and proved). `Client.Force` is
the variable `force`: the proof system has a `Force` of its own.

**`Snapshot`** — `poll`, `assemble`, `record` and `Collect` with all 23 sources (11 of an
access point) and the 28 sections they fill. A reply is known by its *shape*: good, not
decodable, with a bad row, without its usage or its uptime. A section is present or not,
a metric family is served or not. A repeated MAC address is one more bad row here. The mode, the
age and the failures of a snapshot are this module's; what is in its tables is the next's.

**`Tables`** — from the rows of nine tables and the fields of seven kinds of object to the
series served: the row-by-row decoding, the addresses and their spellings, the first of a
client's rows and the last of its times, the values that stand for none, the switches and
which endpoint they come from, the join, the collector's series with their labels, and the
registry behind both `promhttp` and the push bridge, which reports a repeated series and
keeps the rest. The variable is the replies; everything else is a
function of them, and TLC meets every reply up to the bound.

`MCx` modules instantiate them; the values are in the `.cfg` files.

## The runs

| run | shows | states |
|---|---|---|
| `poller` | the login policy, the publication, and that `Poller` implements `Lifecycle`, over a validated configuration | 1.4 M |
| `poller_drift` | where a cycle and its push outlast the interval: how far the period gives way; and that the loop stops | 0.6 M |
| `sender` | pushes through a ring, the stop after or beside them: conservation, metrics, the log, the refinement of `Delivery`, that the stop ends | 1.0 M |
| `client` | two logins and three session requests, three kinds of device, `Force` on and off, a browser of either kind | 2.0 M |
| `snapshot` | two cycles of either mode, two faults among them, a scrape at any time | 1.9 M |
| `exporter` | every command line of `MCExporter`, and the runs of those accepted, to the exit | 0.3 M |
| `tables` | every set of replies with at most three rows or objects | 0.1 M |
| `stop_frees_the_session`, `oncycle_reads_this_cycle`, `unexplained_403`, `logout_nil_means_freed`, `endpoints_failed` | what the documentation says and the code does not do | – |

**Bounds.** `MaxTime = 9` in `poller`, with an interval of 2 and a window of 5, holds four
to five cycles: two losses and the quiet after them, the doubled cooldown into its
ceiling, a renewal at the login cap, and the moment the window runs dry. Two sources
are enough for a cycle to be partial. In `sender`, four cycles through two slots evict
twice, wrap the array and can still drain in the stop; with `Push` and `Shutdown` at once
three cycles do (`MaxCyclesAlone`), since two drainers need a full ring and one batch
more. In `exporter`, `MaxTime = 13` is two cycles at the default interval and a third
begun, and the clock runs on once a signal is there, for as long as the stop takes; two
signals are the most that matter, since the first kills or cancels and the second finds
the handler back or in vain. Command lines differ from a sound one in one setting, or in
two by flag in push mode: `validate` compares at most three values, two of them durations
of which either may be at its default. In `tables`, three rows are the least in which a
device has two rows under two spellings and is met by a third, of another endpoint or
another device; the rows and objects are those the parsers tell apart.
In `client`, two logins are the least in
which one's leftovers meet another's session, and three requests the least in which
a replaced hash is inherited twice. In `snapshot`, two cycles are the least in which one
can leave the other's data in place, and `MaxFaults = 2` lets one cycle combine any two
failures; faults are bounded rather than sources, since shapes over 23 sources multiply.
`now` starts to matter with the first cycle and passes `maxAge` by one.
Runs say `CHECK_DEADLOCK FALSE` where the clock, the cycles or the program itself
come to an end; `client` never stops, and there deadlock is checked.

**Fairness.** `Poller`: weak fairness of the goroutine's own steps, never of the router,
the people, the clock or the signal. Go schedules a runnable goroutine, every request
ends because `http.Client` has a timeout of its own, and `OnCycle` bounds its time.
`Sender`: weak fairness of each goroutine and of the return of a request, by the same
timeout; never of a context's end. `Exporter`: weak fairness of `main`, of the loop and of
the clock, since every wait of the stop has a deadline but the join, whose has the loop;
never of signals, requests or the listener. Liveness (`StopsWhenCancelled`, `StopEnds`,
`StopCompletes`) is model-checked only.

**Where a property is narrower than it may seem.** `RefusedByTheReceiver` is checked with
the poller joined. Unjoined, the process body's `Export` (`sender.go:170`), which is
outside the token, shares the status with a drain and could answer for it; main never
gets there. `EveryFailureIsCharged` speaks of sources that were asked; those a dead
session left unasked are the finding below. `StopWithinGrace` is the README's sum of three
waits, and in pull mode the longer of the server's shutdown and the logout beside it; with
the defaults it is the 30 seconds of `docker-compose.yml`, and a longer `-push-timeout` is
longer, as the README says. `SilenceMeansNothingWaits` is about the time between cycles:
inside one the flag is not yet brought up to date. `NoReadingIsInvented` is checked over the
words the firmware uses: a JSON boolean in `status?form=all`, which its captures never
show, is read as text there (`text`, then `onOff`) and would count as off; and a number
left out of a reply that is otherwise good is a 0 to `encoding/json`, here as in the code.
A field missing from a good reply of the security endpoints is passed over by the code on
purpose and counts as good.
`NoRemoteEvictionHolds` says nothing of a browser on the exporter's own machine: the
firmware gives its session to any login (`src/README.md:199-202`), and all that protects it
is the quiet after a repeated loss, which is `Poller`'s. `OneSessionPerLogin` allows a failed
`Login` one session that nobody can log out of; the code cannot free it. `CyclesDoNotDrift`
catches a rule of `validate` that forgets one of its two durations, and not one that admits
`Timeout + PushTimeout = Interval`: the program's own steps take no time in the model, so
there no cycle would start late.

## What is proved

Each theorem holds for every value of the constants its module's assumptions allow; a
property in brackets is the one a run checks on a small instance. Every inductive
invariant was an invariant of a TLC run before it was proved.

| theorem | says |
|---|---|
| **`PollerProofs`** – for every configuration | |
| `TypeCorrect` [`TypeOK`] | every variable keeps its type |
| `LoginCapHolds` [`LoginCap`] | no hour holds more than `MaxLoginsPerHour` attempts |
| `NoSessionInsideAWaitHolds` [`NoSessionInsideAWait`] | a session held was begun after every wait armed so far |
| `WaitsAreBounded` [`WaitsBounded`] | floors and ceilings of backoff and cooldown |
| `EscalationHolds` [`EscalationOutlivesGoodCycles`] | the cooldown is forgotten only when the window is dry |
| `QuietHolds` [`QuietAfterRepeatedLoss`] | a repeated loss is followed by at least `SessionCooldown` without a login |
| **`LoopProofs`** – the same `Poller`, as the rest of the process sees it | |
| `CountersHold` [`CountersAgree`] | every attempt and every loss is counted once |
| `QuietIsPublishedHolds` [`QuietIsPublished`] | a scrape in a quiet spell reads the web UI as busy, and never one that is up |
| `PeriodHolds` [`CyclesHoldTheirPeriod`] | a cycle is late by no more than the last one and its push outlasted the interval |
| `PushAgreesHolds` [`PushAgreesWithScrape`] | a push is stamped with the snapshot a scrape reads |
| `TimesNeverRunBackwards` | neither the stamp nor the published snapshot's time goes back |
| `TimesAdvanceHolds` [`TimesAdvance`] | each cycle's stamp is later than the last, if `Timeout + PushTimeout < Interval` |
| `LifecycleIsImplemented` [`ImplementsLifecycle`] | `Poller` implements `Lifecycle` |
| **`SenderProofs`** – for every capacity, number of cycles, and either wiring | |
| `SenderTypeCorrect` [`TypeOK`] | types, and no slot outside the entries keeps a batch |
| `EveryBatchHolds` [`EveryBatchIsSomewhere`] | delivered, dropped and counted, or waiting exactly once |
| `MetricsHold` [`MetricsAreExact`] | between cycles the metrics are the truth |
| `SilenceHolds` [`SilenceMeansNothingWaits`] | no complaint in the log, nothing in the ring |
| `StopReportHolds` [`StopReportsWhatIsLost`] | what `Shutdown` leaves, it reports |
| `RefusedByTheReceiverHolds` [`RefusedByTheReceiver`] | only what the receiver refused is dropped as refused |
| `SenderImplementsDelivery` [`ImplementsDelivery`] | `Sender` implements `Delivery` |
| **`ExporterProofs`** – for every command line, grace and number of signals | |
| `ExporterTypeCorrect` [`TypeOK`] | types; the loop runs on natural numbers |
| `ExitOrderHolds` [`ExitOrder`] | the sender after the loop, the exit after both |
| `StopWithinGraceHolds` [`StopWithinGrace`] | gone within the sum of the limits |
| `CyclesDoNotDriftHolds` [`CyclesDoNotDrift`] | in push mode no cycle starts late |
| `SettingsInForceHolds` [first half of `RunsAsConfigured`] | no constructor replaces a value that was accepted |
| `RunsAsConfiguredHolds` [`RunsAsConfigured`] | nor a label: the last given of each name is served |
| **`ClientProofs`** – for every device, number of logins and of requests | |
| `ClientTypeCorrect` [`TypeOK`] | the stok is one the router granted, the hash one of a request made |
| `SignedForItsSessionHolds` [`SignedForItsSession`] | the router that granted the session can verify each call |
| `NoRemoteEvictionHolds` | a browser on another device is evicted by the confirmed login under `Force` alone |
| `OneSessionPerLoginHolds` [`OneSessionPerLogin`] | a `Login` is granted one session at most: the one it holds, none if it was busy |
| `CallClassifiesHolds` [`CallClassifies`] | what makes a session dead, a reply unreadable, a call good |
| `KeepsTheContractHolds` [`KeepsTheContract`] | `Client` implements `WebSession` |
| **`SnapshotProofs`** – for every age limit and run of replies | |
| `SnapshotTypeCorrect` [`TypeOK`] | types, and a snapshot of a time that has been |
| `ReadingsWereTakenHolds` [`ReadingsWereTaken`] | what is served was parsed from one recent cycle's replies |
| `NoZeroesHolds` [`NoZeroesOfAnAccessPoint`] | an access point's zeroes are not served |
| `EveryFailureIsChargedHolds` [`EveryFailureIsCharged`] | what was asked for and not read is in `Errors` and counted |
| **`TablesProofs`** – for any rows and objects, and replies of any length | |
| `OneClientPerDeviceHolds` [`OneClientPerDevice`] | as many clients as devices, counted once, no series of theirs colliding |
| `JoinedByAddressHolds` [`JoinedByAddress`] | a time or signal is served of the device that had it, and a known time is served |
| `NoReadingIsInventedHolds` [`NoReadingIsInvented`] | no "no value" is served as a value; every switch is as the router says |
| `RepeatCostsOnlyItselfHolds` [`RepeatCostsOnlyItself`] | every series collected is served |

**Assumptions.** `ConfigAssumption` is what `NewPoller` leaves of a `Config`; it does *not*
include `validate`'s rule that a cycle fits into the interval, and only
`TimesAdvanceHolds` adds that rule, as a hypothesis, since without it two cycles can share
a stamp (`MCPollerDrift` has such configurations; `TimesNeverRunBackwards` says what is
left). `CommandLineAssumption` says that a command line is what `flag` and `os.Getenv`
can hand over: lists of numbers and unparsable words, at most one of them per variable;
`LabelAssumption`, that a label is a list of strings, as `Set` splits it. `RowsAssumption`
is what `encoding/json` leaves in the parsers' structs: an address in one of three
spellings, a number or none, a word. The values themselves are unconstrained. The
others say that bounds are natural numbers and the ring has room for one batch.

### The arguments

A step of `Poller` has thirty disjuncts and touches nearly thirty variables, so each
argument is cut in two. A *steps* lemma says, action by action, what any step does to the
few variables an invariant is about: the books of logins are kept, pruned, or extended by
one after a test of the cap (`LoginSteps`); the losses likewise (`LossSteps`); and so on.
A second lemma shows that such a step keeps the invariant, without opening an action again.
The other modules follow the same plan.

* *The cap* needs more than itself: the program forgets attempts, so `LoginInv` says that
  attempts are in order of time and that every forgotten one is a window old. It also
  says that in a renewal's logout there is room for one more, for the renewal
  tests the cap before the logout and appends after it. If there were a window with too
  many, the last `MaxLoginsPerHour` attempts before the new one would all still be
  remembered (`Pigeonhole`), against the test.
* *No session inside a wait* needs where the loop can be when it has a session
  (`SessionPlaces`), that no request is made inside a wait (`NoRequestInsideAWait`), and
  that `loggedInAt` and `start` are in the past.
* *Quiet after a repeated loss* needs the same of losses as the cap of logins
  (`LossOrder`, `OnlyOldLossesAreForgotten`), that a cooldown armed is at least its floor
  (`CooldownFloor`), and that `quietUntil` covers it (`QuietArmed`); then an attempt after
  the loss is outside `quietUntil`.
* *The counters* (`LoopProofs`) are compared with the histories through the attempt that
  is not answered yet, which is the one between `login` and its return.
* *The times* need `ClockInv`, where the clock can be in each call the loop is in, and
  `StampInv`: what a cycle publishes was read in it, what was published before is no
  younger than its start, and the stamp is set once, when the reading ends.
* *The life cycle* maps `pc` to a phase (`Phase`); the nine calls inside a cycle are one
  phase, so most of `Poller`'s steps are stutters, and the deadline is the cycle's own.
* *The push side.* The first part of `SenderProofs` shows what `push` and `removeOldest` do to the sequence the
  array stands for, `contents`, wherever its head is: append, evict and append, take the
  head. From there on it speaks of `Queue`, the ring's contents and what `Push`
  has in hand. `StepsOfTheQueue` classifies every step of both processes and the receiver
  by what it does to `Queue` and `fate`; `Line` says that `Queue` is in order of cycle and
  holds exactly the batches whose fate is pending. Around it: who has the token is where
  it says (`TokenHeld`), what is on its way is the queue's head (`InFlight`), the counts
  are the cardinalities of the fates (`Tally`, `Books`), an error-free `Push` has drained
  the ring (`Errors`), and what `Shutdown` knows of the rest (`Left`). The refinement of
  `Delivery` is `StepsOfTheQueue` read again.
* *The process.* `AcceptedIsSound`: a command line in which `flag.Parse` and `validate` find
  no fault has numbers where it should, in their ranges; `ConstructorsKeepWhatTheyAreGiven`
  follows. The invariant is then a timetable: `LoopTimes` and `LoopEnds` bound the clock in
  each phase of `Lifecycle`, before and after the cancellation; `MainEnds` bounds it in
  each part of the stop sequence by the parts before. The drift rule enters where a push
  ends before the interval does.
* *The client.* A login that fails half-way leaves a new sequence number, hash or set of
  features beside an old stok. So the invariant is not that the fields fit together but
  `Held`: they do while the caller holds a session, and then no login is under way.
  `GoodReply` carries what a grant promised from the router's step to the client's, across
  a confirmation and a reply whose status was spoilt, and `KnownDevice` covers a device
  that would not say what it is: a router that encrypts never grants the login such
  features make. `Taken` follows one `Login` through its two
  login requests: it has been granted nothing while a reply is awaited or if the reply is
  a conflict, the last session granted if the reply says so, and at most that one if the
  reply was spoilt.
* *The snapshot.* `Gathering` says of the cycle under way, and `Based` of the snapshot
  served, that each reading was parsed from a reply asked for since the cycle began and
  due from a device of its mode. `EverySourceHasAReporter` is a fact about the tables of the
  code: each of the 23 sources feeds a section, due in either mode, whose parser reports a
  malformed row; without it a failure could go uncharged.

* *The folds.* Every loop over a list is a `FoldLeft`, and the library's induction
  theorems take the formula as an operator, which the provers cannot be given. But that `<`
  is well-founded on the naturals is a plain fact, from which a set of numbers has a least
  member (`Least`) and a set that holds 0 and every successor holds all (`Induction`).
  With it `FoldOfIndices` finds a function with the equation that `FoldLeft`'s definition
  chooses by, and `FoldSteps` says what such a choice is on each prefix. The
  folded step is a constant of `FoldTheorems`; `TablesProofs` and `ExporterProofs`
  instantiate the module once for each loop: select, flatten, skip repeats, add up, set a
  label.
* *The tables.* What is inductive is short, `Cycle`: each endpoint has answered once, with
  rows of its own. The rest is about the functions of the replies, one loop invariant for
  each loop: `kept` has in order the good rows and no others, a client's list is in
  one-to-one correspondence with the devices met so far, the registry's list has each series
  sent exactly once. A collector's list is known by its `Range`, section by section, since no
  property but the counts depends on order; for those `DistinctIn` says that no two entries of
  a list share a key, whence its length is the cardinality of its keys. The counts per
  interface are added up over the set of interfaces, one disjoint class at a time.

Changing a definition the way its mutant does (`NormalizeNothing`, `RepeatsVerbatim`,
`radioSignalOfZero`, `NothingOnError`) makes steps of these proofs fail, as it makes TLC
find a counterexample.

**Model-checked only.** Liveness (`StopsWhenCancelled`, `StopEnds`, `StopCompletes`):
fairness and `ENABLED` are out of the prover's reach. Every safety invariant and action
property that a passing run checks is proved.

## Findings

Five places where a document or a comment says one thing and the code does another; each
has a run that shows the trace.

1. **The stop may leave the session.** `client.go:428` drops the stok whatever came back.
   If the signal cancels the renewal's logout, the deferred logout has nothing to send,
   and nothing is logged; `README.md:220` and `poller.go:199` say the session is freed.
2. **`OnCycle` after a cycle cut short** reads the *previous* cycle's state under the
   new stamp (`poller.go:284`, `:264`); `poller.go:89` says it is this cycle's.
3. **A 403 that is no JSON** is an ordinary failure (`client.go:177`), not the
   `ErrSessionExpired` that `client.go:248` and `client_test.go:543` promise.
4. **A refused logout returns nil** (`client.go:427` ignores the envelope): the session
   stays, and nobody warns; `client.go:420` says it is freed.
5. **`tplink_endpoints_failed`** counts one endpoint for a session that died in
   mid-cycle (`poller.go:583`), although all those after it are missing from the
   snapshot; `README.md:239` says it is the endpoints missing.

## Not modelled, and why

Ciphers, RSA and the encodings of `crypto.go`: arithmetic on strings that no state
depends on. `redact.go`: a pure function on names with table tests. The parsers of
performance, uptime, internet state, firmware, clock and DHCP setting: which of them
fails is `Snapshot`'s, what they read has no join and no state. `cmd/recon`:
one login, a list of calls and a logout, one of the sequences `Client` explores; its
own part is the list and the printing. The landing page, the usage text, labels'
spelling, dashboard, build and container files: no behaviour. Logging but for the push
side's outage flag. A wall clock set back: the code takes no measure against one and the
models' clock only advances. Overflow: `-timeout` plus `-push-timeout`, the hours of a
lease and the interval's multiples are 64-bit nanoseconds in the code and whole numbers
here; values near 292 years are outside the models.

## Plan

Done, in this order: `Poller` with its proofs (the one session is what the program is
built around), `Sender` with `Ring`, `Client` with its contract, `Snapshot`; then
`Delivery` and the ring's array inside `Sender`, `Lifecycle`, `Options` with `Exporter`,
and `Tables`.

Then the proofs: `Poller`, `Sender` over `Ring` with its refinement of `Delivery`,
`Exporter`, the rest of `Poller` with its refinement of `Lifecycle`, `Client` with its
refinement of `WebSession`, and `Snapshot`.

Last, the folds: `FoldTheorems`, the labels of `RunsAsConfigured`, and the four properties
of `Tables`, after which the proofs cover every safety property of the runs. For them the
loops that skip rows became the fold `kept`, since the prover cannot expand `SelectSeq`;
a rate became the fraction the code computes, which the whole quotient had hidden below
1000 kbit/s; and a `test_time` below 0 is no stamp, as in the code. Left is what
the section before this one lists.
