# A verification of the OONI Probe engine

OONI Probe measures network interference. This directory models, in TLA+, the parts
of its engine that keep state and run concurrently: how it reaches the OONI backend
although the network may interfere, how it authenticates, how apps and command line
programs drive it, how its most important experiment, Web Connectivity, measures a site
and decides whether it is blocked, and what becomes of a measurement afterwards.
Small instances are checked with TLC; the theorems hold for every value of the
constants and their proofs are checked by TLAPS. `PROJECT.json` holds the index: which
lines of the source each definition stands for, what each run checks, the hazards of
the code and the properties that cover them.

## 1. Inventory of the system

### Reaching the backend: `internal/enginenetx`

Every HTTPS connection to the backend goes through `httpsDialer`, which tries a
sequence of *tactics*. A tactic is an address, a port, an SNI and a name to verify.

| part | state | operations | hard behaviours |
|---|---|---|---|
| dialer (`httpsdialer.go`) | collector and joiner channels, the connections and errors collected, the shared context, the zero time of the schedule | `DialTLSContext`, `worker`, `dialTLS`, `httpsDialerTacticWaitReady` | 16 workers race on unbuffered channels; the winner cancels the others, which may succeed anyway; timers race the cancellation |
| policies (`mixpolicy.go`, `filter.go`, `dnspolicy.go`, `bridgespolicy.go`, `statspolicy.go`, `userpolicy.go`, `testhelperspolicy.go`) | one goroutine and one channel per policy | `LookupTactics`, interleaving, either-or, the filters | a pipeline of blocking sends: a stage that stops early leaks all those before it |
| statistics (`statsmanager.go`) | records per endpoint and tactic, in memory and in the key-value store | the callbacks of a dial, `trim`, `Close`, loading | a background trimmer, concurrent dials, processes that die before or while saving |

The dialer takes tactics from the policies through a channel and reports what happens
to the statistics through `httpsDialerEventsHandler`; the statistics feed the stats policy of
the next dial. *Correct* means: no connection or goroutine is leaked, exactly one
connection is returned, an attempt interrupted by the winner is not held against its
tactic, no tactic is lost or repeated, useful records are kept and useless ones are not.

### Resolving names: `internal/engineresolver`

`Resolver.LookupHost` tries DNS resolvers by decreasing score and updates the scores,
kept in the key-value store; child resolvers are created on demand and cached.
Concurrent calls read and write the scores without a lock. *Correct* means: no supported
resolver disappears from the file, a lookup gives up only when every usable resolver
failed, cancelling a lookup does not ruin the scores, children are not lost.

### Calling the backend: `internal/httpclientx`, `internal/probeservices`

`Overlapped.Run` calls several equivalent endpoints, each in a goroutine, starting the
next at a tick or a failure. *Correct*: one result per endpoint, it always returns,
and fails only if all calls did. The orchestra client (`register.go`, `login.go`,
`statefile.go`) registers, logs in and keeps credentials and token in a state file that
clients, also of other processes, update without a lock across network requests.
*Correct*: identities are never mixed and a registration is never undone.

### The session: `internal/engine`

A `Session` holds the memoised probe service (`benchselect.go`) and location
(`enginelocate`), under one mutex that is held during the lookups, and what
`NewSession` acquires (temporary directory, tunnel, resolver, network). Its methods may be
called concurrently. *Correct*: the best service is selected, once; nothing is measured
or scrubbed without the location; a done context does nothing; no method waits
forever; `Close` is complete for whoever calls it.

### The app: `pkg/oonimkall`

A `Task` runs one experiment in a goroutine and emits JSON events on a channel with room for
128. The app reads them with `WaitForNextEvent` and may `Interrupt`. *Correct*:
well-formed sequences of events, the end announced once, a measurement that was
cut short never shown, no task that hangs.

### Submitting: `internal/userauth`, `probeservices/submit.go`, `engine/savemeasurement.go`

A measurement is submitted with an anonymous credential, kept in the key-value store and
replaced by its successor at every use, or plainly, which is also the fallback. Processes share
the store without a lock. *Correct*: the stored credential is one that the backend has not
seen, a measurement is submitted once, and every exception follows a fault of the network, the
disk or the process.

### The programs: `cmd/ooniprobe`, `internal/database`, `internal/oonirun`

`ooniprobe` runs groups of nettests: for each input it inserts a row, measures, submits,
records the outcome and saves to disk what could not be submitted; `rm` deletes a result, and
Ctrl-C ends a run early. `miniooni` runs OONI Run links: it fetches a descriptor, compares it with
the one in its cache, asks the user to review what changed, then measures, submits and saves
to a report file. Any step may fail, and a process may be killed between any two. *Correct*:
a measurement marked done is on the backend or on disk, a finished result has a settled
row for every input, what was deleted does not come back, and a link never
runs in a form the user has not accepted.

### Web Connectivity: `internal/experiment/webconnectivitylte`, `internal/minipipeline`

| part | state | operations | hard behaviours |
|---|---|---|---|
| measurement | test keys under a mutex, the wait group, a priority selector per step, the DNS cache | `Measurer.Run`, `DNSResolvers`, `CleartextFlow`, `SecureFlow`, `Control`, `prioritySelector` | each task starts others; connections race for one permission to fetch, with timers on both sides; redirects start the next step; addresses from the test helper come last |
| analysis | observations, cross-referenced with the control | `Ingest...`, `ClassicFilter`, the metrics, `analysisClassic`, `analysisExt` | the verdict depends on the first observation that decides, in an order in which concurrent tasks had a part |
| test helper (`oohelperd`) | none shared | DNS, then all endpoints and the page | what it does *not* measure has no control |

*Correct*: `Run` does not finalize while a task still writes, each step is fetched at most once,
through an address of the best class if one asked in time, and somebody fetches if anybody can; nobody is accused
without a control; a site is accessible when, and only when, a page says so; the classic
verdict is that of the system resolver, whichever resolver was faster.

### Components not modelled

`PROJECT.json` lists them with the reason; section 6 sums it up.

## 2. Modules

| module | models | variables / actions |
|---|---|---|
| `TLSDialer` | the contract of `model.TLSDialer`, as its callers use it | abstract specification: connections and what was returned |
| `HTTPSDialer` | one `DialTLSContext` | parent, emitter, workers, clock; one action per step between two channel operations, network operations or context checks. Refines `TLSDialer` |
| `TacticPolicy` | the goroutines that `newHTTPSDialerPolicy` composes, and the filters | a channel per goroutine; the composition of all policies. Its specification is `PolicySpec` |
| `HTTPSDialerProofs` | | theorems about `HTTPSDialer` and `TacticPolicy`, the dialer and its source of tactics |
| `TacticStats` | records, the comparison function, pruning | pure operators; what depends on the order of a Go map is a set of results |
| `StatsManager` | callbacks, trimmer, `Close`, restarts | extends `TacticStats`; its specification is `StatsSpec` |
| `SessionResolver` | `internal/engineresolver` | concurrent calls, store, cache of children |
| `StoredStateProofs` | | theorems about `SessionResolver` and `StatsManager`, the two users of the key-value store |
| `Overlapped` | `overlapped.go` | `Map`, the goroutines, the context |
| `ProbeServices` | the orchestra client | clients, the state file, the accounts and tokens of the backend |
| `ApiClientProofs` | | theorems about `Overlapped` and `ProbeServices`, how the backend is called and by whom |
| `Session`, `SessionProofs` | the methods of the session, backends, location, `Close` | a method is the sequence of its stages; the mutex is explicit |
| `Task`, `TaskProofs` | `StartTask`, the runner, the emitter, the app | the runner is a sequence of stages, each with the events it emits |
| `Submission` | `userauth`, `NewSubmitter`, `submit.go` | processes, the stored credential, the backend's view of credentials and measurements |
| `Nettests` | `RunGroup`, `Controller.Run`, the database, `rm`, signals | rows, files and directories, with the result that a process keeps in memory |
| `OONIRun` | v2 links, the input loop of `miniooni` | descriptor cache, revisions, reviews, report file |
| `Programs`, `ProgramsProofs` | either program over the shared `Submission` | composes the three above, with crashes |
| `WebConnectivity`, `WebConnectivityProofs` | one measurement | wait group, tasks, selectors, timers, requests |
| `WebAnalysis`, `WebAnalysisProofs` | the analysis of one measurement, and what the test helper reports | the events, appended in any order; observations, metrics and verdict are operators |
| `MC...` | | values for constants |

How the modules meet: `TacticPolicy!TacticsWellMixed` and `PipelineDrains` (different
tactics, and a channel that is closed in the end) are what `HTTPSDialer` assumes of its emitter.
`HTTPSDialer!EveryTacticAccounted` (each tactic that starts ends with exactly one
callback) is what `StatsManager` assumes of an attempt. `Session` assumes of the
registration within a request only that it succeeds or fails; `ProbeServices` models it.
`Nettests` and `OONIRun` extend `Submission` and hand over to it through the program counter; `Programs`
puts them together, so that the properties of the submission are checked under the
loops that really call it. `WebConnectivity!JoinIsComplete` and `RequestsInOrder` are what
`WebAnalysis` assumes of the test keys: all the events are there when `Finalize` runs, in any order
of the resolvers, one fetch per step.

Conventions. Actions and operators have the names of the functions they
translate. A send and the receive of an unbuffered channel are one step. A section that
holds a mutex without a network request in it is one step; one that holds it
across requests (`Session`) has the mutex as a variable. Variables marked *history* are
read by properties only. A definition such as `Return_Early`, marked *Mutant*, is not
part of any specification: it is a plausible bug, put in place of `Return` to see that the
property it is paired with in `PROJECT.json` notices.

Abstractions. Network operations succeed or fail at any time; the errors told apart are
those of a done context. Addresses, domains, passwords and tokens are names or numbers. The
three error counters and the two interrupt counters of a record are one each
(nothing tells them apart). Resolver scores are decimals with the digits that
`Scale` has room for; the random initial scores are distinct constants. Sorting them is
stated by what it gives (a permutation in decreasing order), since the order of equal scores
is not specified. The comparison function of the statistics is not an ordering, so that what their sort
returns depends on the algorithm: up to `SortBlock` records (20 in Go's library) `sort.SliceStable` is an
insertion sort, which is kept as it is; longer lists it sorts in blocks and merges, and the model then
allows any order. The wall
clock of `HTTPSDialer` counts seconds, that of `StatsManager` units longer than an attempt.
In `Programs` a restart is a later invocation with the same home directory, and a row,
a file or a submission is identified by its measurement; the probe ID, report ID and UID are left out.
In `WebConnectivity` the three lookups of a step are one, which returns when all have, except for
DNS over UDP, whose goroutine outlives its answer; a timer may fire at any time, and the
history variable `slow` remembers when one beat a peer that was ready. In
`WebAnalysis` failures are any strings of `netxlite`, in the order of their names (`FailureOrder`), by
which the code orders observations; a comparison of pages is given by which of status, body, headers and title match.
Addresses are public or loopback: private ones, which only the helper refuses, are left out.

## 3. What the runs show

All pass unless marked *violation*. Deadlock is checked except where the system may
stop (`orchestra`: clients out of accounts; `session`: after `Close`; `webconnectivity` and
`analysis`: after the measurement). `programs` has an explicit final step instead, so that an
invocation that hangs is a deadlock. A property that is a conjunction of named parts is paired
with a mutant for each part.

| run | bounds | shows |
|---|---|---|
| `dialer` | 2 workers, 0 to 3 tactics, up to 1 s before the first tactic | `NoConnLeak`, `EveryTacticAccounted`, `BlameIsDeserved` (an interrupted attempt is not a failure; the dialer causes no failure of its own), `HappyEyeballs`, the refinement of `TLSDialer`, `DialReturns` |
| `policy` | factor 2, up to 3 DNS addresses, 1 bridge with 2 SNIs, every kind of user policy and domain | `TacticsWellMixed`: the output of each mixer is the documented interleaving (compared with a definition by positions), no tactic lost or repeated, a fallback within the first N + 1; `PipelineDrains`: no goroutine left |
| `stats` | 3 tactics for 2 places and one alone, 2 concurrent attempts out of 3, records expire, restarts | `OutcomesWithinStarted` (with what is in flight, outcomes never exceed starts), `ReloadKeepsFresh` (reloading changes nothing but expired records), `TrimKeepsDominant` (of an endpoint with up to `SortBlock` records) |
| `stats_rate` | 2 tactics for 1 place | *violation*, the finding below |
| `resolver` | 3 resolvers of which 2 cannot be proxied, 2 concurrent calls, with and without proxy, 5 initial files | `NoResolverForgotten` (the file stays complete, lookups are exhaustive, children are cached), `ScoresAreFair` (a cancellation spoils at most one score, a winner outscores those that failed), `LookupReturns` |
| `overlapped` | 0 to 4 endpoints | one result per endpoint and no goroutine left, genuine failures, termination even if the ticker never ticks |
| `orchestra` | 2 clients, 2 accounts, 3 tokens | consistency of the file, refusals explained, registrations kept |
| `session` | 2 concurrent methods out of 4, 2 https services, 1 cloudfront, 1 onion, 2 durations, 2 closers | `RightServiceSelected`, `StepsInOrder` (location before measuring, nothing after cancellation), `CloseIsComplete`, `BackendNeverChanges`, `MethodsReturn` |
| `task` | up to 3 targets, room for 2 events, 1 background log | `EventsWellFormed` (the end announced once and last, protocol of the events, cut measurements discarded), `TaskTerminates` |
| `programs` | 2 invocations with 3 measurements, 2 manifest versions, 2 revisions of 2 links, 1 fault or intervention | `StoredCredentialFresh`, `DuplicatesExplained` (one copy per path, and two only after a fault between acceptance and storing the successor), `MeasurementsAccounted`, `FinishedIsComplete` (settled rows, one for each input), `NoUnreviewedRun` |
| `webconnectivity` | 3 addresses, 1 redirect, 3 worlds of answers, http and https, with and without helper | `JoinIsComplete`, `RequestsInOrder`, `PriorityRespected` (the highest class that asked in time, else the first to ask), `MeasurementIsComplete`, `RunReturns` |
| `analysis` | 3 addresses, 2 resolvers, 1 redirect, 6 kinds of helper | `NoAccusationWithoutControl`, `AccessibleIsWitnessed`, `VerdictOrderFree` |

Why the bounds are enough for the cases that matter. *Dialer*: with two workers and three
tactics there are a winner, a loser that finishes late, and a tactic that is waiting or not
yet taken; the proofs cover any number. *Policy*: with a factor of two and inputs of zero
to three elements or more, turns end exactly, early and never. *Statistics*: one more
tactic than places makes the trimmer choose; two attempts of the same tactic are needed
to lose and recreate a record, and are there; no endpoint has more than `SortBlock` = 3 records, beyond
which `TrimKeepsDominant` claims nothing. *Resolver*: two calls suffice to
overwrite each other. *Overlapped*: with four endpoints, two can be in progress while one
succeeds and one has not started. *Orchestra*: two clients interleave, two accounts can
be mixed, three tokens allow one to be replaced while another is used. *Session*:
two callers contend for the mutex; two services of each class exercise selection and
fallback. *Task*: three targets are a first, a middle and a last, and a
channel of two fills up between any two events. *Programs*: two
invocations share credential, cache and database; one fault suffices for each explanation the
properties give, and the run with two faults (11.4 million states) was found to pass too.
*Web Connectivity*: an address of each priority and one that only the helper knows; a
redirect to a cached and to a new domain; one redirect reaches the limit. A fourth world, in which the
three resolvers return three different addresses, adds a million states and was checked apart.
*Analysis*: an address that belongs to the site, one that does not and one
that is not connected to; the helper agrees, fails in each way, or is unreachable. The
guards for AAAA and DNS-over-HTTPS are in the model, but this instance has neither lookup.

Every bound is a constant named in the module;
counters (`MaxStarts`, `MaxLookups`, `MaxLogs`, ...) only limit how often the environment acts.

### Fairness

- *Dialer*: parent, policy and workers are goroutines that the Go scheduler runs, and
  network operations have timeouts. Time passes only while the context is live:
  a cancelled dial must not need a timer.
- *Policy*: the goroutines run, the DNS lookup has a timeout, workers keep receiving
  (`HTTPSDialer` shows that they do until the channel is closed).
- *Resolver*: each call is scheduled; a child gives up after four seconds.
- *Overlapped*: `Map` is scheduled, the watchdog expires, and a call returns **once
  the context is done**. Nothing is assumed of calls before that, or of the ticker.
- *Session*: each method is scheduled and its requests have timeouts; the mutex is
  not assumed to be fair beyond weak fairness of each caller.
- *Task*: the goroutine is scheduled, and the app keeps reading. An app that does not
  read blocks the runner when the channel is full, as the code accepts.
- *Web Connectivity*: every goroutine is scheduled and each of its network operations has a
  timeout; `Expire` and the timeouts of `permissionToFetch` are timers. Cancellation is
  not assumed.
- *Programs* and *Analysis* state no liveness.

### Finding

`statsmanager.go:150` sorts with a comparison that is true when *any* of success rate,
number of successes or time of the last update is larger. `DESIGN.md:471` says "by
decreasing success rate; then by decreasing number of successes; then by decreasing
last update time". It is not an ordering: a tactic that never worked but was tried
later evicts one that always worked (`TrimKeepsBestRate`). What does hold is weaker
(`TrimKeepsDominant`): of an endpoint with up to 20 records, none is dropped in favour
of one that is better by no criterion and worse by one. Beyond 20 even that fails, as said below.

### Observations

Behaviours that the models allow, or that came up while writing them, and that no run of
their own is about. The first four differ from what a comment or a document of the repository says;
the others the code accepts.

- *Uploaded flag.* `internal/model/database.go:52-53` says that `UpdateUploadedStatus` "will check if all
  the measurements inside of a given result set have been uploaded and if so will set the is_uploaded
  flag to true". The query (`internal/database/actions.go:211-217`) selects a `SUM` and a `COUNT` without
  naming them, and the fields that should receive them are tagged `db:",inline"`
  (`model/database.go:191-194`): the mapping by column name that the database library documents fills
  neither, zero equals zero and the flag is always set. The test (`actions_test.go:149`) reads
  the table of measurements and does not see it. The model sets the flag as the code does, and
  `FinishedIsComplete` says nothing of it. This rests on the documentation of the library, which is not
  part of the repository.
- *Order of priorities.* `priority.go:4-6` gives priority "to the system resolver, then to the UDP resolver,
  then to the DoH resolver, then to the TH", and `priority.go:151` grants "the highest priority request".
  `findHighestPriority` (`:216-224`) tells only the highest class from all others and returns the first
  request when none is of that class: when the system resolver found addresses, none of which
  connects, an address that only the helper knows and that asked first is preferred to one from DoH
  that the selector also holds. `PriorityRespected` states what the code does.
- *Statistics, long lists.* Beyond 20 records of one endpoint `sort.SliceStable` merges blocks by binary
  search, which presumes an ordering. With 21 records (15 of rate 1 updated at time 1, 5 that never worked
  updated at time 6, then one that never worked updated at time 5) the trimmer keeps the last and drops the
  five that are no worse by any criterion and newer.
- *Late successes.* `overlapped.go:116` says that results after a success "will be [context.Canceled]
  errors"; a call that is complete when the first success is collected still posts a
  success. `OverlappedReduce` takes the first, so callers of `Run` do not notice.
- *Statistics.* The trimmer may remove the record of a tactic in use (`statsmanager.go:630`); when another
  attempt recreates it, both count as successes of one start. For this reason
  `OutcomesWithinStarted` is about endpoints with room for all of their tactics.
- *Dialer.* `filter.go:67` writes delays into tactics that a user policy shares among concurrent dials.
  All dials of an endpoint see the same sequence, hence write the same values.
- *Late DNS replies.* The goroutine of `lookupHostUDP` enters the wait group after it has sent its
  addresses (`dnsresolvers.go:275`), so that late replies may be appended after `Finalize`.
- *Selector.* When a timer of `permissionToFetch` beats a selector that has granted the permission,
  nobody fetches. `MeasurementIsComplete` says that nothing else, except a URL of a redirect that
  cannot be requested, leaves a step without a fetch.
- *Analysis without a control.* When the lookup fails and the helper is unreachable, the classic
  verdict is "accessible, not blocked" although no page was fetched (`analysisclassic.go:352`).
  This is why `AccessibleIsWitnessed` supposes a control.
- *Analysis, order of addresses.* When several endpoints fail in different ways at the same step the
  last transaction decides (`analysis.go:81`), and transactions are numbered in the order of a Go
  map (`dnsresolvers.go:155`): a site may be "down" or "tcp_ip" by chance. `VerdictOrderFree` is
  about the order of the resolvers only.
- *Analysis, first lookup.* A TLS handshake vouches only for the first lookup that returned its
  address; of the A and AAAA lookups of one transaction only the first event is considered.
- *Two engines.* The classic engine accuses after redirects when the control's own fetch failed;
  the extended one does not.
- *Credentials.* When the backend has accepted a measurement and returned its UID, but the rotated
  credential cannot be saved (`submitter.go:153-158`), `Submit` falls back (`:168-171`) and submits it again,
  although the probe has seen the success. The next submission with the old credential is refused and falls back
  too. `DuplicatesExplained` and `StoredCredentialFresh` name these exceptions (`unsaved`, `orphaned`) beside the
  answers that were lost, and show that there are no others.
- *OONI Run.* Two concurrent runs overwrite each other's cache entry; the effect is that a link is reviewed
  again, never that it runs unreviewed. `IsManualRunEnabled` and `IsBackgroundRunEnabled` are parsed and
  not used (`v2.go:36`).
- *Nettests.* A nettest that stops on a database error leaves rows that are neither done nor failed
  in a result that is marked done; `FinishedIsComplete` supposes no such error.

## 4. What is proved

Each `Proofs` module shows, for every value of the constants within the assumptions named in the
modules, that an invariant is inductive (`Invariance`: it holds at first and every action keeps it)
and that the properties of the runs follow from it. TLC has checked every one of these invariants on
the instance of the corresponding run before it was proved.

| module | for every | theorems (property) |
|---|---|---|
| `HTTPSDialerProofs` (dialer) | finite, non-empty set of workers; number of tactics; delay before the first | `TypeCorrectness`, `ConnsNeverLeak` (`NoConnLeak`), `Refinement` (`ImplementsTLSDialer`), `TacticsAccounted` (`EveryTacticAccounted`), `BlameDeserved` (`BlameIsDeserved`), `StartsAreStaggered` (`HappyEyeballs`) |
| `HTTPSDialerProofs` (policies) | interleaving factor (a byte); non-empty lists of DNS addresses and of bridges; finite set of SNIs | `PolicyTypeCorrectness`, `TacticsAreWellMixed` (`TacticsWellMixed`) |
| `StoredStateProofs` (resolver) | finite, non-empty set of resolvers; set of concurrent lookups; precision of the scores | `TypeCorrectness`, `ResolversRemembered` (`NoResolverForgotten`), `FairScores` (`ScoresAreFair`) |
| `StoredStateProofs` (statistics) | finite set of tactics, their endpoints, room and lifetime of records; finite set of attempts | `StatsTypes`, `OutcomesAreBalanced` (`OutcomesWithinStarted`), `ReloadIsLossless` (`ReloadKeepsFresh`), `DominantIsKept` (`TrimKeepsDominant`) |
| `ApiClientProofs` (overlapped) | number of endpoints | `MapTypes`, `OneResultPerEndpoint` (`ResultPerEndpoint`), `FailuresAreGenuine` (`FailureIsGenuine`) |
| `ApiClientProofs` (orchestra) | set of clients, number of accounts and tokens | `ClientTypes`, `FileNeverMixesAccounts` (`StateFileConsistent`), `RegistrationIsKept` (`RegistrationSticks`), `FailuresAreExplained` (`AuthFailureIsExplained`) |
| `TaskProofs` | size of the channel; number of targets and of log messages | `TypeCorrectness`, `AppReceivesWellFormedEvents` (`EventsWellFormed`) |
| `SessionProofs` | set of concurrent methods and of callers of `Close`; list of services | `StepsAreInOrder` (`StepsInOrder`), `CloseCompletes` (`CloseIsComplete`), `BackendIsKept` (`BackendNeverChanges`), `MutexIsReleased`, `BestServiceIsUsed` (`RightServiceSelected`) |
| `ProgramsProofs` | set of invocations; nettests and inputs of each; links, revisions and faults | `StoredCredentialIsFresh`, `DuplicatesAreExplained`, `MeasurementsAreAccounted`, `FinishedResultsAreComplete` (`FinishedIsComplete`), `NothingRunsUnreviewed` (`NoUnreviewedRun`) |
| `WebConnectivityProofs` | finite set of addresses; number of redirects; answers | `JoinIsCompleteHolds`, `RequestsInOrderHolds`, `PriorityRespectedHolds`, `MeasurementIsCompleteHolds` |
| `WebAnalysisProofs` | set of addresses, lookups, failures, outcomes and helpers | `NobodyAccusedWithoutControl` (`NoAccusationWithoutControl`), `AccessibleHasWitness` (`AccessibleIsWitnessed`) |

None of the properties is inductive as it stands. What the invariants add:

*Dialer.* Typing alone needs to know which workers have a tactic (`TacticsOwned`). For leaks the
question is who is responsible for an open connection at each moment. `ConnsOwned` says that a
worker in a state that has a connection has an open one of its own tactic, `OpenConnsHeld` that an
open connection is held by a worker or collected by the parent, `ConnsCollected` that those in
`connv` are open until the parent returns, `JoinsCounted` that `numJoined` counts the workers that
are done, so that when it reaches their number nobody holds anything, and `Phases` ties the states
of parent and workers together. `IInv` is their conjunction. The refinement maps each step to a step
of `TLSDialer` or a stutter, and uses `IInv` where `Return` must leave one connection open.
A second invariant, `Account`, stands on the first. `Kept` says where each tactic is that was taken
from the channel (with a worker, in `connv` or in `errorv`) and counts them, so that none is lost or
collected twice; `Told` what the events handler has been told of it at each step; `Cancelling` that
until the parent returns only a collected connection makes the dialer cancel; `Clock` relates the
zero time to the first tactic.

*Policies.* `PolicyInv` is about what is on its way, while `TacticsWellMixed` is about what is
complete. `Flow` says that what a goroutine is still sending is the end of what it was to send, so
that `Got`, how many of its tactics were received, is the difference of two lengths. For a mixer, `Placed` says
that each tactic it has received is already at the position it will have in the final interleaving, although
its inputs may have more to send: the position is settled when the other input has sent all the tactics that come
before, or is closed (`Settled`). `Turns` is why: it relates the turn, the count within it and the inputs still open to
how many tactics were received from each, in blocks of N. Without it one cannot tell that the next tactic belongs
at the end of the output (`PrimaryPlace`, `FallbackPlace`). When both inputs are drained the positions of the
two cover the whole output once, which is the definition by positions (`PlacedDone`). `EitherInv`, `FilterInv`
and `Deduped` follow the tactics from the mixers to the workers: the last says that each is kept once and at no later
position than it had, which is what `FallbackIsEarly` needs. The assumption `PolicyAssumption`
gives the constants their types and says that no SNI is the one that marks a nil entry of the user policy.

*Session resolver.* The lookups share the stored scores and the cache of children without a lock, so
the invariant is in two parts: what they share (`StoreInv`, `ChildrenInv`) and, for each call, what it
knows (`CallInv`): the list it works on is complete, what it tried is behind it, and what it will write
is complete again. A stale list is therefore harmless for `NoResolverForgotten`, whatever the other calls
wrote meanwhile. `CallInv` is stated on values, so that a step of one call leaves that of the others alone.

*Statistics.* The argument is about pruning, which happens in the background, at `Close` and at load, in
an order that Go does not specify. `Sorts` says what `SliceStable` returns for any order: the
tactics of the endpoint, each once, and, if there are at most `SortBlock` of them, none after one that it
dominates. It is proved by induction over the
insertions and rests on `NotLessTransitive`: the comparison function is not transitive, but its
negation is. `FirstFresh` derives what is kept of such a list. `StatsInv` then says that a record in use
is as recent as can be, hence kept where there is room (`InFlightInv`), and that what is on disk
was pruned and is balanced (`DiskInv`), although it may have been saved while attempts were in flight.

*Overlapped.* A counting argument: results are of distinct endpoints whose goroutines have
joined (`Joined`, `Distinct`), and only endpoints up to `idx` have one (`Born`), so that the map from
results to endpoints is injective and, when there are `n` results, surjective. `FailureIsGenuine`
needs the reason why the context is done: until it returns, `Map` cancels it only when it has
a success (`WhyCancelled`).

*Orchestra client.* The invariant says what each client knows at each step about the state in
its hands and the reply it has received (`Knows`): a state read before a request is still consistent
with the backend after it, because accounts and tokens are only added (`BackendGrows`).
`FailuresAreExplained` needs a second invariant (`Explained`): between its own write and its
read, a client without an excuse finds in the file what it wrote.

*Session.* A method is the sequence of the stages that are left for it, and the invariant is about
that sequence: whoever is in a lookup, or between a lock and an unlock, holds the mutex, and
unlocks it before anything else (`Shape`, `Holds`); a location is looked up before it is read
(`LooksUpFirst`); a goroutine that tries services has found none selected. The assumption that `None` is
neither a caller nor a closer, nor a candidate, is what the name means.
`BestServiceIsUsed` needs, besides, what the loops of `benchselect.go` compute: that the https services
are tried first and the onion services last (`ServicesInOrder`), that no fallback is tried once a service works
(`TryAllGoesOn`), and that the selected service is the fastest of those that work (`SelectsBest`).

*Task.* `All` is what the app has received, what is in the channel and what the runner is still emitting,
in a row. A step of the runner appends to it; a step of the emitter or of the app moves an event from one
part to the next, or drops a quiet one (a log, or the nil that ends the channel), which the invariant does not
see (`Same`). `RunnerInv` says what each stage of the runner knows of the events said so far (`Progress`, `Excused`,
`Ending`), and what the app receives is the beginning of `All`.

*Programs.* One part for each thing that the invocations share. `Credentials` says who is about
to store a credential, and that no two are about to store the same or one that was used.
`Received` says, from where an invocation is, which of its measurements the backend can have. `Recorded`,
`Deleted` and `Complete` do the same for rows, files and results, `Covered` for the inputs: unless a run was
told to stop, there is a row for each input before the one it is at, of each nettest before the one it is in,
hence for all of them when it ends. `Reviewed` for the descriptors
in the cache and in the copies of it that invocations have loaded. The theorems about
submission are proved under the loops of both programs.

*Web Connectivity.* `Counted` gives the counter of the wait group its meaning: it is the number of
tasks in the group (the sum of the cardinalities of four sets, which is why the set of addresses is
finite). `Chain` says which step the redirects have reached from the requests made so far and those
left, `Granted` that each step gives one permission, and `Asked` that whoever has asked is on the way to
an answer.

*Analysis.* The events have a small invariant (one fetch per step, a final response only at the
last step). The rest is about pure operators: the order of the observations is made explicit
(`BeforeIf`) and shown to have a first element in any set of observations (`FirstExists`), so
that the `CHOOSE` in `Classic` means what `NewLinearWebAnalysis` computes; a final response comes
before everything else (`FinalIsFirst`); without a control no observation has one of its own
(`NoControl`). The assumptions say that outcomes are failures of the list and that only a
response is final.

*Loops.* Induction over data is done with sets. The lemma `Induction` says that a set with 0 and the
successor of each of its members up to `n` has all of `0..n`; it follows from the minimal element
of its complement. `LoopExists` derives from it that a loop written as a recursive function has a
value at each index (`IsLoop`). `SessionProofs` and `StoredStateProofs` use them for the loops of `benchselect.go` and
for the sort of `statsmanager.go`, which are therefore written as recursive functions.

Only model-checked, and why:

- all liveness properties (`DialReturns`, `PipelineDrains`, `LookupReturns`, `RunTerminates`,
  `MethodsReturn`, `TaskTerminates`, `RunReturns`): the proof system reasons about neither fairness nor `ENABLED`;
- `VerdictOrderFree`: it compares two runs of the whole analysis, on the same events in two orders.

A module that states a `TypeOK` which no theorem mentions documents its variables with it: add it as
an INVARIANT to the configuration to check it.

## 5. Running it

    tlc -workers 2 -config HTTPSDialer.cfg HTTPSDialer
    tlapm HTTPSDialerProofs.tla

`PROJECT.json` gives the module and the configuration of every run. The slowest runs take
two to three minutes.

## 6. Not modelled, and plan

Most of the repository is not a state machine of its own. About half of its lines are
the network library (`netxlite`, `measurexlite`: wrappers that classify errors and record events),
the older library it replaces, tutorials, experimental code, internal tools, emulated networks
and test support, and data (certificates, tables of commands). About a seventh is the other
experiments, each a sequence of network operations and a translation of what they returned, which
share with the others only the session modelled here. A model of these would say again what the code
says. The mapped lines are the stateful core: what is concurrent, persistent or decided.

Not modelled within modelled parts: version 1 OONI Run links and the loading of targets; the list and
show commands and the onboarding; the report that the mobile task opens beyond success or
failure; `miniooni --no-json`, which saves nothing (`MeasurementsAccounted` presumes a report file); the flags about expected failures and bogons of the extended analysis and how it compares
pages; the server loop of the test helper, whose limit of requests in progress is checked before
it is incremented (`handler.go:181`); HTTP/3. Tunnels are external programs: the session models their
success or failure. The mobile session API is one mutex around the engine.

Worth doing next:

1. **Proofs**: `VerdictOrderFree`, from lemmas that relate what `Ingest` makes of the same events
   in two orders.
2. **Compositions**: dialer with statistics, replacing the assumption that `StatsManager`
   makes of an attempt.
3. **Trace buffers** (`measurexlite`): bounded channels that drop when full.
