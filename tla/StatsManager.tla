---------------------------- MODULE StatsManager ----------------------------
(***************************************************************************)
(* The statsManager of internal/enginenetx: the records in memory, updated *)
(* by the callbacks of concurrent dials, the background goroutine that     *)
(* trims them, Close, which saves them, and the next run of the program,   *)
(* which loads them.  Every callback holds the mutex while it runs.        *)
(*                                                                         *)
(* An attempt is one execution of dialTLS: it calls OnStarting and then    *)
(* exactly one of the other callbacks (EveryTacticAccounted of module      *)
(* HTTPSDialer).  The clock counts in a unit much longer than an attempt.  *)
(*                                                                         *)
(* The names StatsInit, StatsNext and so on let a module extend this one   *)
(* together with SessionResolver, which shares the key-value store.        *)
(***************************************************************************)
EXTENDS TacticStats

CONSTANTS
  Attempts,    \* attempts that may be in flight at the same time
  MaxStarts,   \* bound: attempts started overall
  MaxTime      \* bound: the clock

ASSUME ManagerAssumption ==
  IsFiniteSet(Attempts) /\ MaxStarts \in Nat /\ MaxTime \in Nat

VARIABLES
  manager,    \* life cycle of the manager and of the process it belongs to
  trimmer,    \* whether the background goroutine is running
  container,  \* the records in memory
  disk,       \* what the key-value store holds under statsKey
  attempt,    \* the tactic of each attempt in flight
  starts,     \* how many attempts have been started
  now         \* the clock

statsVars == <<manager, trimmer, container, disk, attempt, starts, now>>

NoTactic == "none"

ASSUME TacticsAssumption == NoTactic \notin Tactics

InFlight(t) == {a \in Attempts : attempt[a] = t}

\* The stored document when it is missing, does not parse or has another version
Unreadable == [ok |-> FALSE, data |-> newStatsContainer]
Saved(c) == [ok |-> TRUE, data |-> c]

StatsInit ==
  /\ manager = "down"
  /\ trimmer = "exited"
  /\ container = newStatsContainer
  /\ disk = Unreadable
  /\ attempt = [a \in Attempts |-> NoTactic]
  /\ starts = 0
  /\ now = 0

-----------------------------------------------------------------------------
(* Life cycle.                                                             *)

\* Mutant: what is on disk is used as it is, however old
LoadStatsContainer_NoPrune ==
  IF disk.ok THEN {disk.data} ELSE {newStatsContainer}

\* What loadStatsContainer may return, or an empty container if it fails
LoadStatsContainer ==
  IF disk.ok THEN ContainerPruneEntries(disk.data, now) ELSE {newStatsContainer}

newStatsManager ==
  /\ manager = "down"
  /\ manager' = "open"
  /\ trimmer' = "running"
  /\ container' \in LoadStatsContainer
  /\ UNCHANGED <<disk, attempt, starts, now>>

\* The ticker has ticked.  When the context is cancelled as well, the select
\* statement may still choose the ticker.
Trim ==
  /\ trimmer = "running"
  /\ UNCHANGED <<manager, trimmer, disk, attempt, starts, now>>
  /\ container' \in ContainerPruneEntries(container, now)

\* <-ctx.Done(): the background goroutine returns
TrimReturns ==
  /\ trimmer = "running"
  /\ manager \in {"cancelled", "saved"}
  /\ trimmer' = "exited"
  /\ UNCHANGED <<manager, container, disk, attempt, starts, now>>

\* Close, inside of closeOnce.Do: cancel, save, wait for the goroutine
CloseCancels ==
  /\ manager = "open"
  /\ manager' = "cancelled"
  /\ UNCHANGED <<trimmer, container, disk, attempt, starts, now>>

\* Mutant: Close saves the records as they are in memory
CloseSaves_NoPrune ==
  /\ manager = "cancelled"
  /\ manager' = "saved"
  /\ disk' \in {Saved(container), disk, Unreadable}
  /\ UNCHANGED <<trimmer, container, attempt, starts, now>>

CloseSaves ==
  /\ manager = "cancelled"
  /\ manager' = "saved"
  /\ \/ \E c \in ContainerPruneEntries(container, now) : disk' = Saved(c)
     \/ disk' \in {disk, Unreadable}   \* kvStore.Set fails
  /\ UNCHANGED <<trimmer, container, attempt, starts, now>>

CloseReturns ==
  /\ manager = "saved"
  /\ trimmer = "exited"
  /\ manager' = "closed"
  /\ UNCHANGED <<trimmer, container, disk, attempt, starts, now>>

\* The process exits or is killed, at any time; it may be writing the file
Exit ==
  /\ manager # "down"
  /\ manager' = "down"
  /\ trimmer' = "exited"
  /\ container' = newStatsContainer
  /\ attempt' = [a \in Attempts |-> NoTactic]
  /\ disk' \in IF manager = "cancelled" THEN {disk, Unreadable} ELSE {disk}
  /\ UNCHANGED <<starts, now>>

-----------------------------------------------------------------------------
(* The callbacks.                                                          *)

NewRecord == [count |-> [c \in Counters |-> 0], lastUpdated |-> 0]

Updated(r, counter) == [count |-> [r.count EXCEPT ![counter] = @ + 1],
                        lastUpdated |-> now]

\* SetStatsTacticLocked
With(c, t, r) == [u \in DOMAIN c \cup {t} |-> IF u = t THEN r ELSE c[u]]

\* Mutant: creating the record is not counted as starting
OnStarting_CreatesOnly(a, t) ==
  /\ manager # "down"
  /\ starts < MaxStarts
  /\ attempt[a] = NoTactic
  /\ attempt' = [attempt EXCEPT ![a] = t]
  /\ starts' = starts + 1
  /\ container' = With(container, t,
                       IF t \in DOMAIN container
                       THEN Updated(container[t], "started")
                       ELSE [NewRecord EXCEPT !.lastUpdated = now])
  /\ UNCHANGED <<manager, trimmer, disk, now>>

OnStarting(a, t) ==
  /\ manager # "down"
  /\ starts < MaxStarts
  /\ attempt[a] = NoTactic
  /\ attempt' = [attempt EXCEPT ![a] = t]
  /\ starts' = starts + 1
  /\ container' =
       LET record == IF t \in DOMAIN container THEN container[t] ELSE NewRecord
       IN  With(container, t, Updated(record, "started"))
  /\ UNCHANGED <<manager, trimmer, disk, now>>

\* The body shared by the callbacks that end an attempt: when there is no
\* record for the tactic, they return early
Finish(a, counter) ==
  /\ attempt[a] # NoTactic
  /\ attempt' = [attempt EXCEPT ![a] = NoTactic]
  /\ container' =
       IF attempt[a] \in DOMAIN container
       THEN With(container, attempt[a],
                 Updated(container[attempt[a]], counter))
       ELSE container
  /\ UNCHANGED <<manager, trimmer, disk, starts, now>>

OnTCPConnectError(a, ctxErr) ==
  Finish(a, IF ctxErr THEN "interrupt" ELSE "error")

OnTLSHandshakeError(a, ctxErr) ==
  Finish(a, IF ctxErr THEN "interrupt" ELSE "error")

OnTLSVerifyError(a) == Finish(a, "error")

OnSuccess(a) == Finish(a, "success")

\* Time passes; an attempt takes much less than a unit of the clock
Tick ==
  /\ now < MaxTime
  /\ \A a \in Attempts : attempt[a] = NoTactic
  /\ now' = now + 1
  /\ UNCHANGED <<manager, trimmer, container, disk, attempt, starts>>

-----------------------------------------------------------------------------

Close == CloseCancels \/ CloseSaves \/ CloseReturns

Callback(a) == \/ \E t \in Tactics : OnStarting(a, t)
               \/ \E ctxErr \in BOOLEAN :
                    OnTCPConnectError(a, ctxErr) \/ OnTLSHandshakeError(a, ctxErr)
               \/ OnTLSVerifyError(a)
               \/ OnSuccess(a)

StatsNext == \/ newStatsManager
             \/ Trim
             \/ TrimReturns
             \/ Close
             \/ Exit
             \/ \E a \in Attempts : Callback(a)
             \/ Tick

StatsSpec == StatsInit /\ [][StatsNext]_statsVars

-----------------------------------------------------------------------------
(* Properties.                                                             *)

\* The values that the variables may have.
StatsTypeOK ==
  /\ manager \in {"down", "open", "cancelled", "saved", "closed"}
  /\ trimmer \in {"running", "exited"}
  /\ IsContainer(container)
  /\ disk.ok \in BOOLEAN
  /\ IsContainer(disk.data)
  /\ attempt \in [Attempts -> Tactics \cup {NoTactic}]
  /\ starts \in 0..MaxStarts
  /\ now \in 0..MaxTime

EntriesOf(c, e) == {t \in DOMAIN c : domainEndpointKey[t] = e}

OutcomesOf(r) == r.count["error"] + r.count["interrupt"] + r.count["success"]

\* Loading what Close has saved keeps every record that is not too old, as it
\* was saved: pruning twice is like pruning once.
ReloadKeepsFresh ==
  [][manager = "down" /\ manager' = "open" /\ disk.ok =>
       container' = Restrict(disk.data, {t \in DOMAIN disk.data :
                                           Fresh(disk.data[t], now)})]_statsVars

\* Of an endpoint that has at most SortBlock (20) records, and whatever order the
\* map is iterated in, the trimmer never drops a recent record while it keeps one
\* that is no better by any of the three sorting criteria and worse by one.  With
\* more records it may: sort.SliceStable merges blocks, and the comparison of
\* statsDomainEndpointPruneEntries is no ordering.
TrimKeepsDominant ==
  [][Trim =>
       \A t \in DOMAIN container \ DOMAIN container' :
         \A u \in DOMAIN container' :
           /\ domainEndpointKey[t] = domainEndpointKey[u]
           /\ Cardinality(EntriesOf(container, domainEndpointKey[t])) <= SortBlock
           /\ Fresh(container[t], now)
           => ~Dominates(container[t], container[u])]_statsVars

\* Each attempt is counted at most once and has been counted as started: where
\* there is room for every tactic of the endpoint, concurrent attempts, trims,
\* restarts and interruptions never make the outcomes of a record exceed what
\* was started and is not in flight.
OutcomesWithinStarted ==
  \A t \in DOMAIN container :
    Cardinality(EntriesOf(domainEndpointKey, domainEndpointKey[t])) <= MaxEntries =>
      OutcomesOf(container[t]) + Cardinality(InFlight(t)) <= container[t].count["started"]

\* The documented order: trimming keeps the entries with the best success rate.
TrimKeepsBestRate ==
  [][Trim =>
       \A t \in DOMAIN container \ DOMAIN container' :
         \A u \in DOMAIN container' :
           /\ domainEndpointKey[t] = domainEndpointKey[u]
           /\ Fresh(container[t], now)
           => ~HigherSuccessRate(container[t], container[u])]_statsVars
=============================================================================
