---------------------------- MODULE TacticStats ----------------------------
(***************************************************************************)
(* The data that the statsManager of internal/enginenetx keeps about       *)
(* tactics, and the pure functions that sort and prune it.                 *)
(*                                                                         *)
(* A container maps the tactics that have a record to their record.  Go    *)
(* iterates over maps in an unspecified order, so that pruning has a set   *)
(* of possible results.  The histograms of error strings, which no         *)
(* decision depends upon, are left out.                                    *)
(***************************************************************************)
EXTENDS Integers, FiniteSets, SequencesExt

CONSTANTS
  Tactics,             \* the tactics, named by their summary key
  domainEndpointKey,   \* the domain endpoint of each tactic
  MaxEntries,          \* maxEntriesPerDomainEndpoint (10 in the code)
  SortBlock,           \* the longest slice that sort.SliceStable sorts by
                       \* insertion alone (20 in Go's standard library)
  OneWeek              \* how long a record lives without being updated

ASSUME StatsAssumption ==
  /\ IsFiniteSet(Tactics)
  /\ DOMAIN domainEndpointKey = Tactics
  /\ MaxEntries \in Nat \ {0}
  /\ SortBlock \in Nat \ {0}
  /\ OneWeek \in Nat \ {0}

Endpoints == {domainEndpointKey[t] : t \in Tactics}

\* The counters of a statsTactic.  The three error counters are one here, and so
\* are the two interrupt counters: nothing tells them apart.
Outcomes == {"error", "interrupt", "success"}
Counters == Outcomes \cup {"started"}

IsContainer(c) ==
  /\ DOMAIN c \subseteq Tactics
  /\ \A t \in DOMAIN c : /\ DOMAIN c[t] = {"count", "lastUpdated"}
                         /\ DOMAIN c[t].count = Counters
                         /\ \A n \in Counters : c[t].count[n] \in Nat
                         /\ c[t].lastUpdated \in Nat

newStatsContainer == [t \in {} |-> {}]

-----------------------------------------------------------------------------
(* Sorting.                                                                *)

\* Whether x has a larger success rate than y: success / started, zero when
\* nothing was started, compared without dividing
HigherSuccessRate(x, y) ==
  LET started(r) == IF r.count["started"] > 0 THEN r.count["started"] ELSE 1
      success(r) == IF r.count["started"] > 0 THEN r.count["success"] ELSE 0
  IN  success(x) * started(y) > success(y) * started(x)

\* The comparison function given to sort.SliceStable
Less(x, y) == \/ HigherSuccessRate(x, y)
              \/ x.count["success"] > y.count["success"]
              \/ x.lastUpdated > y.lastUpdated

\* The insertion step of sort.SliceStable: an element moves left until it is not
\* less than the element at its left
InsertSorted(c, sorted, t) ==
  LET stops == {i \in DOMAIN sorted : ~Less(c[t], c[sorted[i]])}
  IN  InsertAt(sorted, Max(stops \cup {0}) + 1, t)

\* The tactics of the endpoint e, which the map is iterated over in the given
\* order, after they are sorted.  Up to SortBlock of them are sorted by insertion.
\* More of them are sorted in blocks that are then merged; Less is no ordering,
\* so that what the merge returns is unspecified.  It is any order here: the
\* tactics stay as they were iterated, and pruning considers every iteration.
SliceStable(c, order, e) ==
  LET short == Cardinality({t \in DOMAIN c : domainEndpointKey[t] = e}) <= SortBlock
      sorted[i \in 0..Len(order)] ==
        IF i = 0 THEN << >>
        ELSE IF domainEndpointKey[order[i]] # e THEN sorted[i - 1]
        ELSE IF short THEN InsertSorted(c, sorted[i - 1], order[i])
        ELSE Append(sorted[i - 1], order[i])
  IN  sorted[Len(order)]

-----------------------------------------------------------------------------
(* Pruning.                                                                *)

Fresh(r, now) == now - r.lastUpdated < OneWeek

\* Mutant: the entries that sort last are kept
DomainEndpointPruneEntries_KeepsWorst(c, now, order, e) ==
  LET tactics == SliceStable(c, order, e)
      fresh   == {i \in DOMAIN tactics : Fresh(c[tactics[i]], now)}
  IN  {tactics[i] : i \in {j \in fresh : Cardinality({k \in fresh : k > j}) < MaxEntries}}

\* statsDomainEndpointPruneEntries when the map is iterated in the given order:
\* the tactics of the endpoint e that are kept are the first that are fresh
DomainEndpointPruneEntries(c, now, order, e) ==
  LET tactics == SliceStable(c, order, e)
      fresh   == {i \in DOMAIN tactics : Fresh(c[tactics[i]], now)}
  IN  {tactics[i] : i \in {j \in fresh : Cardinality({k \in fresh : k < j}) < MaxEntries}}

\* The possible results of statsContainerPruneEntries.  An order of all the
\* tactics gives an order of the tactics of each endpoint.
ContainerPruneEntries(c, now) ==
  {Restrict(c, UNION {DomainEndpointPruneEntries(c, now, order, e) : e \in Endpoints}) :
     order \in Bijection(1..Cardinality(DOMAIN c), DOMAIN c)}

\* x is at least as good as y by every criterion, and better by one
Dominates(x, y) == Less(x, y) /\ ~Less(y, x)
=============================================================================
