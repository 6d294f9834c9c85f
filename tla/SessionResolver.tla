-------------------------- MODULE SessionResolver --------------------------
(***************************************************************************)
(* internal/engineresolver: concurrent calls of Resolver.LookupHost that   *)
(* try the known DNS resolvers by decreasing score, the scores kept in the *)
(* key-value store, the cache of child resolvers, CloseIdleConnections.    *)
(*                                                                         *)
(* A score is a real in [0, 1] that a sample moves with a weight of 0.9:   *)
(* success makes s into 0.9 + 0.1s and failure into 0.1s.  On decimal      *)
(* digits, a sample shifts the digits right by one and writes 9 or 0 in    *)
(* the first place.  The model keeps the digits that Scale, a power of     *)
(* ten, has room for.                                                      *)
(***************************************************************************)
EXTENDS Integers, FiniteSets, Sequences, Functions

CONSTANTS
  Makers,         \* allmakers: the URLs of the supported resolvers
  InitialScore,   \* the initial score of each of them
  CannotProxy,    \* URLs that shouldSkipWithProxy skips (http3 and system)
  Obsolete,       \* a URL of an old state file, not supported anymore
  Calls,          \* concurrent calls of LookupHost
  Scale,          \* scores are multiples of 1 / Scale
  MaxLookups      \* bound: calls started overall

ASSUME ResolverAssumption ==
  /\ IsFiniteSet(Makers) /\ Makers # {}
  /\ CannotProxy \subseteq Makers
  /\ Obsolete \notin Makers
  /\ Scale \in Nat /\ Scale >= 10
  /\ InitialScore \in [Makers -> 0..(Scale - 1)]
  /\ MaxLookups \in Nat

VARIABLES
  store,      \* the state in the key-value store: a sequence of resolverinfo
  readable,   \* whether the stored state can be read
  proxied,    \* whether ProxyURL is set, for the whole life of the resolver
  pc,         \* what each call is doing
  state,      \* the working copy of the state of each call
  index,      \* the entry of its state that each call is working on
  done,       \* whether the context of each call is cancelled
  res,        \* the URLs in the cache of child resolvers
  open,       \* how many children of each URL have not been closed
  once,       \* whether CloseIdleConnections has run
  lookups,    \* how many calls were started
  tried,      \* history: the URLs that each call has really tried
  spoiled     \* history: the URLs blamed for the cancellation of each call

storeVars == <<store, readable>>
childVars == <<res, open, once>>
history == <<tried, spoiled>>
vars == <<proxied, storeVars, childVars, pc, state, index, done, lookups, history>>

Info(url, score) == [URL |-> url, Score |-> score]
URLs(s) == {s[i].URL : i \in DOMAIN s}

\* States that an older version of the program may have left on disk
OldStates == {<< >>, <<Info(Obsolete, Scale - 1)>>} \cup
  {<<Info(u, InitialScore[u]), Info(Obsolete, 0)>> : u \in Makers}

Init ==
  /\ store \in OldStates
  /\ readable = (store # << >>)
  /\ proxied \in BOOLEAN
  /\ pc = [c \in Calls |-> "idle"]
  /\ state = [c \in Calls |-> << >>]
  /\ index = [c \in Calls |-> 0]
  /\ done = [c \in Calls |-> FALSE]
  /\ res = {}
  /\ open = [u \in Makers |-> 0]
  /\ once = FALSE
  /\ lookups = 0
  /\ tried = [c \in Calls |-> {}]
  /\ spoiled = [c \in Calls |-> {}]

-----------------------------------------------------------------------------
(* The persistent state.                                                   *)

\* readstateandprune: an error gives no entries, like a state without any
\* supported entry.  A state has one entry for each URL: all there is to know of
\* the list, before it is sorted, is the set of its entries.
readstateandprune ==
  {store[i] : i \in {j \in DOMAIN store : readable /\ store[j].URL \in Makers}}

\* sortstate: the lists of the entries by descending score.  The code tells
\* sort.SliceStable that each of two equal scores precedes the other, which
\* leaves their order to the algorithm.
sortstate(entries) ==
  {s \in Bijection(1..Cardinality(entries), entries) :
     \A i, j \in DOMAIN s : i < j => s[i].Score >= s[j].Score}

Default(u) == Info(u, InitialScore[u])

\* Mutant: the defaults are only used when there is no state at all
readstatedefault_NoMerge ==
  LET here == readstateandprune
  IN  sortstate(IF here # {} THEN here ELSE {Default(u) : u \in Makers})

\* readstatedefault: the makers that are not there are added
readstatedefault ==
  LET here == readstateandprune
  IN  sortstate(here \cup {Default(u) : u \in Makers \ {e.URL : e \in here}})

Swap(s, i, j) == [s EXCEPT ![i] = s[j], ![j] = s[i]]

\* The possible results of maybeConfusion
maybeConfusion(s) ==
  CASE Len(s) <= 1 -> {s}
    [] Len(s) = 2  -> {s, Swap(s, 1, 2)}
    [] OTHER       -> {s, Swap(s, 1, 3)}

-----------------------------------------------------------------------------
(* LookupHost.                                                             *)

Start(c) ==
  /\ pc[c] = "idle"
  /\ lookups < MaxLookups
  /\ \E sorted \in readstatedefault : \E s \in maybeConfusion(sorted) :
       state' = [state EXCEPT ![c] = s]
  /\ index' = [index EXCEPT ![c] = 1]
  /\ done' = [done EXCEPT ![c] = FALSE]
  /\ tried' = [tried EXCEPT ![c] = {}]
  /\ spoiled' = [spoiled EXCEPT ![c] = {}]
  /\ lookups' = lookups + 1
  /\ pc' = [pc EXCEPT ![c] = "loop"]
  /\ UNCHANGED <<proxied, storeVars, childVars>>

Cancel(c) ==
  /\ pc[c] \in {"loop", "getresolver", "lookup"}
  /\ ~done[c]
  /\ done' = [done EXCEPT ![c] = TRUE]
  /\ UNCHANGED <<proxied, storeVars, childVars, pc, state, index, lookups,
                 history>>

URL(c) == state[c][index[c]].URL

\* Mutant: with a proxy, exactly the resolvers that could use it are skipped
shouldSkip_Inverted(c) == proxied /\ URL(c) \notin CannotProxy

shouldSkip(c) == proxied /\ URL(c) \in CannotProxy

NextEntry(c) == index' = [index EXCEPT ![c] = @ + 1]

\* Mutant: the loop stops at the first entry that has to be skipped
SkipEntry_Stuck(c) ==
  /\ pc[c] = "loop"
  /\ index[c] <= Len(state[c])
  /\ shouldSkip(c) \/ done[c]
  /\ UNCHANGED vars

\* An iteration that does not look up: the entry cannot be used with a proxy, or
\* the context was cancelled from the outside
SkipEntry(c) ==
  /\ pc[c] = "loop"
  /\ index[c] <= Len(state[c])
  /\ shouldSkip(c) \/ done[c]
  /\ NextEntry(c)
  /\ UNCHANGED <<proxied, storeVars, childVars, pc, state, done, lookups, history>>

\* Mutant: the loop goes on trying after the context was cancelled
TryEntry_IgnoresContext(c) ==
  /\ pc[c] = "loop"
  /\ index[c] <= Len(state[c])
  /\ ~shouldSkip(c)
  /\ pc' = [pc EXCEPT ![c] = "getresolver"]
  /\ UNCHANGED <<proxied, storeVars, childVars, state, index, done, lookups, history>>

TryEntry(c) ==
  /\ pc[c] = "loop"
  /\ index[c] <= Len(state[c])
  /\ ~shouldSkip(c)
  /\ ~done[c]
  /\ pc' = [pc EXCEPT ![c] = "getresolver"]
  /\ UNCHANGED <<proxied, storeVars, childVars, state, index, done, lookups, history>>

\* Mutant: the child that was created is not put into the cache
getresolver_NoCache(c) ==
  /\ pc[c] = "getresolver"
  /\ open' = IF URL(c) \in res THEN open
             ELSE [open EXCEPT ![URL(c)] = @ + 1]
  /\ pc' = [pc EXCEPT ![c] = "lookup"]
  /\ UNCHANGED <<proxied, storeVars, res, once, state, index, done, lookups, history>>

\* getresolver, with the mutex held.  A supported URL can only fail to give a
\* child for HTTP/3 with a proxy, which is skipped before.
getresolver(c) ==
  /\ pc[c] = "getresolver"
  /\ res' = res \cup {URL(c)}
  /\ open' = IF URL(c) \in res THEN open
             ELSE [open EXCEPT ![URL(c)] = @ + 1]
  /\ pc' = [pc EXCEPT ![c] = "lookup"]
  /\ UNCHANGED <<proxied, storeVars, once, state, index, done, lookups, history>>

\* Mutant: a failure does not change the score
Failure_Unchanged(score) == score

Success(score) == 9 * (Scale \div 10) + score \div 10
Failure(score) == score \div 10

SetScore(c, score) == state' = [state EXCEPT ![c][index[c]].Score = score]

LookupSucceeds(c) ==
  /\ pc[c] = "lookup"
  /\ SetScore(c, Success(state[c][index[c]].Score))
  /\ tried' = [tried EXCEPT ![c] = @ \cup {URL(c)}]
  /\ pc' = [pc EXCEPT ![c] = "writeAddrs"]
  /\ UNCHANGED <<proxied, storeVars, childVars, index, done, lookups, spoiled>>

\* A lookup that fails counts against the resolver, whatever the reason.  It may
\* fail because the context was cancelled while it was running.
LookupFails(c) ==
  /\ pc[c] = "lookup"
  /\ SetScore(c, Failure(state[c][index[c]].Score))
  /\ tried' = [tried EXCEPT ![c] = @ \cup {URL(c)}]
  /\ spoiled' = IF done[c] THEN [spoiled EXCEPT ![c] = @ \cup {URL(c)}]
                ELSE spoiled
  /\ NextEntry(c)
  /\ pc' = [pc EXCEPT ![c] = "loop"]
  /\ UNCHANGED <<proxied, storeVars, childVars, done, lookups>>

NoMoreEntries(c) ==
  /\ pc[c] = "loop"
  /\ index[c] > Len(state[c])
  /\ pc' = [pc EXCEPT ![c] = "writeError"]
  /\ UNCHANGED <<proxied, storeVars, childVars, state, index, done, lookups, history>>

\* The deferred writestate, whose error is ignored, and the return
writestate(c) ==
  /\ pc[c] \in {"writeAddrs", "writeError"}
  /\ \/ store' = state[c] /\ readable' = TRUE
     \/ UNCHANGED storeVars
  /\ pc' = [pc EXCEPT ![c] = IF pc[c] = "writeAddrs" THEN "addrs" ELSE "error"]
  /\ UNCHANGED <<proxied, childVars, state, index, done, lookups, history>>

\* The caller has used the result and is free to call again
Forget(c) ==
  /\ pc[c] \in {"addrs", "error"}
  /\ pc' = [pc EXCEPT ![c] = "idle"]
  /\ state' = [state EXCEPT ![c] = << >>]
  /\ index' = [index EXCEPT ![c] = 0]
  /\ UNCHANGED <<proxied, storeVars, childVars, done, lookups, history>>

\* closeall runs once: it closes the cached children and empties the cache
CloseIdleConnections ==
  /\ ~once
  /\ once' = TRUE
  /\ open' = [u \in Makers |-> IF u \in res THEN open[u] - 1 ELSE open[u]]
  /\ res' = {}
  /\ UNCHANGED <<proxied, storeVars, pc, state, index, done, lookups, history>>

-----------------------------------------------------------------------------

LookupHost(c) == \/ SkipEntry(c) \/ TryEntry(c) \/ getresolver(c)
                 \/ LookupSucceeds(c) \/ LookupFails(c) \/ NoMoreEntries(c)
                 \/ writestate(c)

\* Every call has returned and there are no more
Idle == /\ lookups = MaxLookups
        /\ \A c \in Calls : pc[c] = "idle"
        /\ UNCHANGED vars

Next == \/ \E c \in Calls : Start(c) \/ Cancel(c) \/ LookupHost(c) \/ Forget(c)
        \/ CloseIdleConnections
        \/ Idle

Spec == Init /\ [][Next]_vars

\* Goroutines are scheduled, and a child resolver gives up after four seconds
FairSpec == Spec /\ \A c \in Calls : WF_vars(LookupHost(c))

-----------------------------------------------------------------------------
(* Properties.                                                             *)

IsState(s) == /\ \A i \in DOMAIN s : s[i].Score \in 0..(Scale - 1)
              /\ URLs(s) \subseteq Makers \cup {Obsolete}

\* The values that the variables may have.
TypeOK ==
  /\ IsState(store) /\ readable \in BOOLEAN /\ proxied \in BOOLEAN
  /\ pc \in [Calls -> {"idle", "loop", "getresolver", "lookup", "writeAddrs",
                       "writeError", "addrs", "error"}]
  /\ \A c \in Calls : IsState(state[c])
  /\ index \in [Calls -> 0..(Cardinality(Makers) + 1)]
  /\ done \in [Calls -> BOOLEAN]
  /\ res \subseteq Makers
  /\ open \in [Makers -> Nat]
  /\ once \in BOOLEAN
  /\ lookups \in 0..MaxLookups
  /\ tried \in [Calls -> SUBSET Makers]
  /\ spoiled \in [Calls -> SUBSET Makers]

\* Concurrent calls overwrite each other's scores, but what they work on and
\* what they leave behind always has each supported resolver exactly once.
StateComplete ==
  /\ \A c \in Calls : pc[c] # "idle" =>
       Len(state[c]) = Cardinality(Makers) /\ URLs(state[c]) = Makers
  /\ (readable /\ Obsolete \notin URLs(store)) =>
       Len(store) = Cardinality(Makers) /\ URLs(store) = Makers

\* LookupHost gives up only after it has tried all the resolvers that can be
\* used: if the caller did not cancel, any working resolver is enough.
LookupExhaustive ==
  \A c \in Calls : pc[c] \in {"writeError", "error"} /\ ~done[c] =>
    tried[c] = IF proxied THEN Makers \ CannotProxy ELSE Makers

\* Cancelling a call from the outside lowers the score of at most one resolver,
\* the one that was being used; the resolvers that follow are not blamed.
CancelSpoilsAtMostOne ==
  \A c \in Calls : Cardinality(spoiled[c]) <= 1

\* When the scores are written, a resolver whose lookup has just failed never
\* precedes in score the resolver that gave the addresses.
WinnerScoresBest ==
  \A c \in Calls : pc[c] \in {"writeAddrs", "addrs"} =>
    \A i \in DOMAIN state[c] :
      (i # index[c] /\ state[c][i].URL \in tried[c]) =>
        state[c][i].Score < state[c][index[c]].Score

\* Concurrent calls share one child for each resolver: the children that have
\* not been closed are exactly those in the cache, one for each URL, also when
\* CloseIdleConnections runs between the creation of a child and its use.
ChildrenCached ==
  \A u \in Makers : open[u] = IF u \in res THEN 1 ELSE 0

\* No resolver is forgotten: neither in the scores nor in the cache of children,
\* which concurrent calls share, nor by a lookup that gives up.
NoResolverForgotten == StateComplete /\ LookupExhaustive /\ ChildrenCached

\* The scores tell the resolvers that worked from those that did not.
ScoresAreFair == CancelSpoilsAtMostOne /\ WinnerScoresBest

\* Every LookupHost returns.
LookupReturns ==
  \A c \in Calls : pc[c] = "loop" ~> pc[c] \in {"addrs", "error"}
=============================================================================
