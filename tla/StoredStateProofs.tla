------------------------- MODULE StoredStateProofs -------------------------
(***************************************************************************)
(* Theorems about the two components that keep what they learn in the      *)
(* key-value store, from a run of the program to the next: SessionResolver *)
(* (the scores of the resolvers) and StatsManager (the statistics of the   *)
(* tactics).  They do not share variables; each has a part of this module. *)
(*                                                                         *)
(* The theorems about SessionResolver hold for any set of resolvers, any   *)
(* number of concurrent calls and any precision of the scores.  The calls  *)
(* share the stored state and the cache of children, and nothing else: the *)
(* inductive invariant has a part for what they share and a part for each  *)
(* call (CallInv), stated on the values of the variables of the call, so   *)
(* that a step of one call leaves the part of the others alone.            *)
(*                                                                         *)
(* The theorems about StatsManager hold for any number of tactics,         *)
(* endpoints and attempts.  They rest on two facts about pruning: what     *)
(* SliceStable returns (Sorts: each tactic once and, in a list short enough*)
(* to be sorted by insertion, sorted), proved by induction over the list,  *)
(* and what is kept of such a list (FirstFresh).                           *)
(***************************************************************************)
EXTENDS SessionResolver, StatsManager, FiniteSetTheorems, FunctionTheorems,
        SequenceTheorems, WellFoundedInduction, TLAPS

-----------------------------------------------------------------------------
(* The session resolver: its inductive invariant.                          *)

N == Cardinality(Makers)

Entry == [URL : Makers, Score : 0..(Scale - 1)]
OldEntry == [URL : Makers \cup {Obsolete}, Score : 0..(Scale - 1)]

DistinctURLs(s) == \A i, j \in DOMAIN s : s[i].URL = s[j].URL => i = j

\* A state with each supported resolver exactly once.
Complete(s) ==
  /\ s \in [1..N -> Entry]
  /\ DistinctURLs(s)
  /\ \A u \in Makers : \E i \in 1..N : s[i].URL = u

\* What an older version has left, or a complete state.
StoreInv ==
  /\ store \in Seq(OldEntry)
  /\ DistinctURLs(store)
  /\ readable \in BOOLEAN
  /\ (readable /\ Obsolete \notin URLs(store)) => Complete(store)

\* There is one open child for each URL in the cache.
ChildrenInv ==
  /\ res \subseteq Makers
  /\ open = [u \in Makers |-> IF u \in res THEN 1 ELSE 0]
  /\ once \in BOOLEAN

PCs == {"idle", "loop", "getresolver", "lookup", "writeAddrs", "writeError",
        "addrs", "error"}

\* Below, the parameters are the values of proxied and, for one call, of pc,
\* state, index, done, tried and spoiled.
CallType(p, s, i, d, t, b) ==
  /\ p \in PCs /\ d \in BOOLEAN /\ t \subseteq Makers /\ b \subseteq Makers
  /\ p = "idle" => s = << >> /\ i = 0
  /\ p # "idle" => Complete(s) /\ i \in 1..(N + 1)

Skipped(px, u) == px /\ u \in CannotProxy

\* The entry that a call is at can be used, unless the call is between two
\* entries or there are no more.
AtEntry(px, p, s, i) ==
  /\ p \in {"getresolver", "lookup", "writeAddrs", "addrs"} =>
       i <= N /\ ~Skipped(px, s[i].URL)
  /\ p \in {"writeError", "error"} => i = N + 1

\* What was tried is behind, and only that; without a cancellation nothing that
\* is behind was left out.
Behind(px, p, s, i, d, t) ==
  p # "idle" =>
    /\ \A u \in t : ~Skipped(px, u)
    /\ \A u \in t : \E j \in 1..N :
         /\ s[j].URL = u
         /\ j < i \/ (j = i /\ p \in {"writeAddrs", "addrs"})
    /\ ~d => \A j \in 1..N : (j < i /\ ~Skipped(px, s[j].URL)) => s[j].URL \in t

\* The scores of what has failed are low, and the score of the winner is high.
Scored(p, s, i, t) ==
  p # "idle" =>
    /\ \A j \in 1..N : (j < i /\ s[j].URL \in t) => s[j].Score <= (Scale - 1) \div 10
    /\ p \in {"writeAddrs", "addrs"} => s[i].Score >= 9 * (Scale \div 10)

\* The context is done when an entry has been blamed for it, and a call whose
\* context is done does not go back to work.
Blamed(p, d, b) ==
  /\ b = {} \/ \E u \in Makers : b = {u}
  /\ p \in {"getresolver", "lookup"} => b = {}
  /\ p = "loop" /\ ~d => b = {}

CallInv(px, p, s, i, d, t, b) ==
  /\ CallType(p, s, i, d, t, b)
  /\ AtEntry(px, p, s, i)
  /\ Behind(px, p, s, i, d, t)
  /\ Scored(p, s, i, t)
  /\ Blamed(p, d, b)

IsFunctions ==
  /\ pc = [c \in Calls |-> pc[c]] /\ state = [c \in Calls |-> state[c]]
  /\ index = [c \in Calls |-> index[c]] /\ done = [c \in Calls |-> done[c]]
  /\ tried = [c \in Calls |-> tried[c]] /\ spoiled = [c \in Calls |-> spoiled[c]]

CallsInv ==
  \A c \in Calls : CallInv(proxied, pc[c], state[c], index[c], done[c], tried[c],
                           spoiled[c])

IInv ==
  /\ proxied \in BOOLEAN /\ lookups \in 0..MaxLookups
  /\ StoreInv /\ ChildrenInv /\ IsFunctions /\ CallsInv

-----------------------------------------------------------------------------
(* Scores and states.                                                      *)

\* The number of supported resolvers is a natural number.
LEMMA NType == N \in Nat /\ N # 0
BY ResolverAssumption, FS_CardinalityType, FS_EmptySet DEF N

\* The scores are numbers, the bound on them is not zero.
LEMMA ScaleType ==
  /\ Scale \in Nat /\ Scale >= 10 /\ Obsolete \notin Makers
  /\ \A u \in Makers : InitialScore[u] \in 0..(Scale - 1)
BY ResolverAssumption

\* A sample keeps the score in its range, and the last sample decides: whatever
\* the scores were, failure makes one that is lower than success does
\* (resolver.go, the weight of 0.9).
LEMMA Samples ==
  ASSUME NEW x \in 0..(Scale - 1)
  PROVE  /\ Success(x) \in 0..(Scale - 1)
         /\ Success(x) >= 9 * (Scale \div 10)
         /\ Failure(x) \in 0..(Scale - 1)
         /\ Failure(x) <= (Scale - 1) \div 10
         /\ (Scale - 1) \div 10 < 9 * (Scale \div 10)
         /\ (Scale - 1) \div 10 \in Nat /\ Scale \div 10 \in Nat
BY ScaleType DEF Success, Failure

\* A complete state is a sequence of N entries.
LEMMA CompleteSeq ==
  ASSUME NEW s, Complete(s)
  PROVE  /\ s \in Seq(Entry) /\ Len(s) = N /\ DOMAIN s = 1..N
         /\ \A i \in 1..N : s[i] \in Entry /\ s[i].URL \in Makers
                            /\ s[i].Score \in 0..(Scale - 1)
         /\ \A i, j \in 1..N : s[i].URL = s[j].URL => i = j
<1>1. s \in [1..N -> Entry]
  BY DEF Complete
<1>2. s \in Seq(Entry) /\ Len(s) = N /\ DOMAIN s = 1..N
  BY <1>1, NType
<1>3. \A i \in 1..N : s[i] \in Entry
  BY <1>1
<1>4. \A i, j \in 1..N : s[i].URL = s[j].URL => i = j
  BY <1>2 DEF Complete, DistinctURLs
<1> QED BY <1>2, <1>3, <1>4 DEF Entry

\* Setting a score changes nothing else.
LEMMA ScoreSet ==
  ASSUME NEW s, Complete(s), NEW i \in 1..N, NEW x \in 0..(Scale - 1)
  PROVE  LET t == [s EXCEPT ![i].Score = x]
         IN  /\ Complete(t)
             /\ \A j \in 1..N : t[j].URL = s[j].URL
             /\ \A j \in 1..N : t[j].Score = IF j = i THEN x ELSE s[j].Score
<1> DEFINE t == [s EXCEPT ![i].Score = x]
<1>1. s \in [1..N -> Entry]
  BY DEF Complete
<1>2. t \in [1..N -> Entry]
  BY <1>1 DEF Entry
<1>3. \A j \in 1..N : t[j].URL = s[j].URL
  BY <1>1 DEF Entry
<1>4. \A j \in 1..N : t[j].Score = IF j = i THEN x ELSE s[j].Score
  BY <1>1 DEF Entry
<1> HIDE DEF t
<1>5. DOMAIN t = 1..N
  BY <1>2
<1>6. DistinctURLs(t)
  BY <1>3, <1>5, CompleteSeq DEF DistinctURLs
<1>7. \A u \in Makers : \E j \in 1..N : t[j].URL = u
  BY <1>3 DEF Complete
<1>8. Complete(t)
  BY <1>2, <1>6, <1>7 DEF Complete
<1> QED BY <1>3, <1>4, <1>8 DEF t

\* Exchanging two entries keeps all of them.
LEMMA Swapped ==
  ASSUME NEW s, Complete(s), NEW a \in 1..N, NEW b \in 1..N
  PROVE  Complete(Swap(s, a, b))
<1> DEFINE t == Swap(s, a, b)
<1>1. s \in [1..N -> Entry]
  BY DEF Complete
<1>2. t = [i \in 1..N |-> IF i = b THEN s[a] ELSE IF i = a THEN s[b] ELSE s[i]]
  BY <1>1 DEF Swap
<1> HIDE DEF t
<1>3. t \in [1..N -> Entry] /\ DOMAIN t = 1..N
  BY <1>1, <1>2
<1>4. DistinctURLs(t)
  <2> SUFFICES ASSUME NEW i \in 1..N, NEW j \in 1..N, t[i].URL = t[j].URL
               PROVE  i = j
    BY <1>3 DEF DistinctURLs
  <2>1. \A k, l \in 1..N : s[k].URL = s[l].URL => k = l
    BY CompleteSeq
  <2> QED BY <1>2, <2>1
<1>5. \A u \in Makers : \E i \in 1..N : t[i].URL = u
  <2> TAKE u \in Makers
  <2>1. PICK i \in 1..N : s[i].URL = u
    BY DEF Complete
  <2>2. CASE i = a
    BY <1>2, <2>1, <2>2
  <2>3. CASE i = b
    BY <1>2, <2>1, <2>3
  <2>4. CASE i # a /\ i # b
    BY <1>2, <2>1, <2>4
  <2> QED BY <2>2, <2>3, <2>4
<1> QED BY <1>3, <1>4, <1>5 DEF Complete, t

\* maybeConfusion loses no entry (resolver.go).
LEMMA Confused ==
  ASSUME NEW s, Complete(s), NEW t \in maybeConfusion(s)
  PROVE  Complete(t)
<1>1. Len(s) = N
  BY CompleteSeq
<1>2. CASE N <= 1
  BY <1>1, <1>2 DEF maybeConfusion
<1>3. CASE N = 2
  <2>1. t = s \/ t = Swap(s, 1, 2)
    BY <1>1, <1>3 DEF maybeConfusion
  <2>2. 1 \in 1..N /\ 2 \in 1..N
    BY <1>3
  <2> QED BY <2>1, <2>2, Swapped
<1>4. CASE N > 2
  <2>1. t = s \/ t = Swap(s, 1, 3)
    BY <1>1, <1>4, NType DEF maybeConfusion
  <2>2. 1 \in 1..N /\ 3 \in 1..N
    BY <1>4, NType
  <2> QED BY <2>1, <2>2, Swapped
<1> QED BY <1>2, <1>3, <1>4, NType

\* What is read from the store, merged with the defaults, has each supported
\* resolver exactly once, whatever was stored (state.go).
LEMMA ReadComplete ==
  ASSUME StoreInv, NEW sorted \in readstatedefault
  PROVE  Complete(sorted)
<1> DEFINE here == readstateandprune
           added == {Default(u) : u \in Makers \ {e.URL : e \in here}}
           all == here \cup added
<1>1. ASSUME NEW e \in here
      PROVE  \E i \in DOMAIN store : e = store[i] /\ store[i].URL \in Makers
  BY <1>1 DEF readstateandprune
<1>2. ASSUME NEW i \in DOMAIN store
      PROVE  store[i] \in OldEntry
  BY <1>2 DEF StoreInv
<1>3. ASSUME NEW e \in here
      PROVE  e \in Entry
  <2>1. PICK i \in DOMAIN store : e = store[i] /\ store[i].URL \in Makers
    BY <1>1
  <2>2. store[i] \in OldEntry
    BY <1>2
  <2> QED BY <2>1, <2>2 DEF OldEntry, Entry
<1>4. ASSUME NEW e \in here, NEW f \in here, e.URL = f.URL
      PROVE  e = f
  <2>1. PICK i \in DOMAIN store : e = store[i]
    BY <1>1
  <2>2. PICK j \in DOMAIN store : f = store[j]
    BY <1>1
  <2> QED BY <1>4, <2>1, <2>2 DEF StoreInv, DistinctURLs
<1>5. ASSUME NEW e \in added
      PROVE  /\ e \in Entry /\ e = Default(e.URL)
             /\ e.URL \notin {f.URL : f \in here}
  <2> HIDE DEF here
  <2>1. PICK u \in Makers \ {f.URL : f \in here} : e = Default(u)
    BY <1>5
  <2>2. e.URL = u
    BY <2>1 DEF Default, Info
  <2>3. InitialScore[u] \in 0..(Scale - 1)
    BY ScaleType
  <2>4. Default(u) \in Entry
    BY <2>3 DEF Default, Info, Entry
  <2> QED BY <2>1, <2>2, <2>4
<1>6. ASSUME NEW u \in Makers
      PROVE  \E e \in all : e.URL = u
  <2> HIDE DEF here
  <2>1. CASE u \in {f.URL : f \in here}
    BY <2>1
  <2>2. CASE u \notin {f.URL : f \in here}
    <3>1. Default(u) \in added
      BY <2>2
    <3>2. Default(u).URL = u
      BY DEF Default, Info
    <3> QED BY <3>1, <3>2
  <2> QED BY <2>1, <2>2
<1> HIDE DEF here, added
<1>7. ASSUME NEW e \in all, NEW f \in all, e.URL = f.URL
      PROVE  e = f
  <2>1. CASE e \in here /\ f \in here
    BY <1>4, <1>7, <2>1
  <2>2. CASE e \in added /\ f \in added
    BY <1>5, <1>7, <2>2
  <2>3. CASE e \in here /\ f \in added
    BY <1>5, <1>7, <2>3
  <2>4. CASE e \in added /\ f \in here
    BY <1>5, <1>7, <2>4
  <2> QED BY <2>1, <2>2, <2>3, <2>4
<1>8. ASSUME NEW e \in all
      PROVE  e \in Entry /\ e.URL \in Makers
  BY <1>3, <1>5 DEF Entry
<1>9. sorted \in sortstate(all)
  BY DEF readstatedefault, here, added
<1> HIDE DEF all
<1>10. Cardinality(all) = N
  <2> DEFINE h == [u \in Makers |-> CHOOSE e \in all : e.URL = u]
  <2>1. \A u \in Makers : h[u] \in all /\ h[u].URL = u
    BY <1>6
  <2>2. h \in [Makers -> all]
    BY <2>1
  <2>3. ASSUME NEW u \in Makers, NEW v \in Makers, h[u] = h[v]
        PROVE  u = v
    BY <2>1, <2>3
  <2>4. ASSUME NEW e \in all
        PROVE  \E u \in Makers : h[u] = e
    <3>1. e.URL \in Makers
      BY <1>8
    <3>2. h[e.URL] \in all /\ h[e.URL].URL = e.URL
      BY <2>1, <3>1
    <3>3. h[e.URL] = e
      BY <1>7, <3>2
    <3> QED BY <3>1, <3>3
  <2> HIDE DEF h
  <2>5. h \in Bijection(Makers, all)
    BY <2>2, <2>3, <2>4, Zenon DEF Bijection, Injection, Surjection, IsInjective
  <2>6. ExistsBijection(Makers, all)
    BY <2>5 DEF ExistsBijection
  <2> QED BY <2>6, FS_Bijection, ResolverAssumption DEF N
<1>11. sorted \in Bijection(1..N, all)
  BY <1>9, <1>10 DEF sortstate
<1>12. /\ sorted \in [1..N -> all]
       /\ \A i, j \in 1..N : sorted[i] = sorted[j] => i = j
       /\ \A e \in all : \E i \in 1..N : sorted[i] = e
  BY <1>11 DEF Bijection, Injection, Surjection, IsInjective
<1>13. sorted \in [1..N -> Entry] /\ DOMAIN sorted = 1..N
  BY <1>8, <1>12
<1>14. DistinctURLs(sorted)
  <2> SUFFICES ASSUME NEW i \in 1..N, NEW j \in 1..N, sorted[i].URL = sorted[j].URL
               PROVE  i = j
    BY <1>13 DEF DistinctURLs
  <2>1. sorted[i] = sorted[j]
    BY <1>7, <1>12
  <2> QED BY <1>12, <2>1
<1>15. \A u \in Makers : \E i \in 1..N : sorted[i].URL = u
  BY <1>6, <1>12
<1> QED BY <1>13, <1>14, <1>15 DEF Complete

-----------------------------------------------------------------------------
(* The steps of a call, on the values of its variables.                    *)

\* A call begins with a complete state and an empty history.
LEMMA StartStep ==
  ASSUME NEW px, NEW s, Complete(s)
  PROVE  CallInv(px, "loop", s, 1, FALSE, {}, {})
BY NType DEF CallInv, CallType, PCs, AtEntry, Behind, Scored, Blamed

\* Cancelling the context is not a step of the call.
LEMMA CancelStep ==
  ASSUME NEW px, NEW p, NEW s, NEW i, NEW t, NEW b,
         CallInv(px, p, s, i, FALSE, t, b), p # "idle"
  PROVE  CallInv(px, p, s, i, TRUE, t, b)
BY DEF CallInv, CallType, AtEntry, Behind, Scored, Blamed

\* An entry is left behind without being tried: it is unusable or the context is
\* done.
LEMMA SkipStep ==
  ASSUME NEW px, NEW s, NEW i, NEW d, NEW t, NEW b,
         CallInv(px, "loop", s, i, d, t, b), i <= N,
         Skipped(px, s[i].URL) \/ d
  PROVE  CallInv(px, "loop", s, i + 1, d, t, b)
<1>1. Complete(s) /\ i \in 1..N
  BY NType DEF CallInv, CallType
<1>2. CallType("loop", s, i + 1, d, t, b)
  BY <1>1, NType DEF CallInv, CallType
<1>3. Behind(px, "loop", s, i + 1, d, t)
  BY <1>1, NType DEF CallInv, Behind
<1>4. Scored("loop", s, i + 1, t)
  <2> SUFFICES ASSUME NEW j \in 1..N, j < i + 1, s[j].URL \in t
               PROVE  s[j].Score <= (Scale - 1) \div 10
    BY DEF Scored
  <2>1. PICK k \in 1..N : s[k].URL = s[j].URL /\ k < i
    BY DEF CallInv, Behind
  <2>2. k = j
    BY <1>1, <2>1, CompleteSeq
  <2> QED BY <2>1, <2>2 DEF CallInv, Scored
<1> QED BY <1>2, <1>3, <1>4 DEF CallInv, AtEntry, Blamed

\* The entry is going to be tried.
LEMMA TryStep ==
  ASSUME NEW px, NEW s, NEW i, NEW t, NEW b,
         CallInv(px, "loop", s, i, FALSE, t, b), i <= N, ~Skipped(px, s[i].URL)
  PROVE  CallInv(px, "getresolver", s, i, FALSE, t, b)
BY DEF CallInv, CallType, PCs, AtEntry, Behind, Scored, Blamed

\* The child resolver is at hand.
LEMMA GetresolverStep ==
  ASSUME NEW px, NEW s, NEW i, NEW d, NEW t, NEW b,
         CallInv(px, "getresolver", s, i, d, t, b)
  PROVE  CallInv(px, "lookup", s, i, d, t, b)
BY DEF CallInv, CallType, PCs, AtEntry, Behind, Scored, Blamed

\* The entry that a call is at, when it is going to be used.
LEMMA EntryInUse ==
  ASSUME NEW px, NEW p \in {"getresolver", "lookup"}, NEW s, NEW i, NEW d, NEW t,
         NEW b, CallInv(px, p, s, i, d, t, b)
  PROVE  /\ Complete(s) /\ i \in 1..N /\ s[i].URL \in Makers
         /\ s[i].Score \in 0..(Scale - 1) /\ ~Skipped(px, s[i].URL)
         /\ t \subseteq Makers /\ b = {} /\ d \in BOOLEAN
<1>1. Complete(s) /\ i \in 1..N
  BY NType DEF CallInv, CallType, AtEntry
<1>2. s[i].URL \in Makers /\ s[i].Score \in 0..(Scale - 1)
  BY <1>1, CompleteSeq
<1> QED BY <1>1, <1>2 DEF CallInv, CallType, AtEntry, Blamed

\* The lookup gives addresses, and the entry gets a score that is higher than
\* those of the entries that have failed before.
LEMMA SuccessStep ==
  ASSUME NEW px, NEW s, NEW i, NEW d, NEW t, NEW b,
         CallInv(px, "lookup", s, i, d, t, b)
  PROVE  CallInv(px, "writeAddrs", [s EXCEPT ![i].Score = Success(s[i].Score)], i, d,
                 t \cup {s[i].URL}, b)
<1> DEFINE r == [s EXCEPT ![i].Score = Success(s[i].Score)]
           v == t \cup {s[i].URL}
<1>1. /\ Complete(s) /\ i \in 1..N /\ s[i].URL \in Makers
      /\ s[i].Score \in 0..(Scale - 1) /\ ~Skipped(px, s[i].URL)
      /\ t \subseteq Makers /\ b = {} /\ d \in BOOLEAN
  BY EntryInUse
<1>2. Success(s[i].Score) \in 0..(Scale - 1) /\ Success(s[i].Score) >= 9 * (Scale \div 10)
  BY <1>1, Samples
<1>3. /\ Complete(r)
      /\ \A j \in 1..N : r[j].URL = s[j].URL
      /\ \A j \in 1..N : r[j].Score = IF j = i THEN Success(s[i].Score) ELSE s[j].Score
  BY <1>1, <1>2, ScoreSet
<1> HIDE DEF r
<1>4. CallType("writeAddrs", r, i, d, v, b)
  BY <1>1, <1>3, NType DEF CallType, PCs
<1>5. AtEntry(px, "writeAddrs", r, i)
  BY <1>1, <1>3 DEF AtEntry
<1>6. Behind(px, "writeAddrs", r, i, d, v)
  <2>1. \A u \in v : ~Skipped(px, u)
    BY <1>1 DEF CallInv, Behind
  <2>2. ASSUME NEW u \in v
        PROVE  \E j \in 1..N : r[j].URL = u /\ (j < i \/ j = i)
    <3>1. CASE u = s[i].URL
      BY <1>1, <1>3, <3>1
    <3>2. CASE u \in t
      <4>1. PICK j \in 1..N : s[j].URL = u /\ j < i
        BY <3>2 DEF CallInv, Behind
      <4> QED BY <1>3, <4>1
    <3> QED BY <3>1, <3>2
  <2>3. ~d => \A j \in 1..N : (j < i /\ ~Skipped(px, r[j].URL)) => r[j].URL \in v
    BY <1>3 DEF CallInv, Behind
  <2> QED BY <2>1, <2>2, <2>3 DEF Behind
<1>7. Scored("writeAddrs", r, i, v)
  <2>1. ASSUME NEW j \in 1..N, j < i, r[j].URL \in v
        PROVE  r[j].Score <= (Scale - 1) \div 10
    <3>1. s[j].URL \in t
      BY <1>1, <1>3, <2>1, CompleteSeq
    <3>2. s[j].Score <= (Scale - 1) \div 10
      BY <2>1, <3>1 DEF CallInv, Scored
    <3> QED BY <1>1, <1>3, <2>1, <3>2
  <2>2. r[i].Score >= 9 * (Scale \div 10)
    BY <1>1, <1>2, <1>3
  <2> QED BY <2>1, <2>2 DEF Scored
<1>8. Blamed("writeAddrs", d, b)
  BY <1>1 DEF Blamed
<1> QED BY <1>4, <1>5, <1>6, <1>7, <1>8 DEF CallInv, r

\* The lookup fails: the entry is left behind with a low score, and is blamed for
\* the cancellation if there was one.
LEMMA FailureStep ==
  ASSUME NEW px, NEW s, NEW i, NEW d, NEW t, NEW b,
         CallInv(px, "lookup", s, i, d, t, b)
  PROVE  CallInv(px, "loop", [s EXCEPT ![i].Score = Failure(s[i].Score)], i + 1, d,
                 t \cup {s[i].URL}, IF d THEN b \cup {s[i].URL} ELSE b)
<1> DEFINE r == [s EXCEPT ![i].Score = Failure(s[i].Score)]
           v == t \cup {s[i].URL}
           w == IF d THEN b \cup {s[i].URL} ELSE b
<1>1. /\ Complete(s) /\ i \in 1..N /\ s[i].URL \in Makers
      /\ s[i].Score \in 0..(Scale - 1) /\ ~Skipped(px, s[i].URL)
      /\ t \subseteq Makers /\ b = {} /\ d \in BOOLEAN
  BY EntryInUse
<1>2. /\ Failure(s[i].Score) \in 0..(Scale - 1)
      /\ Failure(s[i].Score) <= (Scale - 1) \div 10
  BY <1>1, Samples
<1>3. /\ Complete(r)
      /\ \A j \in 1..N : r[j].URL = s[j].URL
      /\ \A j \in 1..N : r[j].Score = IF j = i THEN Failure(s[i].Score) ELSE s[j].Score
  BY <1>1, <1>2, ScoreSet
<1> HIDE DEF r
<1>4. w = IF d THEN {s[i].URL} ELSE {}
  BY <1>1
<1> HIDE DEF w
<1>5. CallType("loop", r, i + 1, d, v, w)
  BY <1>1, <1>3, <1>4, NType DEF CallType, PCs
<1>6. AtEntry(px, "loop", r, i + 1)
  BY DEF AtEntry
<1>7. Behind(px, "loop", r, i + 1, d, v)
  <2>1. \A u \in v : ~Skipped(px, u)
    BY <1>1 DEF CallInv, Behind
  <2>2. ASSUME NEW u \in v
        PROVE  \E j \in 1..N : r[j].URL = u /\ j < i + 1
    <3>1. CASE u = s[i].URL
      BY <1>1, <1>3, <3>1
    <3>2. CASE u \in t
      <4>1. PICK j \in 1..N : s[j].URL = u /\ j < i
        BY <3>2 DEF CallInv, Behind
      <4>2. j < i + 1
        BY <1>1, <4>1
      <4> QED BY <1>3, <4>1, <4>2
    <3> QED BY <3>1, <3>2
  <2>3. ASSUME ~d, NEW j \in 1..N, j < i + 1, ~Skipped(px, r[j].URL)
        PROVE  r[j].URL \in v
    <3>1. CASE j = i
      BY <1>3, <3>1
    <3>2. CASE j < i
      BY <1>3, <2>3, <3>2 DEF CallInv, Behind
    <3> QED BY <1>1, <2>3, <3>1, <3>2
  <2> QED BY <2>1, <2>2, <2>3 DEF Behind
<1>8. Scored("loop", r, i + 1, v)
  <2> SUFFICES ASSUME NEW j \in 1..N, j < i + 1, r[j].URL \in v
               PROVE  r[j].Score <= (Scale - 1) \div 10
    BY DEF Scored
  <2>1. CASE j = i
    BY <1>2, <1>3, <2>1
  <2>2. CASE j < i
    <3>1. s[j].URL \in t
      BY <1>1, <1>3, <2>2, CompleteSeq
    <3>2. s[j].Score <= (Scale - 1) \div 10
      BY <2>2, <3>1 DEF CallInv, Scored
    <3> QED BY <1>1, <1>3, <2>2, <3>2
  <2> QED BY <1>1, <2>1, <2>2
<1>9. Blamed("loop", d, w)
  BY <1>1, <1>4 DEF Blamed
<1> QED BY <1>5, <1>6, <1>7, <1>8, <1>9 DEF CallInv, r, w

\* There are no more entries.
LEMMA NoMoreStep ==
  ASSUME NEW px, NEW s, NEW i, NEW d, NEW t, NEW b,
         CallInv(px, "loop", s, i, d, t, b), i > N
  PROVE  CallInv(px, "writeError", s, i, d, t, b)
<1>1. i = N + 1
  BY NType DEF CallInv, CallType
<1> QED BY <1>1 DEF CallInv, CallType, PCs, AtEntry, Behind, Scored, Blamed

\* The state was written or not, and the call returns.
LEMMA WriteStep ==
  ASSUME NEW px, NEW p \in {"writeAddrs", "writeError"}, NEW s, NEW i, NEW d, NEW t,
         NEW b, CallInv(px, p, s, i, d, t, b)
  PROVE  CallInv(px, IF p = "writeAddrs" THEN "addrs" ELSE "error", s, i, d, t, b)
<1>1. CASE p = "writeAddrs"
  BY <1>1 DEF CallInv, CallType, PCs, AtEntry, Behind, Scored, Blamed
<1>2. CASE p = "writeError"
  BY <1>2 DEF CallInv, CallType, PCs, AtEntry, Behind, Scored, Blamed
<1> QED BY <1>1, <1>2

\* The caller has used the result.
LEMMA ForgetStep ==
  ASSUME NEW px, NEW p, NEW s, NEW i, NEW d, NEW t, NEW b,
         CallInv(px, p, s, i, d, t, b)
  PROVE  CallInv(px, "idle", << >>, 0, d, t, b)
BY DEF CallInv, CallType, PCs, AtEntry, Behind, Scored, Blamed

-----------------------------------------------------------------------------
(* The invariant is inductive.                                             *)

\* The step changes the values of no other call.
OthersKept(c) ==
  \A d \in Calls : d # c =>
    /\ pc'[d] = pc[d] /\ state'[d] = state[d] /\ index'[d] = index[d]
    /\ done'[d] = done[d] /\ tried'[d] = tried[d] /\ spoiled'[d] = spoiled[d]

\* A step of one call keeps what is known of the others.
LEMMA OneCall ==
  ASSUME CallsInv, NEW c \in Calls, proxied' = proxied, OthersKept(c),
         CallInv(proxied, pc'[c], state'[c], index'[c], done'[c], tried'[c],
                 spoiled'[c])
  PROVE  CallsInv'
<1> SUFFICES ASSUME NEW d \in Calls
             PROVE  CallInv(proxied, pc'[d], state'[d], index'[d], done'[d],
                            tried'[d], spoiled'[d])
  BY DEF CallsInv
<1>1. CASE d = c
  BY <1>1
<1>2. CASE d # c
  <2>1. CallInv(proxied, pc[d], state[d], index[d], done[d], tried[d], spoiled[d])
    BY DEF CallsInv
  <2>2. /\ pc'[d] = pc[d] /\ state'[d] = state[d] /\ index'[d] = index[d]
        /\ done'[d] = done[d] /\ tried'[d] = tried[d] /\ spoiled'[d] = spoiled[d]
    BY <1>2 DEF OthersKept
  <2> QED BY <2>1, <2>2
<1> QED BY <1>1, <1>2

\* The invariant holds when the resolver is created.
LEMMA InitIInv == Init => IInv
<1> SUFFICES ASSUME Init PROVE IInv
  OBVIOUS
<1>1. StoreInv
  <2>1. Scale - 1 \in 0..(Scale - 1) /\ 0 \in 0..(Scale - 1)
    BY ScaleType
  <2>2. CASE store = << >>
    <3>1. ~readable /\ readable \in BOOLEAN
      BY <2>2 DEF Init
    <3>2. store \in Seq(OldEntry) /\ DOMAIN store = {}
      BY <2>2
    <3> QED BY <3>1, <3>2 DEF StoreInv, DistinctURLs
  <2>3. CASE store = <<Info(Obsolete, Scale - 1)>>
    <3>1. Info(Obsolete, Scale - 1) \in OldEntry
      BY <2>1 DEF Info, OldEntry
    <3>2. store \in Seq(OldEntry) /\ DOMAIN store = {1}
      BY <2>3, <3>1
    <3>3. Obsolete \in URLs(store)
      BY <2>3 DEF URLs, Info
    <3> QED BY <3>2, <3>3 DEF Init, StoreInv, DistinctURLs
  <2>4. ASSUME NEW u \in Makers, store = <<Info(u, InitialScore[u]), Info(Obsolete, 0)>>
        PROVE  StoreInv
    <3>1. Info(u, InitialScore[u]) \in OldEntry /\ Info(Obsolete, 0) \in OldEntry
      BY <2>1, ScaleType DEF Info, OldEntry
    <3>2. store \in Seq(OldEntry) /\ DOMAIN store = {1, 2}
      BY <2>4, <3>1
    <3>3. store[1].URL = u /\ store[2].URL = Obsolete
      BY <2>4 DEF Info
    <3>4. DistinctURLs(store)
      BY <3>2, <3>3, ScaleType DEF DistinctURLs
    <3>5. Obsolete \in URLs(store)
      BY <3>2, <3>3 DEF URLs
    <3> QED BY <3>2, <3>4, <3>5 DEF Init, StoreInv
  <2> QED BY <2>2, <2>3, <2>4 DEF Init, OldStates
<1>2. ChildrenInv
  BY DEF Init, ChildrenInv
<1>3. IsFunctions
  BY DEF Init, IsFunctions
<1>4. CallsInv
  BY DEF Init, CallsInv, CallInv, CallType, PCs, AtEntry, Behind, Scored, Blamed
<1> QED BY <1>1, <1>2, <1>3, <1>4, ResolverAssumption DEF Init, IInv

\* A step that leaves the store, or the children, alone keeps its invariant.
LEMMA SharedKept ==
  /\ StoreInv /\ UNCHANGED storeVars => StoreInv'
  /\ ChildrenInv /\ UNCHANGED childVars => ChildrenInv'
<1>1. StoreInv /\ UNCHANGED storeVars => StoreInv'
  BY DEF StoreInv, storeVars, URLs, Complete, DistinctURLs
<1>2. ChildrenInv /\ UNCHANGED childVars => ChildrenInv'
  BY DEF ChildrenInv, childVars
<1> QED BY <1>1, <1>2

\* A call starts from what is stored, merged with the defaults.
LEMMA StartIInv ==
  ASSUME IInv, NEW c \in Calls, Start(c)
  PROVE  IInv'
<1>1. /\ CallInv(proxied, pc[c], state[c], index[c], done[c], tried[c], spoiled[c])
      /\ StoreInv /\ ChildrenInv /\ IsFunctions /\ CallsInv
      /\ proxied \in BOOLEAN /\ lookups \in 0..MaxLookups
  BY DEF IInv, CallsInv
<1>2. IsFunctions' /\ OthersKept(c)
  BY <1>1 DEF Start, IsFunctions, OthersKept
<1>3. PICK sorted \in readstatedefault : \E s \in maybeConfusion(sorted) :
        state' = [state EXCEPT ![c] = s]
  BY DEF Start
<1>4. PICK s \in maybeConfusion(sorted) : state' = [state EXCEPT ![c] = s]
  BY <1>3
<1>5. Complete(s)
  BY <1>1, ReadComplete, Confused
<1>6. /\ pc'[c] = "loop" /\ state'[c] = s /\ index'[c] = 1 /\ done'[c] = FALSE
      /\ tried'[c] = {} /\ spoiled'[c] = {}
  BY <1>1, <1>4 DEF Start, IsFunctions
<1>7. CallInv(proxied, pc'[c], state'[c], index'[c], done'[c], tried'[c], spoiled'[c])
  BY <1>5, <1>6, StartStep
<1>8. CallsInv'
  BY <1>1, <1>2, <1>7, OneCall DEF Start
<1>9. StoreInv' /\ ChildrenInv'
  BY <1>1, SharedKept DEF Start
<1> QED BY <1>1, <1>2, <1>8, <1>9, ResolverAssumption DEF Start, IInv

\* The context of a call is cancelled.
LEMMA CancelIInv ==
  ASSUME IInv, NEW c \in Calls, Cancel(c)
  PROVE  IInv'
<1>1. /\ CallInv(proxied, pc[c], state[c], index[c], done[c], tried[c], spoiled[c])
      /\ StoreInv /\ ChildrenInv /\ IsFunctions /\ CallsInv
      /\ proxied \in BOOLEAN /\ lookups \in 0..MaxLookups
  BY DEF IInv, CallsInv
<1>2. IsFunctions' /\ OthersKept(c)
  BY <1>1 DEF Cancel, history, IsFunctions, OthersKept
<1>3. CallInv(proxied, pc'[c], state'[c], index'[c], done'[c], tried'[c], spoiled'[c])
  <2>1. CallInv(proxied, pc[c], state[c], index[c], TRUE, tried[c], spoiled[c])
    <3>1. done[c] = FALSE
      BY <1>1 DEF Cancel, CallInv, CallType
    <3>2. CallInv(proxied, pc[c], state[c], index[c], FALSE, tried[c], spoiled[c])
      BY <1>1, <3>1
    <3>3. pc[c] # "idle"
      BY DEF Cancel
    <3> QED BY <3>2, <3>3, CancelStep
  <2>2. /\ pc'[c] = pc[c] /\ state'[c] = state[c] /\ index'[c] = index[c]
        /\ done'[c] = TRUE /\ tried'[c] = tried[c] /\ spoiled'[c] = spoiled[c]
    BY <1>1 DEF Cancel, history, IsFunctions
  <2> QED BY <2>1, <2>2
<1>4. CallsInv'
  BY <1>1, <1>2, <1>3, OneCall DEF Cancel, history
<1>5. StoreInv' /\ ChildrenInv'
  BY <1>1, SharedKept DEF Cancel, history
<1> QED BY <1>1, <1>2, <1>4, <1>5 DEF Cancel, IInv

\* An entry is skipped.
LEMMA SkipEntryIInv ==
  ASSUME IInv, NEW c \in Calls, SkipEntry(c)
  PROVE  IInv'
<1>1. /\ CallInv(proxied, pc[c], state[c], index[c], done[c], tried[c], spoiled[c])
      /\ StoreInv /\ ChildrenInv /\ IsFunctions /\ CallsInv
      /\ proxied \in BOOLEAN /\ lookups \in 0..MaxLookups
  BY DEF IInv, CallsInv
<1>2. IsFunctions' /\ OthersKept(c)
  BY <1>1 DEF SkipEntry, NextEntry, history, IsFunctions, OthersKept
<1>3. CallInv(proxied, pc'[c], state'[c], index'[c], done'[c], tried'[c], spoiled'[c])
  <2>1. Complete(state[c]) /\ Len(state[c]) = N
    BY <1>1, CompleteSeq DEF SkipEntry, CallInv, CallType
  <2>2. CallInv(proxied, "loop", state[c], index[c] + 1, done[c], tried[c], spoiled[c])
    BY <1>1, <2>1, SkipStep DEF SkipEntry, shouldSkip, URL, Skipped
  <2>3. /\ pc'[c] = "loop" /\ state'[c] = state[c] /\ index'[c] = index[c] + 1
        /\ done'[c] = done[c] /\ tried'[c] = tried[c] /\ spoiled'[c] = spoiled[c]
    BY <1>1 DEF SkipEntry, NextEntry, history, IsFunctions
  <2> QED BY <2>2, <2>3
<1>4. CallsInv'
  BY <1>1, <1>2, <1>3, OneCall DEF SkipEntry, NextEntry, history
<1>5. StoreInv' /\ ChildrenInv'
  BY <1>1, SharedKept DEF SkipEntry, NextEntry, history
<1> QED BY <1>1, <1>2, <1>4, <1>5 DEF SkipEntry, IInv

\* An entry is going to be tried.
LEMMA TryEntryIInv ==
  ASSUME IInv, NEW c \in Calls, TryEntry(c)
  PROVE  IInv'
<1>1. /\ CallInv(proxied, pc[c], state[c], index[c], done[c], tried[c], spoiled[c])
      /\ StoreInv /\ ChildrenInv /\ IsFunctions /\ CallsInv
      /\ proxied \in BOOLEAN /\ lookups \in 0..MaxLookups
  BY DEF IInv, CallsInv
<1>2. IsFunctions' /\ OthersKept(c)
  BY <1>1 DEF TryEntry, history, IsFunctions, OthersKept
<1>3. CallInv(proxied, pc'[c], state'[c], index'[c], done'[c], tried'[c], spoiled'[c])
  <2>1. Complete(state[c]) /\ Len(state[c]) = N
    BY <1>1, CompleteSeq DEF TryEntry, CallInv, CallType
  <2>2. done[c] = FALSE
    BY <1>1 DEF TryEntry, CallInv, CallType
  <2>3. CallInv(proxied, "getresolver", state[c], index[c], done[c], tried[c], spoiled[c])
    BY <1>1, <2>1, <2>2, TryStep DEF TryEntry, shouldSkip, URL, Skipped
  <2>4. /\ pc'[c] = "getresolver" /\ state'[c] = state[c] /\ index'[c] = index[c]
        /\ done'[c] = done[c] /\ tried'[c] = tried[c] /\ spoiled'[c] = spoiled[c]
    BY <1>1 DEF TryEntry, history, IsFunctions
  <2> QED BY <2>3, <2>4
<1>4. CallsInv'
  BY <1>1, <1>2, <1>3, OneCall DEF TryEntry, history
<1>5. StoreInv' /\ ChildrenInv'
  BY <1>1, SharedKept DEF TryEntry, history
<1> QED BY <1>1, <1>2, <1>4, <1>5 DEF TryEntry, IInv

\* A child is created if it is not in the cache, and only then.
LEMMA getresolverIInv ==
  ASSUME IInv, NEW c \in Calls, getresolver(c)
  PROVE  IInv'
<1>1. /\ CallInv(proxied, pc[c], state[c], index[c], done[c], tried[c], spoiled[c])
      /\ StoreInv /\ ChildrenInv /\ IsFunctions /\ CallsInv
      /\ proxied \in BOOLEAN /\ lookups \in 0..MaxLookups
  BY DEF IInv, CallsInv
<1>2. IsFunctions' /\ OthersKept(c)
  BY <1>1 DEF getresolver, history, IsFunctions, OthersKept
<1>3. CallInv(proxied, pc'[c], state'[c], index'[c], done'[c], tried'[c], spoiled'[c])
  <2>1. CallInv(proxied, "lookup", state[c], index[c], done[c], tried[c], spoiled[c])
    BY <1>1, GetresolverStep DEF getresolver
  <2>2. /\ pc'[c] = "lookup" /\ state'[c] = state[c] /\ index'[c] = index[c]
        /\ done'[c] = done[c] /\ tried'[c] = tried[c] /\ spoiled'[c] = spoiled[c]
    BY <1>1 DEF getresolver, history, IsFunctions
  <2> QED BY <2>1, <2>2
<1>4. CallsInv'
  BY <1>1, <1>2, <1>3, OneCall DEF getresolver
<1>5. StoreInv'
  BY <1>1, SharedKept DEF getresolver
<1>6. ChildrenInv'
  <2>1. URL(c) \in Makers
    <3>1. CallInv(proxied, "getresolver", state[c], index[c], done[c], tried[c],
                  spoiled[c])
      BY <1>1 DEF getresolver
    <3>2. state[c][index[c]].URL \in Makers
      BY <3>1, EntryInUse
    <3> QED BY <3>2 DEF URL
  <2>2. CASE URL(c) \in res
    BY <1>1, <2>2 DEF getresolver, ChildrenInv
  <2>3. CASE URL(c) \notin res
    BY <1>1, <2>1, <2>3 DEF getresolver, ChildrenInv
  <2> QED BY <2>2, <2>3
<1> QED BY <1>1, <1>2, <1>4, <1>5, <1>6 DEF getresolver, IInv

\* A lookup gives addresses.
LEMMA LookupSucceedsIInv ==
  ASSUME IInv, NEW c \in Calls, LookupSucceeds(c)
  PROVE  IInv'
<1>1. /\ CallInv(proxied, pc[c], state[c], index[c], done[c], tried[c], spoiled[c])
      /\ StoreInv /\ ChildrenInv /\ IsFunctions /\ CallsInv
      /\ proxied \in BOOLEAN /\ lookups \in 0..MaxLookups
  BY DEF IInv, CallsInv
<1>2. IsFunctions' /\ OthersKept(c)
  BY <1>1 DEF LookupSucceeds, SetScore, IsFunctions, OthersKept
<1>3. CallInv(proxied, pc'[c], state'[c], index'[c], done'[c], tried'[c], spoiled'[c])
  <2>1. CallInv(proxied, "writeAddrs",
                [state[c] EXCEPT ![index[c]].Score = Success(state[c][index[c]].Score)],
                index[c], done[c], tried[c] \cup {URL(c)}, spoiled[c])
    BY <1>1, SuccessStep DEF LookupSucceeds, URL
  <2>2. /\ pc'[c] = "writeAddrs"
        /\ state'[c] =
             [state[c] EXCEPT ![index[c]].Score = Success(state[c][index[c]].Score)]
        /\ index'[c] = index[c] /\ done'[c] = done[c]
        /\ tried'[c] = tried[c] \cup {URL(c)} /\ spoiled'[c] = spoiled[c]
    BY <1>1 DEF LookupSucceeds, SetScore, IsFunctions
  <2> QED BY <2>1, <2>2
<1>4. CallsInv'
  BY <1>1, <1>2, <1>3, OneCall DEF LookupSucceeds, SetScore
<1>5. StoreInv' /\ ChildrenInv'
  BY <1>1, SharedKept DEF LookupSucceeds, SetScore
<1> QED BY <1>1, <1>2, <1>4, <1>5 DEF LookupSucceeds, IInv

\* A lookup fails.
LEMMA LookupFailsIInv ==
  ASSUME IInv, NEW c \in Calls, LookupFails(c)
  PROVE  IInv'
<1>1. /\ CallInv(proxied, pc[c], state[c], index[c], done[c], tried[c], spoiled[c])
      /\ StoreInv /\ ChildrenInv /\ IsFunctions /\ CallsInv
      /\ proxied \in BOOLEAN /\ lookups \in 0..MaxLookups
  BY DEF IInv, CallsInv
<1>2. IsFunctions' /\ OthersKept(c)
  BY <1>1 DEF LookupFails, SetScore, NextEntry, IsFunctions, OthersKept
<1>3. CallInv(proxied, pc'[c], state'[c], index'[c], done'[c], tried'[c], spoiled'[c])
  <2>1. CallInv(proxied, "loop",
                [state[c] EXCEPT ![index[c]].Score = Failure(state[c][index[c]].Score)],
                index[c] + 1, done[c], tried[c] \cup {URL(c)},
                IF done[c] THEN spoiled[c] \cup {URL(c)} ELSE spoiled[c])
    BY <1>1, FailureStep DEF LookupFails, URL
  <2>2. /\ pc'[c] = "loop"
        /\ state'[c] =
             [state[c] EXCEPT ![index[c]].Score = Failure(state[c][index[c]].Score)]
        /\ index'[c] = index[c] + 1 /\ done'[c] = done[c]
        /\ tried'[c] = tried[c] \cup {URL(c)}
    BY <1>1 DEF LookupFails, SetScore, NextEntry, IsFunctions
  <2>3. spoiled'[c] = IF done[c] THEN spoiled[c] \cup {URL(c)} ELSE spoiled[c]
    BY <1>1 DEF LookupFails, IsFunctions
  <2> QED BY <2>1, <2>2, <2>3
<1>4. CallsInv'
  BY <1>1, <1>2, <1>3, OneCall DEF LookupFails, SetScore, NextEntry
<1>5. StoreInv' /\ ChildrenInv'
  BY <1>1, SharedKept DEF LookupFails, SetScore, NextEntry
<1> QED BY <1>1, <1>2, <1>4, <1>5 DEF LookupFails, IInv

\* The entries are over.
LEMMA NoMoreEntriesIInv ==
  ASSUME IInv, NEW c \in Calls, NoMoreEntries(c)
  PROVE  IInv'
<1>1. /\ CallInv(proxied, pc[c], state[c], index[c], done[c], tried[c], spoiled[c])
      /\ StoreInv /\ ChildrenInv /\ IsFunctions /\ CallsInv
      /\ proxied \in BOOLEAN /\ lookups \in 0..MaxLookups
  BY DEF IInv, CallsInv
<1>2. IsFunctions' /\ OthersKept(c)
  BY <1>1 DEF NoMoreEntries, history, IsFunctions, OthersKept
<1>3. CallInv(proxied, pc'[c], state'[c], index'[c], done'[c], tried'[c], spoiled'[c])
  <2>1. Complete(state[c]) /\ Len(state[c]) = N
    BY <1>1, CompleteSeq DEF NoMoreEntries, CallInv, CallType
  <2>2. CallInv(proxied, "writeError", state[c], index[c], done[c], tried[c], spoiled[c])
    BY <1>1, <2>1, NoMoreStep DEF NoMoreEntries
  <2>3. /\ pc'[c] = "writeError" /\ state'[c] = state[c] /\ index'[c] = index[c]
        /\ done'[c] = done[c] /\ tried'[c] = tried[c] /\ spoiled'[c] = spoiled[c]
    BY <1>1 DEF NoMoreEntries, history, IsFunctions
  <2> QED BY <2>2, <2>3
<1>4. CallsInv'
  BY <1>1, <1>2, <1>3, OneCall DEF NoMoreEntries, history
<1>5. StoreInv' /\ ChildrenInv'
  BY <1>1, SharedKept DEF NoMoreEntries, history
<1> QED BY <1>1, <1>2, <1>4, <1>5 DEF NoMoreEntries, IInv

\* A call overwrites what is stored, with a complete state, or fails to.
LEMMA writestateIInv ==
  ASSUME IInv, NEW c \in Calls, writestate(c)
  PROVE  IInv'
<1>1. /\ CallInv(proxied, pc[c], state[c], index[c], done[c], tried[c], spoiled[c])
      /\ StoreInv /\ ChildrenInv /\ IsFunctions /\ CallsInv
      /\ proxied \in BOOLEAN /\ lookups \in 0..MaxLookups
  BY DEF IInv, CallsInv
<1>2. IsFunctions' /\ OthersKept(c)
  BY <1>1 DEF writestate, history, IsFunctions, OthersKept
<1>3. CallInv(proxied, pc'[c], state'[c], index'[c], done'[c], tried'[c], spoiled'[c])
  <2>1. CallInv(proxied, IF pc[c] = "writeAddrs" THEN "addrs" ELSE "error", state[c],
                index[c], done[c], tried[c], spoiled[c])
    <3>1. pc[c] \in {"writeAddrs", "writeError"}
      BY DEF writestate
    <3> HIDE DEF CallInv
    <3> QED BY <1>1, <3>1, WriteStep, Zenon
  <2>2. /\ pc'[c] = IF pc[c] = "writeAddrs" THEN "addrs" ELSE "error"
        /\ state'[c] = state[c] /\ index'[c] = index[c]
        /\ done'[c] = done[c] /\ tried'[c] = tried[c] /\ spoiled'[c] = spoiled[c]
    BY <1>1 DEF writestate, history, IsFunctions
  <2> QED BY <2>1, <2>2
<1>4. CallsInv'
  BY <1>1, <1>2, <1>3, OneCall DEF writestate
<1>5. ChildrenInv'
  BY <1>1, SharedKept DEF writestate
<1>6. StoreInv'
  <2>1. CASE UNCHANGED storeVars
    BY <1>1, <2>1, SharedKept
  <2>2. CASE store' = state[c] /\ readable' = TRUE
    <3>1. Complete(state[c])
      BY <1>1 DEF writestate, CallInv, CallType
    <3>2. state[c] \in Seq(Entry)
      BY <3>1, CompleteSeq
    <3>3. Entry \subseteq OldEntry
      BY DEF Entry, OldEntry
    <3>4. state[c] \in Seq(OldEntry)
      BY <3>2, <3>3
    <3>5. DistinctURLs(state[c])
      BY <3>1 DEF Complete
    <3> QED BY <2>2, <3>1, <3>4, <3>5 DEF StoreInv
  <2> QED BY <2>1, <2>2 DEF writestate
<1> QED BY <1>1, <1>2, <1>4, <1>5, <1>6 DEF writestate, IInv

\* The caller is done with the result.
LEMMA ForgetIInv ==
  ASSUME IInv, NEW c \in Calls, Forget(c)
  PROVE  IInv'
<1>1. /\ CallInv(proxied, pc[c], state[c], index[c], done[c], tried[c], spoiled[c])
      /\ StoreInv /\ ChildrenInv /\ IsFunctions /\ CallsInv
      /\ proxied \in BOOLEAN /\ lookups \in 0..MaxLookups
  BY DEF IInv, CallsInv
<1>2. IsFunctions' /\ OthersKept(c)
  BY <1>1 DEF Forget, history, IsFunctions, OthersKept
<1>3. CallInv(proxied, pc'[c], state'[c], index'[c], done'[c], tried'[c], spoiled'[c])
  <2>1. CallInv(proxied, "idle", << >>, 0, done[c], tried[c], spoiled[c])
    BY <1>1, ForgetStep
  <2>2. /\ pc'[c] = "idle" /\ state'[c] = << >> /\ index'[c] = 0
        /\ done'[c] = done[c] /\ tried'[c] = tried[c] /\ spoiled'[c] = spoiled[c]
    BY <1>1 DEF Forget, history, IsFunctions
  <2> QED BY <2>1, <2>2
<1>4. CallsInv'
  BY <1>1, <1>2, <1>3, OneCall DEF Forget, history
<1>5. StoreInv' /\ ChildrenInv'
  BY <1>1, SharedKept DEF Forget, history
<1> QED BY <1>1, <1>2, <1>4, <1>5 DEF Forget, IInv

\* Every step keeps the invariant.
LEMMA NextIInv == IInv /\ [Next]_vars => IInv'
<1> SUFFICES ASSUME IInv, [Next]_vars PROVE IInv'
  OBVIOUS
<1>1. ASSUME UNCHANGED vars PROVE IInv'
  <2>1. UNCHANGED storeVars /\ UNCHANGED childVars
    BY <1>1 DEF vars
  <2>2. StoreInv' /\ ChildrenInv'
    BY <2>1, SharedKept DEF IInv
  <2>3. IsFunctions' /\ CallsInv'
    BY <1>1 DEF IInv, vars, history, IsFunctions, CallsInv
  <2> QED BY <1>1, <2>2, <2>3 DEF IInv, vars
<1>2. ASSUME NEW c \in Calls, Start(c) \/ Cancel(c) \/ LookupHost(c) \/ Forget(c)
      PROVE  IInv'
  BY <1>2, StartIInv, CancelIInv, SkipEntryIInv, TryEntryIInv, getresolverIInv,
     LookupSucceedsIInv, LookupFailsIInv, NoMoreEntriesIInv, writestateIInv,
     ForgetIInv DEF LookupHost
<1>3. ASSUME CloseIdleConnections PROVE IInv'
  <2>1. ChildrenInv'
    BY <1>3 DEF IInv, CloseIdleConnections, ChildrenInv
  <2>2. StoreInv'
    BY <1>3, SharedKept DEF IInv, CloseIdleConnections
  <2>3. IsFunctions' /\ CallsInv'
    BY <1>3 DEF IInv, CloseIdleConnections, history, IsFunctions, CallsInv
  <2> QED BY <1>3, <2>1, <2>2, <2>3 DEF IInv, CloseIdleConnections
<1> QED BY <1>1, <1>2, <1>3 DEF Next, Idle

\* The invariant, for every reachable state.
THEOREM Invariance == Spec => []IInv
<1> QED BY InitIInv, NextIInv, PTL DEF Spec

-----------------------------------------------------------------------------
(* The theorems.                                                           *)

\* For any resolvers, scores and calls, the stored and the working states have
\* scores in [0, 1) and URLs that the program knows or knew, and the index of a
\* call does not leave its state (engineresolver/resolver.go).
THEOREM TypeCorrectness == Spec => []TypeOK
<1>1. IInv => TypeOK
  <2> SUFFICES ASSUME IInv PROVE TypeOK
    OBVIOUS
  <2>1. ASSUME NEW c \in Calls
        PROVE  /\ pc[c] \in PCs /\ IsState(state[c]) /\ index[c] \in 0..(N + 1)
               /\ done[c] \in BOOLEAN /\ tried[c] \subseteq Makers
               /\ spoiled[c] \subseteq Makers
    <3>1. CallType(pc[c], state[c], index[c], done[c], tried[c], spoiled[c])
      BY DEF IInv, CallsInv, CallInv
    <3>2. CASE pc[c] = "idle"
      <4>1. state[c] = << >> /\ index[c] = 0
        BY <3>1, <3>2 DEF CallType
      <4>2. DOMAIN state[c] = {}
        BY <4>1
      <4> QED BY <3>1, <4>1, <4>2, NType DEF CallType, IsState, URLs
    <3>3. CASE pc[c] # "idle"
      <4>1. Complete(state[c]) /\ index[c] \in 1..(N + 1)
        BY <3>1, <3>3 DEF CallType
      <4>2. IsState(state[c])
        BY <4>1, CompleteSeq DEF IsState, URLs
      <4> QED BY <3>1, <4>1, <4>2, NType DEF CallType
    <3> QED BY <3>2, <3>3
  <2>2. IsState(store)
    <3>1. \A i \in DOMAIN store : store[i] \in OldEntry
      BY DEF IInv, StoreInv
    <3> QED BY <3>1 DEF OldEntry, IsState, URLs
  <2>3. /\ pc \in [Calls -> PCs] /\ index \in [Calls -> 0..(N + 1)]
        /\ done \in [Calls -> BOOLEAN] /\ tried \in [Calls -> SUBSET Makers]
        /\ spoiled \in [Calls -> SUBSET Makers]
    BY <2>1, Zenon DEF IInv, IsFunctions
  <2>4. open \in [Makers -> Nat]
    BY DEF IInv, ChildrenInv
  <2> QED BY <2>1, <2>2, <2>3, <2>4 DEF IInv, StoreInv, ChildrenInv, TypeOK, PCs, N
<1> QED BY <1>1, Invariance, PTL

\* A complete state is what StateComplete says.
LEMMA CompleteURLs ==
  ASSUME NEW s, Complete(s)
  PROVE  Len(s) = Cardinality(Makers) /\ URLs(s) = Makers
<1>1. Len(s) = N /\ DOMAIN s = 1..N /\ \A i \in 1..N : s[i].URL \in Makers
  BY CompleteSeq
<1>2. \A u \in Makers : \E i \in 1..N : s[i].URL = u
  BY DEF Complete
<1>3. URLs(s) = Makers
  BY <1>1, <1>2 DEF URLs
<1> QED BY <1>1, <1>3 DEF N

\* For any resolvers, scores and concurrent calls: each call works on a state
\* that has every supported resolver exactly once and leaves such a state behind
\* (state.go), a lookup gives up only when it has tried every resolver it can
\* use (resolver.go), and the children that are open are those in the cache, one
\* for each URL, CloseIdleConnections notwithstanding.
THEOREM ResolversRemembered == Spec => []NoResolverForgotten
<1>1. IInv => NoResolverForgotten
  <2> SUFFICES ASSUME IInv PROVE NoResolverForgotten
    OBVIOUS
  <2>1. StateComplete
    <3>1. ASSUME NEW c \in Calls, pc[c] # "idle"
          PROVE  Len(state[c]) = Cardinality(Makers) /\ URLs(state[c]) = Makers
      <4>1. Complete(state[c])
        BY <3>1 DEF IInv, CallsInv, CallInv, CallType
      <4> QED BY <4>1, CompleteURLs
    <3>2. (readable /\ Obsolete \notin URLs(store)) =>
             Len(store) = Cardinality(Makers) /\ URLs(store) = Makers
      BY CompleteURLs DEF IInv, StoreInv
    <3> QED BY <3>1, <3>2 DEF StateComplete
  <2>2. LookupExhaustive
    <3> SUFFICES ASSUME NEW c \in Calls, pc[c] \in {"writeError", "error"}, ~done[c]
                 PROVE  tried[c] = IF proxied THEN Makers \ CannotProxy ELSE Makers
      BY DEF LookupExhaustive
    <3>1. /\ CallType(pc[c], state[c], index[c], done[c], tried[c], spoiled[c])
          /\ AtEntry(proxied, pc[c], state[c], index[c])
          /\ Behind(proxied, pc[c], state[c], index[c], done[c], tried[c])
      BY DEF IInv, CallsInv, CallInv
    <3>2. Complete(state[c]) /\ index[c] = N + 1 /\ tried[c] \subseteq Makers
      BY <3>1 DEF CallType, AtEntry
    <3>3. \A u \in tried[c] : ~Skipped(proxied, u)
      BY <3>1 DEF Behind
    <3>4. ASSUME NEW u \in Makers, ~Skipped(proxied, u)
          PROVE  u \in tried[c]
      <4>1. PICK j \in 1..N : state[c][j].URL = u
        BY <3>2 DEF Complete
      <4>2. j < N + 1
        BY NType
      <4> QED BY <3>1, <3>2, <3>4, <4>1, <4>2 DEF Behind
    <3>5. proxied \in BOOLEAN
      BY DEF IInv
    <3> QED BY <3>2, <3>3, <3>4, <3>5 DEF Skipped
  <2>3. ChildrenCached
    BY DEF IInv, ChildrenInv, ChildrenCached
  <2> QED BY <2>1, <2>2, <2>3 DEF NoResolverForgotten
<1> QED BY <1>1, Invariance, PTL

\* For any resolvers, scores and concurrent calls: a cancellation counts against
\* one resolver at most, and when a lookup has succeeded, every resolver that
\* has failed before has a lower score than the one that gave the addresses,
\* whatever the scores were (resolver.go).
THEOREM FairScores == Spec => []ScoresAreFair
<1>1. IInv => ScoresAreFair
  <2> SUFFICES ASSUME IInv PROVE ScoresAreFair
    OBVIOUS
  <2>1. CancelSpoilsAtMostOne
    <3> SUFFICES ASSUME NEW c \in Calls
                 PROVE  Cardinality(spoiled[c]) <= 1
      BY DEF CancelSpoilsAtMostOne
    <3>1. spoiled[c] = {} \/ \E u \in Makers : spoiled[c] = {u}
      BY DEF IInv, CallsInv, CallInv, Blamed
    <3>2. CASE spoiled[c] = {}
      BY <3>2, FS_EmptySet
    <3>3. ASSUME NEW u \in Makers, spoiled[c] = {u}
          PROVE  Cardinality(spoiled[c]) <= 1
      <4>1. Cardinality({u}) = 1
        BY FS_Singleton, Zenon
      <4> QED BY <3>3, <4>1
    <3> QED BY <3>1, <3>2, <3>3
  <2>2. WinnerScoresBest
    <3> SUFFICES ASSUME NEW c \in Calls, pc[c] \in {"writeAddrs", "addrs"},
                        NEW i \in DOMAIN state[c], i # index[c],
                        state[c][i].URL \in tried[c]
                 PROVE  state[c][i].Score < state[c][index[c]].Score
      BY DEF WinnerScoresBest
    <3>1. /\ CallType(pc[c], state[c], index[c], done[c], tried[c], spoiled[c])
          /\ AtEntry(proxied, pc[c], state[c], index[c])
          /\ Behind(proxied, pc[c], state[c], index[c], done[c], tried[c])
          /\ Scored(pc[c], state[c], index[c], tried[c])
      BY DEF IInv, CallsInv, CallInv
    <3>2. Complete(state[c]) /\ index[c] \in 1..N
      BY <3>1, NType DEF CallType, AtEntry
    <3>3. i \in 1..N
      BY <3>2, CompleteSeq
    <3>4. PICK j \in 1..N : state[c][j].URL = state[c][i].URL /\ j <= index[c]
      <4>1. \E j \in 1..N :
              /\ state[c][j].URL = state[c][i].URL
              /\ j < index[c] \/ (j = index[c] /\ pc[c] \in {"writeAddrs", "addrs"})
        BY <3>1 DEF Behind
      <4>2. PICK j \in 1..N :
              state[c][j].URL = state[c][i].URL /\ (j < index[c] \/ j = index[c])
        BY <4>1
      <4>3. j <= index[c]
        BY <3>2, <4>2
      <4> QED BY <4>2, <4>3
    <3>5. j = i
      BY <3>2, <3>3, <3>4, CompleteSeq
    <3>6. i < index[c]
      BY <3>2, <3>3, <3>4, <3>5
    <3>7. state[c][i].Score <= (Scale - 1) \div 10
      BY <3>1, <3>3, <3>6 DEF Scored
    <3>8. state[c][index[c]].Score >= 9 * (Scale \div 10)
      BY <3>1 DEF Scored
    <3>9. /\ state[c][i].Score \in 0..(Scale - 1)
          /\ state[c][index[c]].Score \in 0..(Scale - 1)
      BY <3>2, <3>3, CompleteSeq
    <3>10. /\ (Scale - 1) \div 10 < 9 * (Scale \div 10)
           /\ (Scale - 1) \div 10 \in Nat /\ Scale \div 10 \in Nat
      BY <3>9, Samples
    <3> QED BY <3>7, <3>8, <3>9, <3>10
  <2> QED BY <2>1, <2>2 DEF ScoresAreFair
<1> QED BY <1>1, Invariance, PTL

-----------------------------------------------------------------------------
(* The statistics of the tactics: the inductive invariant.                 *)

\* There is room for every tactic of the endpoint of t
Roomy(t) == Cardinality(EntriesOf(domainEndpointKey, domainEndpointKey[t])) <= MaxEntries

\* An attempt belongs to a process, and the record it has updated when it
\* started is as recent as can be: no trim drops it
InFlightInv ==
  /\ manager = "down" => \A a \in Attempts : attempt[a] = NoTactic
  /\ \A a \in Attempts :
       attempt[a] # NoTactic /\ Roomy(attempt[a]) =>
         /\ attempt[a] \in DOMAIN container
         /\ container[attempt[a]].lastUpdated = now

\* What is on disk was pruned, and may have been saved while attempts were in
\* flight
DiskInv ==
  /\ \A e \in Endpoints : Cardinality(EntriesOf(disk.data, e)) <= MaxEntries
  /\ \A t \in DOMAIN disk.data :
       Roomy(t) => OutcomesOf(disk.data[t]) <= disk.data[t].count["started"]

StatsInv == StatsTypeOK /\ InFlightInv /\ DiskInv /\ OutcomesWithinStarted

-----------------------------------------------------------------------------
(* The comparison function.                                                *)

\* a/p <= b/q <= c/r
LEMMA RatesTransitive ==
  ASSUME NEW a \in Nat, NEW b \in Nat, NEW c \in Nat,
         NEW p \in Nat \ {0}, NEW q \in Nat \ {0}, NEW r \in Nat \ {0},
         a * q <= b * p, b * r <= c * q
  PROVE  a * r <= c * p
<1>1. /\ a * q \in Nat /\ b * p \in Nat /\ b * r \in Nat /\ c * q \in Nat
      /\ a * r \in Nat /\ c * p \in Nat
  OBVIOUS
<1>2. (a * q) * r <= (b * p) * r
  BY <1>1
<1>3. (b * r) * p <= (c * q) * p
  BY <1>1
<1>4. /\ (a * q) * r = (a * r) * q /\ (b * p) * r = (b * r) * p
      /\ (c * q) * p = (c * p) * q
  OBVIOUS
<1>5. (a * r) * q <= (c * p) * q
  BY <1>1, <1>2, <1>3, <1>4
<1>6. ASSUME NEW x \in Nat, NEW y \in Nat, x * q <= y * q
      PROVE  x <= y
  BY <1>6
<1>7. QED
  BY <1>1, <1>5, <1>6

IsRecord(r) ==
  /\ \A n \in Counters : r.count[n] \in Nat
  /\ r.lastUpdated \in Nat

\* The comparison function is not an ordering by itself, but what it calls not
\* less is at least as good by every criterion.
LEMMA NotLessTransitive ==
  ASSUME NEW x, NEW y, NEW z, IsRecord(x), IsRecord(y), IsRecord(z),
         ~ Less(x, y), ~ Less(y, z)
  PROVE  ~ Less(x, z)
<1> DEFINE started(r) == IF r.count["started"] > 0 THEN r.count["started"] ELSE 1
           success(r) == IF r.count["started"] > 0 THEN r.count["success"] ELSE 0
<1>1. \A r \in {x, y, z} : /\ r.count["started"] \in Nat /\ r.count["success"] \in Nat
                           /\ r.lastUpdated \in Nat
  BY DEF IsRecord, Counters, Outcomes
<1>2. \A r \in {x, y, z} : started(r) \in Nat \ {0} /\ success(r) \in Nat
  BY <1>1
<1>3. \A r, s \in {x, y, z} :
        /\ HigherSuccessRate(r, s) <=> success(r) * started(s) > success(s) * started(r)
        /\ success(r) * started(s) \in Nat
  BY <1>2 DEF HigherSuccessRate
<1> HIDE DEF started, success
<1>4. success(x) * started(y) <= success(y) * started(x)
  BY <1>3 DEF Less
<1>5. success(y) * started(z) <= success(z) * started(y)
  BY <1>3 DEF Less
<1>6. success(x) * started(z) <= success(z) * started(x)
  BY <1>2, <1>4, <1>5, RatesTransitive
<1>7. ~ HigherSuccessRate(x, z)
  BY <1>3, <1>6
<1>8. QED
  BY <1>1, <1>7 DEF Less

LEMMA DominanceTransitive ==
  ASSUME NEW t, NEW u, NEW p, IsRecord(t), IsRecord(u), IsRecord(p),
         ~ Less(t, u), Dominates(t, p)
  PROVE  Dominates(u, p)
<1>1. Less(t, p) /\ ~ Less(p, t)
  BY DEF Dominates
<1>2. ~ Less(p, u)
  BY <1>1, NotLessTransitive
<1>3. Less(u, p)
  BY <1>1, NotLessTransitive
<1>4. QED
  BY <1>2, <1>3 DEF Dominates

-----------------------------------------------------------------------------
(* Loops.                                                                  *)

\* A set that has 0 and the successor of every member up to n has them all.
LEMMA Induction ==
  ASSUME NEW n \in Nat, NEW S, 0 \in S, \A i \in 1..n : i - 1 \in S => i \in S
  PROVE  0..n \subseteq S
<1> DEFINE T == (0..n) \ S
           R == {ss \in Nat \X Nat : ss[1] < ss[2]}
<1> SUFFICES ASSUME T # {} PROVE FALSE
  OBVIOUS
<1>1. T \subseteq Nat
  OBVIOUS
<1>2. IsWellFoundedOn(R, Nat)
  BY NatLessThanWellFounded DEF OpToRel
<1>3. PICK i \in T : \A j \in T : ~(<<j, i>> \in R)
  <2> HIDE DEF R, T
  <2> QED BY <1>1, <1>2, WFMin
<1>4. i # 0 /\ i \in 1..n /\ i - 1 \in 0..n /\ <<i - 1, i>> \in R
  OBVIOUS
<1>5. i - 1 \in S
  BY <1>3, <1>4
<1>6. QED
  BY <1>4, <1>5

\* What a loop over n elements has after each of them, in g
IsLoop(g, n, V, v, step) ==
  /\ g \in [0..n -> V]
  /\ g[0] = v
  /\ \A i \in 1..n : g[i] = step[<<g[i - 1], i>>]

\* A loop over n elements computes something: the function with its results
\* after each element exists.
LEMMA LoopExists ==
  ASSUME NEW n \in Nat, NEW V, NEW v \in V, NEW step \in [V \X (1..n) -> V]
  PROVE  \E g : IsLoop(g, n, V, v, step)
<1> DEFINE Is(g, k) == g[0] = v /\ \A i \in 1..k : g[i] = step[<<g[i - 1], i>>]
           S == {k \in 0..n : \E g \in [0..n -> V] : Is(g, k)}
<1>1. 0 \in S
  <2> DEFINE g == [i \in 0..n |-> v]
  <2>1. g \in [0..n -> V] /\ Is(g, 0)
    OBVIOUS
  <2> HIDE DEF g, Is
  <2>2. QED
    BY <2>1
<1>2. ASSUME NEW k \in 1..n, k - 1 \in S PROVE k \in S
  <2>1. PICK g \in [0..n -> V] : Is(g, k - 1)
    BY <1>2
  <2> DEFINE h == [g EXCEPT ![k] = step[<<g[k - 1], k>>]]
  <2>2. h \in [0..n -> V]
    OBVIOUS
  <2>3. /\ h[k] = step[<<g[k - 1], k>>]
        /\ \A i \in 0..k - 1 : h[i] = g[i]
    OBVIOUS
  <2> HIDE DEF h
  <2>4. Is(h, k)
    <3>1. h[0] = v
      BY <2>1, <2>3
    <3>2. ASSUME NEW i \in 1..k PROVE h[i] = step[<<h[i - 1], i>>]
      <4>1. h[i - 1] = g[i - 1]
        BY <2>3
      <4>2. h[i] = step[<<g[i - 1], i>>]
        <5>1. CASE i = k
          BY <2>3, <5>1
        <5>2. CASE i \in 1..k - 1
          BY <2>1, <2>3, <5>2
        <5>3. QED
          BY <5>1, <5>2
      <4>3. QED
        BY <4>1, <4>2
    <3>3. QED
      BY <3>1, <3>2
  <2> HIDE DEF Is
  <2>5. QED
    BY <2>2, <2>4
<1>3. n \in S
  <2> HIDE DEF S
  <2> QED BY <1>1, <1>2, Induction
<1>4. QED
  BY <1>3 DEF IsLoop

-----------------------------------------------------------------------------
(* Sorting.                                                                *)

\* A set of natural numbers up to n that is not empty has a largest one.
LEMMA Largest ==
  ASSUME NEW n \in Nat, NEW S \in SUBSET (0..n), S # {}
  PROVE  Max(S) \in S /\ \A y \in S : Max(S) >= y
<1> DEFINE R == {ss \in Nat \X Nat : ss[1] < ss[2]}
           T == {k \in 0..n : n - k \in S}
<1>1. T \subseteq Nat /\ T # {}
  <2>1. PICK x \in S : TRUE
    OBVIOUS
  <2>2. n - x \in 0..n /\ n - (n - x) = x
    OBVIOUS
  <2>3. n - x \in T
    BY <2>2
  <2>4. T \subseteq Nat
    OBVIOUS
  <2> HIDE DEF T
  <2>5. QED
    BY <2>3, <2>4
<1>2. IsWellFoundedOn(R, Nat)
  BY NatLessThanWellFounded DEF OpToRel
<1>3. PICK i \in T : \A j \in T : ~(<<j, i>> \in R)
  <2> HIDE DEF R, T
  <2> QED BY <1>1, <1>2, WFMin
<1>4. PICK x \in S : x = n - i
  OBVIOUS
<1>5. ASSUME NEW y \in S PROVE x >= y
  <2>1. n - y \in 0..n /\ n - (n - y) = y /\ i \in 0..n
    OBVIOUS
  <2>2. n - y \in T
    BY <2>1
  <2>3. ~(<<n - y, i>> \in R)
    <3> HIDE DEF R, T
    <3> QED BY <1>3, <2>2
  <2>5. ~(n - y < i)
    BY <2>1, <2>3
  <2>6. QED
    BY <1>4, <2>1, <2>5
<1>6. QED
  BY <1>5 DEF Max

\* An element is put after the first p.
LEMMA Inserted ==
  ASSUME NEW X, NEW s \in Seq(X), NEW p \in 0..Len(s), NEW t \in X
  PROVE  /\ InsertAt(s, p + 1, t) \in Seq(X)
         /\ Len(InsertAt(s, p + 1, t)) = Len(s) + 1
         /\ \A k \in 1..Len(s) + 1 :
              InsertAt(s, p + 1, t)[k] = IF k <= p THEN s[k]
                                         ELSE IF k = p + 1 THEN t ELSE s[k - 1]
<1>0. Len(s) \in Nat /\ p \in Nat /\ p <= Len(s) /\ p + 1 - 1 = p
  OBVIOUS
<1>1. PICK a, m, b : a = SubSeq(s, 1, p) /\ m = <<t>> /\ b = SubSeq(s, p + 1, Len(s))
  OBVIOUS
<1>2. \A i \in 1..p : s[i] \in X
  BY <1>0
<1>3. \A i \in p + 1..Len(s) : s[i] \in X
  BY <1>0
<1>4. a \in Seq(X) /\ Len(a) = p /\ \A i \in 1..p : a[i] = s[i]
  <2>1. /\ a \in Seq(X) /\ Len(a) = IF 1 <= p THEN p - 1 + 1 ELSE 0
        /\ \A i \in 1..p - 1 + 1 : a[i] = s[1 + i - 1]
    BY <1>0, <1>1, <1>2, SubSeqProperties
  <2>2. QED
    BY <1>0, <2>1
<1>5. b \in Seq(X) /\ Len(b) = Len(s) - p /\ \A i \in 1..Len(s) - p : b[i] = s[p + i]
  <2>1. /\ b \in Seq(X) /\ Len(b) = IF p + 1 <= Len(s) THEN Len(s) - (p + 1) + 1 ELSE 0
        /\ \A i \in 1..Len(s) - (p + 1) + 1 : b[i] = s[p + 1 + i - 1]
    BY <1>0, <1>1, <1>3, SubSeqProperties
  <2>2. QED
    BY <1>0, <2>1
<1>6. m \in Seq(X) /\ Len(m) = 1 /\ m[1] = t
  BY <1>1
<1>7. PICK am : am = a \o m
  OBVIOUS
<1>8. /\ am \in Seq(X) /\ Len(am) = Len(a) + Len(m)
      /\ \A i \in 1..Len(a) + Len(m) : am[i] = IF i <= Len(a) THEN a[i] ELSE m[i - Len(a)]
  BY <1>4, <1>6, <1>7, ConcatProperties
<1>9. Len(am) = p + 1 /\ am[p + 1] = t /\ \A i \in 1..p : am[i] = s[i]
  BY <1>0, <1>4, <1>6, <1>8
<1>10. PICK r : r = am \o b
  OBVIOUS
<1>b. b \in Seq(X)
  BY <1>5
<1>am. am \in Seq(X)
  BY <1>8
<1>11. /\ r \in Seq(X) /\ Len(r) = Len(am) + Len(b)
       /\ \A i \in 1..Len(am) + Len(b) : r[i] = IF i <= Len(am) THEN am[i] ELSE b[i - Len(am)]
  BY <1>am, <1>b, <1>10, ConcatProperties
<1>12. Len(r) = Len(s) + 1
  BY <1>0, <1>5, <1>9, <1>11
<1>13. ASSUME NEW k \in 1..Len(s) + 1
       PROVE  r[k] = IF k <= p THEN s[k] ELSE IF k = p + 1 THEN t ELSE s[k - 1]
  <2>1. CASE k <= p + 1
    <3>1. r[k] = am[k]
      BY <1>0, <1>5, <1>9, <1>11, <2>1
    <3>2. QED
      BY <1>0, <1>9, <2>1, <3>1
  <2>2. CASE k > p + 1
    <3>1. r[k] = b[k - (p + 1)]
      BY <1>0, <1>5, <1>9, <1>11, <2>2
    <3>2. b[k - (p + 1)] = s[p + (k - (p + 1))]
      BY <1>0, <1>5, <2>2
    <3>3. QED
      BY <1>0, <2>2, <3>1, <3>2
  <2>3. QED
    BY <1>0, <2>1, <2>2
<1>14. r = InsertAt(s, p + 1, t)
  <2>1. a = SubSeq(s, 1, (p + 1) - 1)
    BY <1>0, <1>1
  <2>2. InsertAt(s, p + 1, t) = (SubSeq(s, 1, (p + 1) - 1) \o <<t>>) \o SubSeq(s, p + 1, Len(s))
    BY Zenon DEF InsertAt
  <2>3. QED
    BY <1>1, <1>7, <1>10, <2>1, <2>2
<1>15. QED
  BY <1>11, <1>12, <1>13, <1>14

\* The element moves left past those that it is less than, and stops.
LEMMA InsertPoint ==
  ASSUME NEW c, NEW s \in Seq(DOMAIN c), NEW t \in DOMAIN c
  PROVE  \E p \in 0..Len(s) :
           /\ InsertSorted(c, s, t) = InsertAt(s, p + 1, t)
           /\ p # 0 => ~ Less(c[t], c[s[p]])
           /\ \A i \in p + 1..Len(s) : Less(c[t], c[s[i]])
<1> DEFINE stops == {i \in DOMAIN s : ~ Less(c[t], c[s[i]])}
           S == stops \cup {0}
           p == Max(S)
<1>1. Len(s) \in Nat /\ S \in SUBSET (0..Len(s)) /\ S # {}
  OBVIOUS
<1>2. p \in S /\ \A y \in S : p >= y
  <2> HIDE DEF S
  <2> QED BY <1>1, Largest
<1>3. InsertSorted(c, s, t) = InsertAt(s, p + 1, t)
  BY DEF InsertSorted
<1> HIDE DEF p
<1>4. p \in 0..Len(s) /\ (p # 0 => ~ Less(c[t], c[s[p]]))
  BY <1>1, <1>2
<1>5. ASSUME NEW i \in p + 1..Len(s) PROVE Less(c[t], c[s[i]])
  <2>1. i \in DOMAIN s /\ ~(p >= i)
    BY <1>1, <1>4
  <2>2. i \notin S
    BY <1>2, <2>1
  <2>3. QED
    BY <2>1, <2>2
<1>6. QED
  BY <1>3, <1>4, <1>5

Records(c) == \A t \in DOMAIN c : IsRecord(c[t])

\* s lists the tactics in T, each once
Lists(c, s, T) ==
  /\ s \in Seq(DOMAIN c)
  /\ \A p, q \in 1..Len(s) : s[p] = s[q] => p = q
  /\ \A i \in 1..Len(s) : s[i] \in T
  /\ \A t \in T : \E i \in 1..Len(s) : s[i] = t

\* No tactic of s is before one that dominates it
Ordered(c, s) ==
  \A p, q \in 1..Len(s) : p < q => ~ Dominates(c[s[q]], c[s[p]])

LEMMA InsertType ==
  ASSUME NEW c, NEW s \in Seq(DOMAIN c), NEW t \in DOMAIN c
  PROVE  InsertSorted(c, s, t) \in Seq(DOMAIN c)
<1>1. PICK p \in 0..Len(s) : InsertSorted(c, s, t) = InsertAt(s, p + 1, t)
  BY InsertPoint
<1>2. QED
  BY <1>1, Inserted

\* Insertion keeps the list sorted, although the comparison is no ordering.
LEMMA InsertSorts ==
  ASSUME NEW c, Records(c), NEW s, NEW T, Lists(c, s, T), NEW t \in DOMAIN c, t \notin T
  PROVE  /\ Lists(c, InsertSorted(c, s, t), T \cup {t})
         /\ Ordered(c, s) => Ordered(c, InsertSorted(c, s, t))
<1>1. s \in Seq(DOMAIN c)
  BY DEF Lists
<1>2. PICK p \in 0..Len(s) :
        /\ InsertSorted(c, s, t) = InsertAt(s, p + 1, t)
        /\ p # 0 => ~ Less(c[t], c[s[p]])
        /\ \A i \in p + 1..Len(s) : Less(c[t], c[s[i]])
  BY <1>1, InsertPoint
<1>3. PICK r : r = InsertAt(s, p + 1, t)
  OBVIOUS
<1>4. /\ r \in Seq(DOMAIN c) /\ Len(s) \in Nat /\ p \in Nat /\ p <= Len(s)
      /\ Len(r) = Len(s) + 1
      /\ \A k \in 1..Len(s) + 1 :
           r[k] = IF k <= p THEN s[k] ELSE IF k = p + 1 THEN t ELSE s[k - 1]
  <2>1. Len(s) \in Nat /\ p \in Nat /\ p <= Len(s)
    BY <1>1
  <2>2. /\ InsertAt(s, p + 1, t) \in Seq(DOMAIN c)
        /\ Len(InsertAt(s, p + 1, t)) = Len(s) + 1
        /\ \A k \in 1..Len(s) + 1 :
             InsertAt(s, p + 1, t)[k] = IF k <= p THEN s[k]
                                        ELSE IF k = p + 1 THEN t ELSE s[k - 1]
    BY <1>1, Inserted
  <2>3. QED
    BY <1>3, <2>1, <2>2, Zenon
\* The place that a member of r other than t had in s
<1> DEFINE old(k) == IF k <= p THEN k ELSE k - 1
<1>5. ASSUME NEW k \in 1..Len(r), k # p + 1
      PROVE  old(k) \in 1..Len(s) /\ r[k] = s[old(k)]
  BY <1>4, <1>5
<1>6. r[p + 1] = t /\ p + 1 \in 1..Len(r)
  BY <1>4
<1>7. ASSUME NEW i \in 1..Len(s)
      PROVE  \E k \in 1..Len(r) : k # p + 1 /\ r[k] = s[i]
  <2>1. CASE i <= p
    BY <1>4, <2>1
  <2>2. CASE i > p
    <3>1. i + 1 \in 1..Len(r) /\ i + 1 # p + 1 /\ r[i + 1] = s[i]
      BY <1>4, <2>2
    <3>2. QED
      BY <3>1
  <2>3. QED
    BY <1>4, <2>1, <2>2
<1>8. \A i \in 1..Len(s) : s[i] \in T /\ s[i] # t /\ s[i] \in DOMAIN c
  BY <1>1 DEF Lists
<1>9. ASSUME NEW k \in 1..Len(r), NEW l \in 1..Len(r), r[k] = r[l]
      PROVE  k = l
  <2>1. CASE k # p + 1 /\ l # p + 1
    <3>1. old(k) \in 1..Len(s) /\ old(l) \in 1..Len(s) /\ s[old(k)] = s[old(l)]
      BY <1>5, <1>9, <2>1
    <3>2. old(k) = old(l)
      BY <3>1 DEF Lists
    <3>3. QED
      BY <1>4, <2>1, <3>2
  <2>2. CASE k = p + 1 \/ l = p + 1
    BY <1>5, <1>6, <1>8, <1>9, <2>2
  <2>3. QED
    BY <2>1, <2>2
<1>10. \A k \in 1..Len(r) : r[k] \in T \cup {t}
  BY <1>5, <1>6, <1>8
<1>11. \A u \in T \cup {t} : \E k \in 1..Len(r) : r[k] = u
  <2>1. ASSUME NEW u \in T PROVE \E k \in 1..Len(r) : r[k] = u
    <3>1. PICK i \in 1..Len(s) : s[i] = u
      BY DEF Lists
    <3>2. QED
      BY <1>7, <3>1
  <2>2. QED
    BY <1>6, <2>1
<1>12. ASSUME Ordered(c, s), NEW k \in 1..Len(r), NEW l \in 1..Len(r), k < l, Dominates(c[r[l]], c[r[k]])
       PROVE  FALSE
  <2>1. CASE k # p + 1 /\ l # p + 1
    <3>1. /\ old(k) \in 1..Len(s) /\ old(l) \in 1..Len(s) /\ old(k) < old(l)
          /\ r[k] = s[old(k)] /\ r[l] = s[old(l)]
      BY <1>4, <1>5, <1>12, <2>1
    <3>2. QED
      BY <1>12, <3>1 DEF Ordered
  <2>2. CASE k = p + 1
    <3>1. l - 1 \in p + 1..Len(s) /\ r[l] = s[l - 1]
      BY <1>4, <1>12, <2>2
    <3>2. Less(c[t], c[r[l]])
      BY <1>2, <3>1
    <3>3. QED
      BY <1>6, <1>12, <2>2, <3>2 DEF Dominates
  <2>3. CASE l = p + 1
    <3>1. k \in 1..p /\ r[k] = s[k] /\ p # 0 /\ p \in 1..Len(s)
      BY <1>4, <1>12, <2>3
    <3>2. ~ Less(c[t], c[s[p]]) /\ Dominates(c[t], c[s[k]])
      BY <1>2, <1>6, <1>12, <2>3, <3>1
    <3>3. CASE k = p
      BY <3>2, <3>3 DEF Dominates
    <3>4. CASE k < p
      <4>1. IsRecord(c[t]) /\ IsRecord(c[s[p]]) /\ IsRecord(c[s[k]])
        BY <1>4, <1>8, <3>1 DEF Records
      <4>2. Dominates(c[s[p]], c[s[k]])
        BY <3>2, <4>1, DominanceTransitive
      <4>3. k \in 1..Len(s)
        BY <1>4, <3>1
      <4>4. QED
        BY <1>12, <3>1, <3>4, <4>2, <4>3 DEF Ordered
    <3>5. QED
      BY <1>4, <3>1, <3>3, <3>4
  <2>4. QED
    BY <2>1, <2>2, <2>3
<1>13. Lists(c, r, T \cup {t})
  BY <1>4, <1>9, <1>10, <1>11 DEF Lists
<1>14. Ordered(c, s) => Ordered(c, r)
  BY <1>12 DEF Ordered
<1>15. QED
  BY <1>2, <1>3, <1>13, <1>14

LEMMA AppendLists ==
  ASSUME NEW c, NEW s, NEW T, Lists(c, s, T), NEW t \in DOMAIN c, t \notin T
  PROVE  Lists(c, Append(s, t), T \cup {t})
<1>1. /\ s \in Seq(DOMAIN c) /\ Len(s) \in Nat
      /\ \A p, q \in 1..Len(s) : s[p] = s[q] => p = q
      /\ \A i \in 1..Len(s) : s[i] \in T
      /\ \A u \in T : \E i \in 1..Len(s) : s[i] = u
  BY DEF Lists
<1>2. PICK r : r = Append(s, t)
  OBVIOUS
<1>3. /\ r \in Seq(DOMAIN c) /\ Len(r) = Len(s) + 1
      /\ r[Len(s) + 1] = t
      /\ \A i \in 1..Len(s) : r[i] = s[i]
  BY <1>1, <1>2
<1>4. \A k \in 1..Len(r) : k \in 1..Len(s) \/ k = Len(s) + 1
  BY <1>1, <1>3
<1>5. \A k \in 1..Len(s) : k \in 1..Len(r)
  BY <1>1, <1>3
<1>6. Len(s) + 1 \in 1..Len(r)
  BY <1>1, <1>3
<1>7. \A p, q \in 1..Len(r) : r[p] = r[q] => p = q
  BY <1>1, <1>3, <1>4
<1>8. \A i \in 1..Len(r) : r[i] \in T \cup {t}
  BY <1>1, <1>3, <1>4
<1>9. \A u \in T \cup {t} : \E i \in 1..Len(r) : r[i] = u
  <2>1. ASSUME NEW u \in T PROVE \E i \in 1..Len(r) : r[i] = u
    <3>1. PICK i \in 1..Len(s) : s[i] = u
      BY <1>1
    <3>2. QED
      BY <1>3, <1>5, <3>1
  <2>2. QED
    BY <1>3, <1>6, <2>1
<1>10. Lists(c, r, T \cup {t})
  BY <1>3, <1>7, <1>8, <1>9 DEF Lists
<1>11. QED
  BY <1>2, <1>10

\* The slice is short enough to be sorted by insertion
Short(c, e) == Cardinality({t \in DOMAIN c : domainEndpointKey[t] = e}) <= SortBlock

\* The lists that SliceStable goes through
SortLoop(f, c, order, e) ==
  /\ f \in [0..Len(order) -> Seq(DOMAIN c)]
  /\ f[0] = << >>
  /\ \A i \in 1..Len(order) :
       f[i] = IF domainEndpointKey[order[i]] # e THEN f[i - 1]
              ELSE IF Short(c, e) THEN InsertSorted(c, f[i - 1], order[i])
              ELSE Append(f[i - 1], order[i])
  /\ SliceStable(c, order, e) = f[Len(order)]

LEMMA SliceStableLoop ==
  ASSUME NEW c, NEW order \in Seq(DOMAIN c), NEW e
  PROVE  \E f : SortLoop(f, c, order, e)
<1> DEFINE n == Len(order)
           V == Seq(DOMAIN c)
           v == << >>
           More(a, i) == IF domainEndpointKey[order[i]] # e THEN a
                         ELSE IF Short(c, e) THEN InsertSorted(c, a, order[i])
                         ELSE Append(a, order[i])
           Loop(g) == [i \in 0..n |-> IF i = 0 THEN v ELSE More(g[i - 1], i)]
           step == [a \in V \X (1..n) |-> More(a[1], a[2])]
<1>1. n \in Nat /\ v \in V
  OBVIOUS
<1>2. \A i \in 1..n : \A a \in V : More(a, i) \in V
  <2>1. \A i \in 1..n : order[i] \in DOMAIN c
    OBVIOUS
  <2>2. \A i \in 1..n : \A a \in V : InsertSorted(c, a, order[i]) \in V
    BY <2>1, InsertType
  <2>3. \A i \in 1..n : \A a \in V : Append(a, order[i]) \in V
    BY <2>1
  <2>4. QED
    BY <2>2, <2>3, Zenon
<1>3. \E g \in [0..n -> V] : g = Loop(g)
  <2> HIDE DEF n, V, v, More
  <2>1. step \in [V \X (1..n) -> V]
    BY <1>2
  <2>2. \A i \in 1..n : \A a \in V : step[<<a, i>>] = More(a, i)
    OBVIOUS
  <2> HIDE DEF step
  <2>3. PICK g : IsLoop(g, n, V, v, step)
    BY <1>1, <2>1, LoopExists
  <2>4. g \in [0..n -> V] /\ g[0] = v /\ \A i \in 1..n : g[i] = step[<<g[i - 1], i>>]
    BY <2>3 DEF IsLoop
  <2>5. \A i \in 1..n : g[i - 1] \in V
    BY <1>1, <2>4
  <2>6. \A i \in 1..n : g[i] = More(g[i - 1], i)
    BY <2>2, <2>4, <2>5
  <2>7. g = Loop(g)
    <3>1. \A i \in 0..n : g[i] = IF i = 0 THEN v ELSE More(g[i - 1], i)
      BY <1>1, <2>4, <2>6
    <3>2. g = [i \in 0..n |-> g[i]]
      BY <2>4
    <3>3. [i \in 0..n |-> g[i]] = Loop(g)
      BY <3>1
    <3>4. QED
      BY <3>2, <3>3
  <2>8. QED
    BY <2>4, <2>7
<1> DEFINE f == CHOOSE h : h = Loop(h)
<1>4. f = Loop(f)
  <2> HIDE DEF Loop
  <2> QED BY <1>3
<1>5. SliceStable(c, order, e) = f[n]
  BY Zenon DEF SliceStable, Short
<1> HIDE DEF f
<1>6. f \in [0..n -> V] /\ f[0] = v /\ \A i \in 1..n : f[i] = More(f[i - 1], i)
  <2> HIDE DEF n, V, v, More
  <2>1. f[0] = v /\ \A i \in 1..n : f[i] = More(f[i - 1], i)
    BY <1>1, <1>4
  <2> DEFINE S == {i \in 0..n : f[i] \in V}
  <2>2. 0 \in S
    BY <1>1, <2>1
  <2>3. ASSUME NEW i \in 1..n, i - 1 \in S PROVE i \in S
    BY <1>1, <1>2, <2>1, <2>3
  <2>4. 0..n \subseteq S
    <3> HIDE DEF S
    <3> QED BY <1>1, <2>2, <2>3, Induction
  <2>5. \A i \in 0..n : f[i] \in V
    BY <2>4
  <2>6. QED
    BY <1>4, <2>1, <2>5
<1>7. SortLoop(f, c, order, e)
  BY <1>5, <1>6, Zenon DEF SortLoop
<1>8. QED
  BY <1>7

\* The order in which Go iterates over the records
IterationOrder(c, order) ==
  /\ order \in Seq(DOMAIN c)
  /\ \A i, j \in 1..Len(order) : order[i] = order[j] => i = j
  /\ \A t \in DOMAIN c : \E i \in 1..Len(order) : order[i] = t

\* SliceStable lists the tactics of the endpoint and, when they are few enough,
\* it sorts them.
LEMMA Sorts ==
  ASSUME NEW c, Records(c), NEW order, IterationOrder(c, order), NEW e
  PROVE  /\ Lists(c, SliceStable(c, order, e), {t \in DOMAIN c : domainEndpointKey[t] = e})
         /\ Short(c, e) => Ordered(c, SliceStable(c, order, e))
<1> DEFINE n == Len(order)
           T(i) == {t \in DOMAIN c : domainEndpointKey[t] = e /\ \E k \in 1..i : order[k] = t}
<1>1. /\ order \in Seq(DOMAIN c)
      /\ \A i, j \in 1..n : order[i] = order[j] => i = j
      /\ \A t \in DOMAIN c : \E i \in 1..n : order[i] = t
  BY DEF IterationOrder
<1>2. n \in Nat /\ \A i \in 1..n : order[i] \in DOMAIN c
  BY <1>1
<1>3. PICK f : SortLoop(f, c, order, e)
  BY <1>1, SliceStableLoop
<1>4. /\ f[0] = << >>
      /\ \A i \in 1..n :
           f[i] = IF domainEndpointKey[order[i]] # e THEN f[i - 1]
                  ELSE IF Short(c, e) THEN InsertSorted(c, f[i - 1], order[i])
                  ELSE Append(f[i - 1], order[i])
      /\ SliceStable(c, order, e) = f[n]
  BY <1>3 DEF SortLoop
<1> DEFINE S == {i \in 0..n : Lists(c, f[i], T(i)) /\ (Short(c, e) => Ordered(c, f[i]))}
<1>5. 0 \in S
  <2>1. T(0) = {}
    OBVIOUS
  <2>2. f[0] \in Seq(DOMAIN c) /\ Len(f[0]) = 0
    BY <1>4
  <2>3. Lists(c, f[0], {}) /\ Ordered(c, f[0])
    BY <2>2 DEF Lists, Ordered
  <2>4. Lists(c, f[0], T(0)) /\ Ordered(c, f[0])
    BY <2>1, <2>3, Zenon
  <2>5. 0 \in 0..n
    BY <1>2
  <2>6. QED
    BY <2>4, <2>5, Zenon
<1>6. ASSUME NEW i \in 1..n, i - 1 \in S PROVE i \in S
  <2>0. i \in 0..n
    BY <1>2
  <2>1. Lists(c, f[i - 1], T(i - 1)) /\ (Short(c, e) => Ordered(c, f[i - 1]))
    BY <1>6
  <2>2. \A k \in 1..i : k \in 1..i - 1 \/ k = i
    BY <1>2
  <2>3. \A k \in 1..i - 1 : k \in 1..i /\ k \in 1..n /\ k # i
    BY <1>2
  <2>4. CASE domainEndpointKey[order[i]] = e
    <3>1. order[i] \notin T(i - 1)
      BY <1>1, <2>3
    <3>2. T(i) = T(i - 1) \cup {order[i]}
      BY <1>2, <2>2, <2>3, <2>4
    <3>3. CASE Short(c, e)
      <4>1. f[i] = InsertSorted(c, f[i - 1], order[i])
        BY <1>4, <2>4, <3>3
      <4>2. /\ Lists(c, InsertSorted(c, f[i - 1], order[i]), T(i - 1) \cup {order[i]})
            /\ Ordered(c, InsertSorted(c, f[i - 1], order[i]))
        <5> HIDE DEF T
        <5> QED BY <1>2, <2>1, <3>1, <3>3, InsertSorts
      <4>3. Lists(c, f[i], T(i)) /\ Ordered(c, f[i])
        BY <3>2, <4>1, <4>2, Zenon
      <4>4. QED
        BY <2>0, <4>3, Zenon
    <3>4. CASE ~ Short(c, e)
      <4>1. f[i] = Append(f[i - 1], order[i])
        BY <1>4, <2>4, <3>4
      <4>2. Lists(c, Append(f[i - 1], order[i]), T(i - 1) \cup {order[i]})
        <5> HIDE DEF T
        <5> QED BY <1>2, <2>1, <3>1, AppendLists
      <4>3. Lists(c, f[i], T(i))
        BY <3>2, <4>1, <4>2, Zenon
      <4>4. Lists(c, f[i], T(i)) /\ (Short(c, e) => Ordered(c, f[i]))
        BY <3>4, <4>3, Zenon
      <4>5. QED
        BY <2>0, <4>4, Zenon
    <3>5. QED
      BY <3>3, <3>4, Zenon
  <2>5. CASE domainEndpointKey[order[i]] # e
    <3>1. T(i) = T(i - 1)
      BY <2>2, <2>3, <2>5
    <3>2. f[i] = f[i - 1]
      BY <1>4, <2>5
    <3>3. Lists(c, f[i], T(i)) /\ (Short(c, e) => Ordered(c, f[i]))
      BY <2>1, <3>1, <3>2, Zenon
    <3>4. QED
      BY <2>0, <3>3, Zenon
  <2>6. QED
    BY <2>4, <2>5, Zenon
<1>7. n \in S
  <2>1. \A i \in 1..n : i - 1 \in S => i \in S
    BY <1>6, Zenon
  <2> HIDE DEF S, n
  <2>2. 0..n \subseteq S
    BY <1>2, <1>5, <2>1, Induction
  <2>3. QED
    BY <1>2, <2>2
<1>8. T(n) = {t \in DOMAIN c : domainEndpointKey[t] = e}
  BY <1>1
<1>9. QED
  BY <1>4, <1>7, <1>8, Zenon

-----------------------------------------------------------------------------
(* Pruning.                                                                *)

\* What pruning keeps, K, of the records E of an endpoint
Prunes(c, at, E, K) ==
  /\ K \subseteq E
  /\ \A t \in K : Fresh(c[t], at)
  /\ IsFiniteSet(K) /\ Cardinality(K) <= MaxEntries
  /\ Cardinality(E) <= MaxEntries => \A t \in E : Fresh(c[t], at) => t \in K
  /\ Cardinality(E) <= SortBlock =>
       \A t \in E \ K : \A u \in K : Fresh(c[t], at) => ~ Dominates(c[t], c[u])

\* A list without repetitions is not longer than the set of its members.
LEMMA ListLength ==
  ASSUME NEW s, NEW E, IsFiniteSet(E), s \in Seq(E),
         \A p, q \in 1..Len(s) : s[p] = s[q] => p = q
  PROVE  Len(s) <= Cardinality(E)
<1>1. Len(s) \in Nat /\ s \in [1..Len(s) -> E]
  OBVIOUS
<1>2. s \in Injection(1..Len(s), E)
  BY <1>1 DEF Injection, IsInjective
<1>3. Cardinality(1..Len(s)) <= Cardinality(E)
  BY <1>2, FS_Injection
<1>4. Cardinality(1..Len(s)) = IF 1 > Len(s) THEN 0 ELSE Len(s) - 1 + 1
  BY <1>1, FS_Interval
<1>5. Cardinality(E) \in Nat
  BY FS_CardinalityType
<1>6. QED
  BY <1>1, <1>3, <1>4, <1>5

\* What is kept of a list of tactics
Firsts(c, at, s) ==
  LET fresh == {i \in DOMAIN s : Fresh(c[s[i]], at)}
  IN  {s[i] : i \in {j \in fresh : Cardinality({k \in fresh : k < j}) < MaxEntries}}

\* The first fresh entries of a list, sorted when it is short, are what pruning
\* has to keep.
LEMMA FirstFresh ==
  ASSUME NEW c, NEW at, NEW E, IsFiniteSet(E), NEW s, Lists(c, s, E),
         Cardinality(E) <= SortBlock => Ordered(c, s)
  PROVE  Prunes(c, at, E, Firsts(c, at, s))
<1>a. PICK fresh : fresh = {i \in DOMAIN s : Fresh(c[s[i]], at)}
  OBVIOUS
<1>b. PICK J : J = {j \in fresh : Cardinality({k \in fresh : k < j}) < MaxEntries}
  OBVIOUS
<1>c. PICK K : K = {s[i] : i \in J}
  OBVIOUS
<1>d. Firsts(c, at, s) = K
  BY <1>a, <1>b, <1>c, Zenon DEF Firsts
<1> DEFINE before(j) == {k \in fresh : k < j}
<1>e. /\ \A i : i \in fresh <=> i \in DOMAIN s /\ Fresh(c[s[i]], at)
      /\ \A j : j \in J <=> j \in fresh /\ Cardinality(before(j)) < MaxEntries
      /\ \A t : t \in K <=> \E i \in J : t = s[i]
  BY <1>a, <1>b, <1>c
<1>1. /\ s \in Seq(DOMAIN c) /\ Len(s) \in Nat /\ DOMAIN s = 1..Len(s)
      /\ \A p, q \in 1..Len(s) : s[p] = s[q] => p = q
      /\ \A i \in 1..Len(s) : s[i] \in E
      /\ \A t \in E : \E i \in 1..Len(s) : s[i] = t
  BY DEF Lists
<1>2. MaxEntries \in Nat /\ MaxEntries >= 1
  BY StatsAssumption
<1>3. IsFiniteSet(1..Len(s))
  BY <1>1, FS_Interval
<1>4. fresh \subseteq 1..Len(s) /\ J \subseteq fresh
  BY <1>1, <1>e
<1>5. ASSUME NEW S, S \subseteq fresh
      PROVE  IsFiniteSet(S) /\ Cardinality(S) \in Nat
  <2>1. S \in SUBSET (1..Len(s))
    BY <1>4, <1>5
  <2>2. QED
    BY <1>3, <2>1, FS_Subset, FS_CardinalityType
<1>6. \A j : before(j) \subseteq fresh /\ IsFiniteSet(before(j)) /\ Cardinality(before(j)) \in Nat
  BY <1>5
<1>7. \A j \in fresh : j \in J <=> Cardinality(before(j)) < MaxEntries
  BY <1>e
<1>8. ASSUME NEW t \in K PROVE t \in E /\ Fresh(c[t], at)
  <2>1. PICK i \in J : t = s[i]
    BY <1>e
  <2>2. i \in fresh /\ i \in 1..Len(s)
    BY <1>4
  <2>3. QED
    BY <1>1, <1>e, <2>1, <2>2
<1>9. IsFiniteSet(K) /\ Cardinality(K) <= MaxEntries
  <2>1. IsFiniteSet(J) /\ Cardinality(J) \in Nat
    BY <1>4, <1>5
  <2>2. Cardinality(J) <= MaxEntries
    <3>1. CASE J = {}
      <4>1. Cardinality(J) = 0
        BY <3>1, FS_EmptySet, Zenon
      <4>2. QED
        BY <1>2, <4>1
    <3>2. CASE J # {}
      <4>1. J \in SUBSET (0..Len(s))
        BY <1>1, <1>4
      <4>2. PICK j : j \in J /\ \A y \in J : j >= y
        BY <1>1, <3>2, <4>1, Largest
      <4>3. J \subseteq before(j) \cup {j}
        <5>1. ASSUME NEW y \in J, y # j PROVE y < j
          <6>1. y \in 1..Len(s) /\ j \in 1..Len(s)
            BY <1>4, <4>2, Zenon
          <6>2. j >= y
            BY <4>2, Zenon
          <6> HIDE DEF before
          <6>3. QED
            BY <1>1, <5>1, <6>1, <6>2
        <5>2. QED
          BY <1>4, <5>1
      <4>4. /\ IsFiniteSet(before(j) \cup {j})
            /\ Cardinality(before(j) \cup {j}) = Cardinality(before(j)) + 1
        <5>1. j \notin before(j)
          BY <1>1, <1>4, <4>2
        <5> HIDE DEF before
        <5>2. QED
          BY <1>6, <5>1, FS_AddElement
      <4>5. Cardinality(J) <= Cardinality(before(j) \cup {j})
        <5> HIDE DEF before
        <5> QED BY <4>3, <4>4, FS_Subset
      <4>6. Cardinality(before(j)) < MaxEntries
        BY <1>4, <1>7, <4>2
      <4> HIDE DEF before
      <4>7. QED
        BY <1>2, <1>6, <2>1, <4>4, <4>5, <4>6
    <3>3. QED
      BY <3>1, <3>2
  <2>3. PICK f : f = [i \in J |-> s[i]]
    OBVIOUS
  <2>4. f \in Surjection(J, K)
    BY <1>c, <2>3 DEF Surjection
  <2>5. IsFiniteSet(K) /\ Cardinality(K) <= Cardinality(J)
    BY <2>1, <2>4, FS_Surjection
  <2>6. Cardinality(K) \in Nat
    BY <2>5, FS_CardinalityType
  <2>7. QED
    BY <1>2, <2>1, <2>2, <2>5, <2>6
<1>10. ASSUME Cardinality(E) <= MaxEntries, NEW t \in E, Fresh(c[t], at)
       PROVE  t \in K
  <2>1. PICK j \in 1..Len(s) : s[j] = t
    BY <1>1
  <2>2. j \in fresh
    BY <1>1, <1>10, <1>e, <2>1
  <2>3. s \in Seq(E)
    BY <1>1
  <2>4. Len(s) <= Cardinality(E) /\ Cardinality(E) \in Nat
    BY <1>1, <2>3, ListLength, FS_CardinalityType
  <2>5. before(j) \subseteq 1..j - 1
    <3>1. ASSUME NEW k \in before(j) PROVE k \in 1..j - 1
      <4>1. k \in 1..Len(s) /\ k < j
        BY <1>4
      <4>2. QED
        BY <1>1, <4>1
    <3>2. QED
      BY <3>1
  <2>6. IsFiniteSet(1..j - 1) /\ Cardinality(1..j - 1) = j - 1
    <3>1. PICK m \in Int : m = j - 1 /\ m >= 0
      BY <1>1
    <3>2. IsFiniteSet(1..m) /\ Cardinality(1..m) = IF 1 > m THEN 0 ELSE m - 1 + 1
      BY FS_Interval
    <3>3. Cardinality(1..m) = m
      BY <3>1, <3>2
    <3>4. QED
      BY <3>1, <3>2, <3>3
  <2>7. Cardinality(before(j)) <= j - 1
    <3> HIDE DEF before
    <3>1. Cardinality(before(j)) <= Cardinality(1..j - 1)
      BY <2>5, <2>6, FS_Subset
    <3>2. QED
      BY <2>6, <3>1
  <2>8. Cardinality(before(j)) < MaxEntries
    <3> HIDE DEF before
    <3> QED BY <1>1, <1>2, <1>6, <1>10, <2>4, <2>7
  <2>9. j \in J
    BY <1>7, <2>2, <2>8
  <2>10. QED
    BY <1>e, <2>1, <2>9
<1>11. ASSUME Cardinality(E) <= SortBlock, NEW t \in E \ K, NEW u \in K, Fresh(c[t], at)
       PROVE  ~ Dominates(c[t], c[u])
  <2>1. PICK q \in 1..Len(s) : s[q] = t
    BY <1>1
  <2>2. PICK p \in J : s[p] = u
    BY <1>e
  <2>3. q \in fresh /\ q \notin J
    BY <1>1, <1>11, <1>e, <2>1
  <2>4. ~(Cardinality(before(q)) < MaxEntries) /\ Cardinality(before(p)) < MaxEntries
    BY <1>4, <1>7, <2>2, <2>3
  <2>5. p \in 1..Len(s)
    BY <1>4
  <2>6. ASSUME q <= p PROVE FALSE
    <3>1. ASSUME NEW k \in before(q) PROVE k \in before(p)
      <4>1. k \in fresh /\ k \in 1..Len(s) /\ k < q
        BY <1>4
      <4>2. k < p
        BY <1>1, <2>5, <2>6, <4>1
      <4>3. QED
        BY <4>1, <4>2
    <3> HIDE DEF before
    <3>2. Cardinality(before(q)) <= Cardinality(before(p))
      <4>1. before(q) \in SUBSET before(p)
        BY <3>1
      <4>2. QED
        BY <1>6, <4>1, FS_Subset, Zenon
    <3>3. QED
      BY <1>2, <1>6, <2>4, <3>2
  <2>7. p < q
    BY <1>1, <2>5, <2>6
  <2>8. QED
    BY <1>11, <2>1, <2>2, <2>5, <2>7 DEF Ordered
<1>12. QED
  <2>1. Prunes(c, at, E, K)
    BY <1>8, <1>9, <1>10, <1>11 DEF Prunes
  <2>2. QED
    BY <1>d, <2>1, Zenon

Pruned(c, at, r) ==
  \E K \in SUBSET DOMAIN c :
    /\ r = Restrict(c, K)
    /\ \A e \in Endpoints : Prunes(c, at, EntriesOf(c, e), {t \in K : domainEndpointKey[t] = e})

\* statsContainerPruneEntries prunes each endpoint.
LEMMA ContainerPruned ==
  ASSUME NEW c, IsContainer(c), NEW at, NEW r \in ContainerPruneEntries(c, at)
  PROVE  Pruned(c, at, r)
<1> DEFINE n == Cardinality(DOMAIN c)
<1>1. DOMAIN c \subseteq Tactics /\ Records(c)
  <2>1. DOMAIN c \subseteq Tactics
    BY DEF IsContainer
  <2>2. ASSUME NEW t \in DOMAIN c PROVE IsRecord(c[t])
    <3>1. \A m \in Counters : c[t].count[m] \in Nat
      BY DEF IsContainer
    <3>2. c[t].lastUpdated \in Nat
      BY DEF IsContainer
    <3>3. QED
      BY <3>1, <3>2 DEF IsRecord
  <2>3. QED
    BY <2>1, <2>2 DEF Records
<1>2. IsFiniteSet(DOMAIN c) /\ n \in Nat
  BY <1>1, StatsAssumption, FS_Subset, FS_CardinalityType
<1>3. PICK order \in Bijection(1..n, DOMAIN c) :
        r = Restrict(c, UNION {DomainEndpointPruneEntries(c, at, order, e) : e \in Endpoints})
  BY DEF ContainerPruneEntries
<1>4. IterationOrder(c, order)
  <2>1. order \in [1..n -> DOMAIN c]
    BY <1>3 DEF Bijection, Injection
  <2>2. order \in Seq(DOMAIN c) /\ Len(order) = n
    BY <1>2, <2>1
  <2>3. \A i, j \in 1..n : order[i] = order[j] => i = j
    BY <1>3, <2>1 DEF Bijection, Injection, IsInjective
  <2>4. \A t \in DOMAIN c : \E i \in 1..n : order[i] = t
    BY <1>3 DEF Bijection, Surjection
  <2>5. QED
    BY <2>2, <2>3, <2>4 DEF IterationOrder
<1> DEFINE Of(e) == DomainEndpointPruneEntries(c, at, order, e)
           K == UNION {Of(e) : e \in Endpoints}
<1>5. ASSUME NEW e \in Endpoints
      PROVE  Prunes(c, at, EntriesOf(c, e), Of(e))
  <2>1. PICK s : s = SliceStable(c, order, e)
    OBVIOUS
  <2>2. Of(e) = Firsts(c, at, s)
    BY <2>1, Zenon DEF DomainEndpointPruneEntries, Firsts
  <2>3. /\ Lists(c, s, EntriesOf(c, e))
        /\ Cardinality(EntriesOf(c, e)) <= SortBlock => Ordered(c, s)
    BY <1>1, <1>4, <2>1, Sorts, Zenon DEF EntriesOf, Short
  <2>4. IsFiniteSet(EntriesOf(c, e))
    BY <1>2, FS_Subset DEF EntriesOf
  <2> HIDE DEF Of
  <2>5. QED
    BY <2>2, <2>3, <2>4, FirstFresh, Zenon
<1>6. \A e \in Endpoints : Of(e) \subseteq EntriesOf(c, e)
  BY <1>5 DEF Prunes
<1>7. K \in SUBSET DOMAIN c
  BY <1>6 DEF EntriesOf
<1>8. \A e \in Endpoints : {t \in K : domainEndpointKey[t] = e} = Of(e)
  BY <1>6 DEF EntriesOf
<1>9. \A e \in Endpoints : Prunes(c, at, EntriesOf(c, e), {t \in K : domainEndpointKey[t] = e})
  BY <1>5, <1>8
<1>10. r = Restrict(c, K)
  BY <1>3
<1>11. QED
  BY <1>7, <1>9, <1>10 DEF Pruned

\* What is in memory or on disk after pruning
Kept(c, at, r) ==
  /\ IsContainer(r)
  /\ DOMAIN r \subseteq DOMAIN c
  /\ r = Restrict(c, DOMAIN r)
  /\ \A t \in DOMAIN r : r[t] = c[t] /\ Fresh(c[t], at)
  /\ \A e \in Endpoints : Cardinality(EntriesOf(r, e)) <= MaxEntries
  /\ \A t \in DOMAIN c :
       Fresh(c[t], at) /\ Cardinality(EntriesOf(c, domainEndpointKey[t])) <= MaxEntries =>
         t \in DOMAIN r
  /\ \A t \in DOMAIN c \ DOMAIN r : \A u \in DOMAIN r :
       /\ domainEndpointKey[t] = domainEndpointKey[u]
       /\ Cardinality(EntriesOf(c, domainEndpointKey[t])) <= SortBlock
       /\ Fresh(c[t], at)
       => ~ Dominates(c[t], c[u])

LEMMA PruneKeeps ==
  ASSUME NEW c, IsContainer(c), NEW at, NEW r \in ContainerPruneEntries(c, at)
  PROVE  Kept(c, at, r)
<1>1. PICK K \in SUBSET DOMAIN c :
        /\ r = Restrict(c, K)
        /\ \A e \in Endpoints :
             Prunes(c, at, EntriesOf(c, e), {t \in K : domainEndpointKey[t] = e})
  BY ContainerPruned DEF Pruned
<1>2. DOMAIN r = K /\ (\A t \in K : r[t] = c[t]) /\ r = Restrict(c, DOMAIN r)
  <2>1. DOMAIN r = K
    BY <1>1 DEF Restrict
  <2>2. \A t \in K : r[t] = c[t]
    BY <1>1 DEF Restrict
  <2>3. QED
    BY <1>1, <2>1, <2>2
<1>3. \A t \in DOMAIN c : domainEndpointKey[t] \in Endpoints
  BY StatsAssumption DEF Endpoints, IsContainer
<1>4. IsContainer(r)
  BY <1>1, <1>2 DEF IsContainer
<1>5. \A t \in K : Fresh(c[t], at)
  BY <1>1, <1>3 DEF Prunes
<1>6. \A e \in Endpoints : EntriesOf(r, e) = {t \in K : domainEndpointKey[t] = e}
  BY <1>2, Zenon DEF EntriesOf
<1>7. \A e \in Endpoints : Cardinality(EntriesOf(r, e)) <= MaxEntries
  BY <1>1, <1>6 DEF Prunes
<1>8. ASSUME NEW t \in DOMAIN c, Fresh(c[t], at),
             Cardinality(EntriesOf(c, domainEndpointKey[t])) <= MaxEntries
      PROVE  t \in K
  <2>1. t \in EntriesOf(c, domainEndpointKey[t])
    BY DEF EntriesOf
  <2>2. QED
    BY <1>1, <1>3, <1>8, <2>1 DEF Prunes
<1>9. ASSUME NEW t \in DOMAIN c \ K, NEW u \in K,
             domainEndpointKey[t] = domainEndpointKey[u],
             Cardinality(EntriesOf(c, domainEndpointKey[t])) <= SortBlock, Fresh(c[t], at)
      PROVE  ~ Dominates(c[t], c[u])
  <2>1. PICK e \in Endpoints : e = domainEndpointKey[t]
    BY <1>3
  <2>2. PICK L : L = {v \in K : domainEndpointKey[v] = e}
    OBVIOUS
  <2>3. Prunes(c, at, EntriesOf(c, e), L)
    BY <1>1, <2>2
  <2>4. t \in EntriesOf(c, e) \ L /\ u \in L
    BY <1>9, <2>1, <2>2 DEF EntriesOf
  <2>5. Cardinality(EntriesOf(c, e)) <= SortBlock
    BY <1>9, <2>1
  <2>6. QED
    BY <1>9, <2>3, <2>4, <2>5 DEF Prunes
<1>10. QED
  BY <1>2, <1>4, <1>5, <1>7, <1>8, <1>9 DEF Kept

\* Where there is room for every tactic, pruning drops nothing that is fresh.
LEMMA RoomyKept ==
  ASSUME NEW c, IsContainer(c), NEW at, NEW r, Kept(c, at, r),
         NEW t \in DOMAIN c, Fresh(c[t], at), Roomy(t)
  PROVE  t \in DOMAIN r
<1>1. t \in Tactics
  BY DEF IsContainer
<1>2. PICK A : A = EntriesOf(c, domainEndpointKey[t])
  OBVIOUS
<1>3. PICK B : B = EntriesOf(domainEndpointKey, domainEndpointKey[t])
  OBVIOUS
<1>4. A \in SUBSET B /\ B \in SUBSET Tactics
  BY <1>2, <1>3, StatsAssumption DEF EntriesOf, IsContainer
<1>5. IsFiniteSet(B) /\ IsFiniteSet(A)
  BY <1>4, StatsAssumption, FS_Subset
<1>6. Cardinality(A) <= Cardinality(B)
  BY <1>4, <1>5, FS_Subset
<1>7. Cardinality(A) \in Nat /\ Cardinality(B) \in Nat
  BY <1>5, FS_CardinalityType
<1>8. Cardinality(B) <= MaxEntries
  BY <1>3 DEF Roomy
<1>9. Cardinality(A) <= MaxEntries
  BY <1>6, <1>7, <1>8, StatsAssumption
<1>10. QED
  BY <1>2, <1>9 DEF Kept

-----------------------------------------------------------------------------
(* Records and attempts.                                                   *)

GoodRecord(r) ==
  /\ DOMAIN r = {"count", "lastUpdated"}
  /\ DOMAIN r.count = Counters
  /\ \A n \in Counters : r.count[n] \in Nat
  /\ r.lastUpdated \in Nat

LEMMA ContainerRecords ==
  ASSUME NEW c
  PROVE  IsContainer(c) <=> DOMAIN c \subseteq Tactics /\ \A t \in DOMAIN c : GoodRecord(c[t])
BY Zenon DEF IsContainer, GoodRecord

LEMMA NewRecordGood ==
  /\ GoodRecord(NewRecord) /\ OutcomesOf(NewRecord) = 0
  /\ NewRecord.count["started"] = 0
<1>1. \A n \in Counters : NewRecord.count[n] = 0
  BY DEF NewRecord
<1>2. {"error", "interrupt", "success", "started"} \subseteq Counters
  BY DEF Counters, Outcomes
<1>3. NewRecord.lastUpdated = 0 /\ DOMAIN NewRecord = {"count", "lastUpdated"}
  BY DEF NewRecord
<1>4. DOMAIN NewRecord.count = Counters
  BY DEF NewRecord
<1>5. QED
  BY <1>1, <1>2, <1>3, <1>4 DEF GoodRecord, OutcomesOf

LEMMA UpdatedRecord ==
  ASSUME NEW r, GoodRecord(r), now \in Nat, NEW n \in Counters
  PROVE  /\ GoodRecord(Updated(r, n))
         /\ Updated(r, n).lastUpdated = now
         /\ n = "started" =>
              /\ Updated(r, n).count["started"] = r.count["started"] + 1
              /\ OutcomesOf(Updated(r, n)) = OutcomesOf(r)
         /\ n # "started" =>
              /\ Updated(r, n).count["started"] = r.count["started"]
              /\ OutcomesOf(Updated(r, n)) = OutcomesOf(r) + 1
<1>1. PICK u : u = Updated(r, n)
  OBVIOUS
<1>2. /\ DOMAIN u = {"count", "lastUpdated"} /\ u.lastUpdated = now
      /\ u.count = [r.count EXCEPT ![n] = @ + 1]
  BY <1>1 DEF Updated
<1>3. /\ DOMAIN r.count = Counters /\ \A m \in Counters : r.count[m] \in Nat
  BY DEF GoodRecord
<1>4. DOMAIN u.count = Counters
  BY <1>2, <1>3
<1>5. \A m \in Counters : u.count[m] = IF m = n THEN r.count[m] + 1 ELSE r.count[m]
  BY <1>2, <1>3
<1>6. GoodRecord(u)
  BY <1>2, <1>3, <1>4, <1>5 DEF GoodRecord
<1>7. Counters = {"error", "interrupt", "success", "started"}
  BY DEF Counters, Outcomes
<1>8. n = "started" =>
        u.count["started"] = r.count["started"] + 1 /\ OutcomesOf(u) = OutcomesOf(r)
  BY <1>5, <1>7 DEF OutcomesOf
<1>9. ASSUME n # "started"
      PROVE  u.count["started"] = r.count["started"] /\ OutcomesOf(u) = OutcomesOf(r) + 1
  <2>1. u.count["started"] = r.count["started"]
    BY <1>5, <1>7, <1>9
  <2>2. OutcomesOf(u) = OutcomesOf(r) + 1
    BY <1>3, <1>5, <1>7, <1>9 DEF OutcomesOf
  <2>3. QED
    BY <2>1, <2>2
<1>10. QED
  BY <1>1, <1>2, <1>6, <1>8, <1>9

LEMMA GoodCounts ==
  ASSUME NEW r, GoodRecord(r)
  PROVE  OutcomesOf(r) \in Nat /\ r.count["started"] \in Nat
<1>1. {"error", "interrupt", "success", "started"} \subseteq Counters
  BY DEF Counters, Outcomes
<1>2. QED
  BY <1>1 DEF GoodRecord, OutcomesOf

LEMMA WithRecord ==
  ASSUME NEW c, IsContainer(c), NEW t \in Tactics, NEW r, GoodRecord(r)
  PROVE  /\ IsContainer(With(c, t, r))
         /\ DOMAIN With(c, t, r) = DOMAIN c \cup {t}
<1>1. PICK w : w = With(c, t, r)
  OBVIOUS
<1>2. /\ DOMAIN w = DOMAIN c \cup {t} /\ w[t] = r
      /\ \A u \in DOMAIN c : u # t => w[u] = c[u]
  BY <1>1 DEF With
<1>3. DOMAIN c \subseteq Tactics /\ \A u \in DOMAIN c : GoodRecord(c[u])
  BY ContainerRecords
<1>4. DOMAIN w \subseteq Tactics /\ \A u \in DOMAIN w : GoodRecord(w[u])
  BY <1>2, <1>3
<1>5. IsContainer(w)
  BY <1>4, ContainerRecords
<1>6. QED
  BY <1>1, <1>2, <1>5

\* An empty container
LEMMA NewContainer ==
  /\ IsContainer(newStatsContainer) /\ DOMAIN newStatsContainer = {}
  /\ \A e \in Endpoints : Cardinality(EntriesOf(newStatsContainer, e)) <= MaxEntries
<1>1. DOMAIN newStatsContainer = {}
  BY DEF newStatsContainer
<1>2. \A e \in Endpoints : EntriesOf(newStatsContainer, e) = {}
  BY <1>1 DEF EntriesOf
<1>3. Cardinality({}) = 0
  BY FS_EmptySet
<1>4. 0 <= MaxEntries
  BY StatsAssumption
<1>5. QED
  BY <1>1, <1>2, <1>3, <1>4 DEF IsContainer

LEMMA InFlightFinite ==
  ASSUME NEW t
  PROVE  IsFiniteSet(InFlight(t)) /\ Cardinality(InFlight(t)) \in Nat
<1>1. InFlight(t) \in SUBSET Attempts
  BY DEF InFlight
<1>2. QED
  BY <1>1, ManagerAssumption, FS_Subset, FS_CardinalityType

\* The attempts in flight when an attempt starts
LEMMA InFlightStarts ==
  ASSUME attempt \in [Attempts -> Tactics \cup {NoTactic}],
         NEW a \in Attempts, attempt[a] = NoTactic, NEW t \in Tactics,
         attempt' = [attempt EXCEPT ![a] = t]
  PROVE  /\ Cardinality(InFlight(t)') = Cardinality(InFlight(t)) + 1
         /\ \A u \in Tactics : u # t => InFlight(u)' = InFlight(u)
<1>1. t # NoTactic
  BY TacticsAssumption
<1>2. InFlight(t)' = InFlight(t) \cup {a} /\ a \notin InFlight(t)
  BY <1>1 DEF InFlight
<1>3. Cardinality(InFlight(t) \cup {a}) = Cardinality(InFlight(t)) + 1
  BY <1>2, InFlightFinite, FS_AddElement
<1>4. ASSUME NEW u \in Tactics, u # t PROVE InFlight(u)' = InFlight(u)
  <2>1. u # NoTactic
    BY TacticsAssumption
  <2>2. QED
    BY <1>4, <2>1 DEF InFlight
<1>5. QED
  BY <1>2, <1>3, <1>4

\* The attempts in flight when an attempt ends
LEMMA InFlightEnds ==
  ASSUME attempt \in [Attempts -> Tactics \cup {NoTactic}],
         NEW a \in Attempts, NEW t \in Tactics, attempt[a] = t,
         attempt' = [attempt EXCEPT ![a] = NoTactic]
  PROVE  /\ Cardinality(InFlight(t)') = Cardinality(InFlight(t)) - 1
         /\ \A u \in Tactics : u # t => InFlight(u)' = InFlight(u)
<1>1. t # NoTactic
  BY TacticsAssumption
<1>2. InFlight(t)' = InFlight(t) \ {a} /\ a \in InFlight(t)
  BY <1>1 DEF InFlight
<1>3. Cardinality(InFlight(t) \ {a}) = Cardinality(InFlight(t)) - 1
  BY <1>2, InFlightFinite, FS_RemoveElement
<1>4. ASSUME NEW u \in Tactics, u # t PROVE InFlight(u)' = InFlight(u)
  <2>1. u # NoTactic
    BY TacticsAssumption
  <2>2. QED
    BY <1>4, <2>1 DEF InFlight
<1>5. QED
  BY <1>2, <1>3, <1>4

\* Nothing is in flight
LEMMA NoneInFlight ==
  ASSUME \A a \in Attempts : attempt[a] = NoTactic
  PROVE  \A t \in Tactics : Cardinality(InFlight(t)) = 0
<1>1. ASSUME NEW t \in Tactics PROVE Cardinality(InFlight(t)) = 0
  <2>1. InFlight(t) = {}
    BY TacticsAssumption DEF InFlight
  <2>2. QED
    BY <2>1, FS_EmptySet
<1>2. QED
  BY <1>1

-----------------------------------------------------------------------------
(* The invariant is inductive.                                             *)

\* The records in memory are balanced: OutcomesWithinStarted for the tactic t
Balanced(t) ==
  Roomy(t) => OutcomesOf(container[t]) + Cardinality(InFlight(t)) <= container[t].count["started"]

LEMMA StatsInvInit == StatsInit => StatsInv
<1> SUFFICES ASSUME StatsInit PROVE StatsInv
  OBVIOUS
<1>1. /\ manager = "down" /\ trimmer = "exited" /\ container = newStatsContainer
      /\ disk.ok = FALSE /\ disk.data = newStatsContainer
      /\ attempt = [a \in Attempts |-> NoTactic] /\ starts = 0 /\ now = 0
  BY DEF StatsInit, Unreadable
<1>2. StatsTypeOK
  <2>1. IsContainer(container) /\ IsContainer(disk.data)
    BY <1>1, NewContainer, Zenon
  <2>2. starts \in 0..MaxStarts /\ now \in 0..MaxTime
    BY <1>1, ManagerAssumption
  <2>3. attempt \in [Attempts -> Tactics \cup {NoTactic}]
    BY <1>1
  <2>4. QED
    BY <1>1, <2>1, <2>2, <2>3 DEF StatsTypeOK
<1>3. InFlightInv
  BY <1>1 DEF InFlightInv
<1>4. DiskInv
  <2>1. DOMAIN disk.data = {}
    BY <1>1, NewContainer
  <2>2. QED
    BY <1>1, <2>1, NewContainer DEF DiskInv
<1>5. OutcomesWithinStarted
  BY <1>1, NewContainer, Zenon DEF OutcomesWithinStarted
<1>6. QED
  BY <1>2, <1>3, <1>4, <1>5 DEF StatsInv

\* The facts about a state that the steps use
LEMMA StatsFacts ==
  ASSUME StatsInv
  PROVE  /\ IsContainer(container) /\ IsContainer(disk.data)
         /\ attempt \in [Attempts -> Tactics \cup {NoTactic}]
         /\ now \in Nat
BY ManagerAssumption DEF StatsInv, StatsTypeOK

\* Pruning leaves the invariant of what it prunes.
LEMMA TrimInv == StatsInv /\ Trim => StatsInv'
<1> SUFFICES ASSUME StatsInv, Trim PROVE StatsInv'
  OBVIOUS
<1>1. /\ IsContainer(container) /\ attempt \in [Attempts -> Tactics \cup {NoTactic}]
      /\ now \in Nat
  BY StatsFacts
<1>2. /\ container' \in ContainerPruneEntries(container, now)
      /\ manager' = manager /\ trimmer' = trimmer /\ disk' = disk /\ attempt' = attempt
      /\ starts' = starts /\ now' = now
  BY DEF Trim
<1>3. Kept(container, now, container')
  BY <1>1, <1>2, PruneKeeps
<1>4. /\ IsContainer(container') /\ DOMAIN container' \subseteq DOMAIN container
      /\ \A t \in DOMAIN container' : container'[t] = container[t]
  BY <1>3 DEF Kept
<1>5. StatsTypeOK'
  BY <1>2, <1>4 DEF StatsInv, StatsTypeOK
<1>6. InFlightInv'
  <2>1. ASSUME NEW a \in Attempts, attempt[a] # NoTactic, Roomy(attempt[a])
        PROVE  attempt[a] \in DOMAIN container' /\ container'[attempt[a]].lastUpdated = now
    <3>1. /\ attempt[a] \in DOMAIN container
          /\ container[attempt[a]].lastUpdated = now
      BY <2>1 DEF StatsInv, InFlightInv
    <3>2. Fresh(container[attempt[a]], now)
      BY <1>1, <3>1, StatsAssumption DEF Fresh
    <3>3. attempt[a] \in DOMAIN container'
      BY <1>1, <1>3, <2>1, <3>1, <3>2, RoomyKept
    <3>4. QED
      BY <1>4, <3>1, <3>3
  <2>2. manager = "down" => \A a \in Attempts : attempt[a] = NoTactic
    BY DEF StatsInv, InFlightInv
  <2>3. QED
    BY <1>2, <2>1, <2>2 DEF InFlightInv, Roomy
<1>7. DiskInv'
  BY <1>2 DEF StatsInv, DiskInv, Roomy
<1>8. OutcomesWithinStarted'
  <2>1. \A t : InFlight(t)' = InFlight(t)
    BY <1>2 DEF InFlight
  <2>2. QED
    BY <1>4, <2>1 DEF StatsInv, OutcomesWithinStarted
<1>9. QED
  BY <1>5, <1>6, <1>7, <1>8 DEF StatsInv

LEMMA LoadInv == StatsInv /\ newStatsManager => StatsInv'
<1> SUFFICES ASSUME StatsInv, newStatsManager PROVE StatsInv'
  OBVIOUS
<1>1. /\ IsContainer(disk.data) /\ attempt \in [Attempts -> Tactics \cup {NoTactic}]
      /\ now \in Nat
  BY StatsFacts
<1>2. /\ manager = "down" /\ manager' = "open" /\ trimmer' = "running"
      /\ container' \in LoadStatsContainer /\ disk' = disk /\ attempt' = attempt
      /\ starts' = starts /\ now' = now
  BY DEF newStatsManager
<1>3. /\ IsContainer(container') /\ DOMAIN container' \subseteq DOMAIN disk.data
      /\ \A t \in DOMAIN container' : container'[t] = disk.data[t]
  <2>1. CASE disk.ok
    <3>1. container' \in ContainerPruneEntries(disk.data, now)
      BY <1>2, <2>1 DEF LoadStatsContainer
    <3>2. Kept(disk.data, now, container')
      BY <1>1, <3>1, PruneKeeps
    <3>3. QED
      BY <3>2 DEF Kept
  <2>2. CASE ~ disk.ok
    <3>1. container' = newStatsContainer
      BY <1>2, <2>2 DEF LoadStatsContainer
    <3>2. QED
      BY <3>1, NewContainer
  <2>3. QED
    BY <2>1, <2>2
<1>4. \A a \in Attempts : attempt[a] = NoTactic
  BY <1>2 DEF StatsInv, InFlightInv
<1>5. StatsTypeOK'
  BY <1>2, <1>3 DEF StatsInv, StatsTypeOK
<1>6. InFlightInv'
  BY <1>2, <1>4 DEF InFlightInv
<1>7. DiskInv'
  BY <1>2 DEF StatsInv, DiskInv, Roomy
<1>8. ASSUME NEW t \in DOMAIN container' PROVE Balanced(t)'
  <2>1. t \in Tactics /\ GoodRecord(container'[t])
    BY <1>3, ContainerRecords
  <2>2. Cardinality(InFlight(t)) = 0 /\ InFlight(t)' = InFlight(t)
    <3>1. Cardinality(InFlight(t)) = 0
      BY <1>4, <2>1, NoneInFlight
    <3>2. InFlight(t)' = InFlight(t)
      BY <1>2 DEF InFlight
    <3>3. QED
      BY <3>1, <3>2
  <2>3. Roomy(t) => OutcomesOf(container'[t]) <= container'[t].count["started"]
    BY <1>3 DEF StatsInv, DiskInv
  <2>4. OutcomesOf(container'[t]) \in Nat
    BY <2>1, GoodCounts
  <2>5. QED
    BY <2>2, <2>3, <2>4 DEF Balanced, Roomy, OutcomesOf
<1>9. OutcomesWithinStarted'
  BY <1>8, Zenon DEF OutcomesWithinStarted, Balanced, Roomy
<1>10. QED
  BY <1>5, <1>6, <1>7, <1>9 DEF StatsInv

\* A document that cannot be read holds nothing
LEMMA UnreadableInv ==
  ASSUME disk' = Unreadable
  PROVE  disk'.ok \in BOOLEAN /\ IsContainer(disk'.data) /\ DiskInv'
<1>1. disk'.ok = FALSE /\ disk'.data = newStatsContainer
  BY DEF Unreadable
<1>2. DOMAIN disk'.data = {}
  BY <1>1, NewContainer
<1>3. IsContainer(disk'.data)
  BY <1>1, NewContainer, Zenon
<1>4. \A e \in Endpoints : Cardinality(EntriesOf(disk'.data, e)) <= MaxEntries
  BY <1>1, NewContainer, Zenon
<1>5. QED
  BY <1>1, <1>2, <1>3, <1>4 DEF DiskInv

\* The steps of Close, the goroutine that returns, and the clock
LEMMA CloseSavesInv == StatsInv /\ CloseSaves => StatsInv'
<1> SUFFICES ASSUME StatsInv, CloseSaves PROVE StatsInv'
  OBVIOUS
<1>1. IsContainer(container) /\ IsContainer(disk.data) /\ now \in Nat
  BY StatsFacts
<1>2. /\ manager = "cancelled" /\ manager' = "saved" /\ trimmer' = trimmer
      /\ container' = container /\ attempt' = attempt /\ starts' = starts /\ now' = now
      /\ \/ \E c \in ContainerPruneEntries(container, now) : disk' = Saved(c)
         \/ disk' \in {disk, Unreadable}
  BY DEF CloseSaves
<1>3. disk'.ok \in BOOLEAN /\ IsContainer(disk'.data) /\ DiskInv'
  <2>1. CASE disk' = disk
    <3>1. disk.ok \in BOOLEAN
      BY DEF StatsInv, StatsTypeOK
    <3>2. DiskInv'
      BY <2>1 DEF StatsInv, DiskInv, Roomy
    <3>3. QED
      BY <1>1, <2>1, <3>1, <3>2, Zenon
  <2>2. CASE disk' = Unreadable
    BY <2>2, UnreadableInv
  <2>3. ASSUME NEW c \in ContainerPruneEntries(container, now), disk' = Saved(c)
        PROVE  disk'.ok \in BOOLEAN /\ IsContainer(disk'.data) /\ DiskInv'
    <3>1. Kept(container, now, c)
      BY <1>1, PruneKeeps
    <3>2. disk'.ok = TRUE /\ disk'.data = c
      BY <2>3 DEF Saved
    <3>3. IsContainer(c) /\ \A e \in Endpoints : Cardinality(EntriesOf(c, e)) <= MaxEntries
      BY <3>1 DEF Kept
    <3>4. ASSUME NEW t \in DOMAIN c, Roomy(t)
          PROVE  OutcomesOf(c[t]) <= c[t].count["started"]
      <4>1. t \in DOMAIN container /\ c[t] = container[t]
        BY <3>1 DEF Kept
      <4>2. OutcomesOf(container[t]) + Cardinality(InFlight(t)) <= container[t].count["started"]
        BY <3>4, <4>1 DEF StatsInv, OutcomesWithinStarted, Roomy
      <4>3. OutcomesOf(container[t]) \in Nat /\ container[t].count["started"] \in Nat
        BY <1>1, <4>1, ContainerRecords, GoodCounts
      <4>4. Cardinality(InFlight(t)) \in Nat
        BY InFlightFinite
      <4>5. QED
        BY <4>1, <4>2, <4>3, <4>4
    <3>5. DiskInv'
      BY <3>2, <3>3, <3>4 DEF DiskInv, Roomy
    <3>6. QED
      BY <3>2, <3>3, <3>5
  <2>4. QED
    BY <1>2, <2>1, <2>2, <2>3
<1>4. StatsTypeOK'
  BY <1>2, <1>3 DEF StatsInv, StatsTypeOK
<1>5. InFlightInv'
  BY <1>2 DEF StatsInv, InFlightInv, Roomy
<1>6. OutcomesWithinStarted'
  BY <1>2 DEF StatsInv, OutcomesWithinStarted, InFlight
<1>7. QED
  BY <1>3, <1>4, <1>5, <1>6 DEF StatsInv

LEMMA QuietInv ==
  StatsInv /\ (TrimReturns \/ CloseCancels \/ CloseReturns \/ Tick \/ UNCHANGED statsVars) => StatsInv'
<1> SUFFICES ASSUME StatsInv,
                    TrimReturns \/ CloseCancels \/ CloseReturns \/ Tick \/ UNCHANGED statsVars
             PROVE  StatsInv'
  OBVIOUS
<1>1. /\ manager' \in {"down", "open", "cancelled", "saved", "closed"}
      /\ manager' = "down" => manager = "down"
      /\ trimmer' \in {"running", "exited"}
  BY DEF TrimReturns, CloseCancels, CloseReturns, Tick, statsVars, StatsInv, StatsTypeOK
<1>2. container' = container /\ disk' = disk /\ attempt' = attempt /\ starts' = starts
  BY DEF TrimReturns, CloseCancels, CloseReturns, Tick, statsVars
<1>3. \/ now' = now
      \/ now' \in 0..MaxTime /\ \A a \in Attempts : attempt[a] = NoTactic
  <2>1. CASE Tick
    BY <2>1, StatsFacts, ManagerAssumption DEF Tick
  <2>2. CASE TrimReturns \/ CloseCancels \/ CloseReturns \/ UNCHANGED statsVars
    BY <2>2 DEF TrimReturns, CloseCancels, CloseReturns, statsVars
  <2>3. QED
    BY <2>1, <2>2
<1>4. StatsTypeOK'
  BY <1>1, <1>2, <1>3 DEF StatsInv, StatsTypeOK
<1>5. InFlightInv'
  BY <1>1, <1>2, <1>3 DEF StatsInv, InFlightInv, Roomy
<1>6. DiskInv'
  BY <1>2 DEF StatsInv, DiskInv, Roomy
<1>7. OutcomesWithinStarted'
  BY <1>2 DEF StatsInv, OutcomesWithinStarted, InFlight
<1>8. QED
  BY <1>4, <1>5, <1>6, <1>7 DEF StatsInv

LEMMA ExitInv == StatsInv /\ Exit => StatsInv'
<1> SUFFICES ASSUME StatsInv, Exit PROVE StatsInv'
  OBVIOUS
<1>1. /\ manager' = "down" /\ trimmer' = "exited" /\ container' = newStatsContainer
      /\ attempt' = [a \in Attempts |-> NoTactic]
      /\ disk' \in {disk, Unreadable} /\ starts' = starts /\ now' = now
  BY DEF Exit
<1>2. disk'.ok \in BOOLEAN /\ IsContainer(disk'.data) /\ DiskInv'
  <2>1. CASE disk' = disk
    <3>1. disk.ok \in BOOLEAN /\ IsContainer(disk.data)
      BY DEF StatsInv, StatsTypeOK
    <3>2. DiskInv'
      BY <2>1 DEF StatsInv, DiskInv, Roomy
    <3>3. QED
      BY <2>1, <3>1, <3>2, Zenon
  <2>2. CASE disk' = Unreadable
    BY <2>2, UnreadableInv
  <2>3. QED
    BY <1>1, <2>1, <2>2
<1>3. StatsTypeOK'
  <2>1. IsContainer(container')
    BY <1>1, NewContainer, Zenon
  <2>2. attempt' \in [Attempts -> Tactics \cup {NoTactic}]
    BY <1>1
  <2>3. QED
    BY <1>1, <1>2, <2>1, <2>2 DEF StatsInv, StatsTypeOK
<1>4. InFlightInv'
  BY <1>1 DEF InFlightInv
<1>5. OutcomesWithinStarted'
  BY <1>1, NewContainer, Zenon DEF OutcomesWithinStarted
<1>6. QED
  BY <1>2, <1>3, <1>4, <1>5 DEF StatsInv

LEMMA StartingInv ==
  ASSUME StatsInv, NEW a \in Attempts, NEW t \in Tactics, OnStarting(a, t)
  PROVE  StatsInv'
<1>1. /\ IsContainer(container) /\ attempt \in [Attempts -> Tactics \cup {NoTactic}]
      /\ now \in Nat
  BY StatsFacts
<1>2. PICK record : record = IF t \in DOMAIN container THEN container[t] ELSE NewRecord
  OBVIOUS
<1>3. /\ manager # "down" /\ attempt[a] = NoTactic /\ attempt' = [attempt EXCEPT ![a] = t]
      /\ starts < MaxStarts /\ starts' = starts + 1
      /\ container' = With(container, t, Updated(record, "started"))
      /\ manager' = manager /\ trimmer' = trimmer /\ disk' = disk /\ now' = now
  BY <1>2 DEF OnStarting
<1>4. GoodRecord(record)
  BY <1>1, <1>2, ContainerRecords, NewRecordGood
<1>5. "started" \in Counters
  BY DEF Counters
<1>6. PICK r : r = Updated(record, "started")
  OBVIOUS
<1>7. /\ GoodRecord(r) /\ r.lastUpdated = now
      /\ r.count["started"] = record.count["started"] + 1
      /\ OutcomesOf(r) = OutcomesOf(record)
  BY <1>1, <1>4, <1>5, <1>6, UpdatedRecord
<1>8. container' = With(container, t, r)
  BY <1>3, <1>6
<1>9. /\ IsContainer(container') /\ DOMAIN container' = DOMAIN container \cup {t}
      /\ container'[t] = r
      /\ \A u \in DOMAIN container : u # t => container'[u] = container[u]
  <2>1. IsContainer(container')
    BY <1>1, <1>7, <1>8, WithRecord
  <2>2. QED
    BY <1>8, <2>1 DEF With
<1>10. StatsTypeOK'
  <2>1. starts' \in 0..MaxStarts
    BY <1>3, ManagerAssumption DEF StatsInv, StatsTypeOK
  <2>2. attempt' \in [Attempts -> Tactics \cup {NoTactic}]
    BY <1>1, <1>3
  <2>3. QED
    BY <1>3, <1>9, <2>1, <2>2 DEF StatsInv, StatsTypeOK
<1>11. InFlightInv'
  <2>1. ASSUME NEW b \in Attempts, attempt'[b] # NoTactic, Roomy(attempt'[b])
        PROVE  attempt'[b] \in DOMAIN container' /\ container'[attempt'[b]].lastUpdated = now
    <3>1. CASE attempt'[b] = t
      BY <1>7, <1>9, <3>1
    <3>2. CASE attempt'[b] # t
      <4>1. attempt'[b] = attempt[b]
        BY <1>1, <1>3, <3>2
      <4>2. attempt[b] \in DOMAIN container /\ container[attempt[b]].lastUpdated = now
        BY <2>1, <4>1 DEF StatsInv, InFlightInv
      <4>3. QED
        BY <1>9, <3>2, <4>1, <4>2
    <3>3. QED
      BY <3>1, <3>2
  <2>2. QED
    BY <1>3, <2>1 DEF InFlightInv, Roomy
<1>12. DiskInv'
  BY <1>3 DEF StatsInv, DiskInv, Roomy
<1>13. /\ Cardinality(InFlight(t)') = Cardinality(InFlight(t)) + 1
       /\ \A u \in Tactics : u # t => InFlight(u)' = InFlight(u)
  BY <1>1, <1>3, InFlightStarts
<1>14. ASSUME Roomy(t)
       PROVE  OutcomesOf(record) + Cardinality(InFlight(t)) <= record.count["started"]
  <2>1. CASE t \in DOMAIN container
    BY <1>2, <1>14, <2>1 DEF StatsInv, OutcomesWithinStarted, Roomy
  <2>2. CASE t \notin DOMAIN container
    <3>1. InFlight(t) = {}
      BY <1>14, <2>2, TacticsAssumption DEF StatsInv, InFlightInv, InFlight
    <3>2. Cardinality(InFlight(t)) = 0
      BY <3>1, FS_EmptySet
    <3>3. record = NewRecord
      BY <1>2, <2>2
    <3>4. QED
      BY <3>2, <3>3, NewRecordGood
  <2>3. QED
    BY <2>1, <2>2
<1>15. ASSUME NEW u \in DOMAIN container', Roomy(u)
       PROVE  OutcomesOf(container'[u]) + Cardinality(InFlight(u)') <= container'[u].count["started"]
  <2>1. CASE u = t
    <3>1. OutcomesOf(record) \in Nat /\ record.count["started"] \in Nat
      BY <1>4, GoodCounts
    <3>2. Cardinality(InFlight(t)) \in Nat
      BY InFlightFinite
    <3>3. OutcomesOf(record) + Cardinality(InFlight(t)) <= record.count["started"]
      BY <1>14, <1>15, <2>1
    <3>4. OutcomesOf(r) + Cardinality(InFlight(t)') <= r.count["started"]
      BY <1>7, <1>13, <3>1, <3>2, <3>3
    <3>5. QED
      BY <1>9, <2>1, <3>4
  <2>2. CASE u # t
    <3>1. u \in DOMAIN container /\ u \in Tactics
      BY <1>1, <1>9, <2>2, ContainerRecords
    <3>2. container'[u] = container[u] /\ InFlight(u)' = InFlight(u)
      BY <1>9, <1>13, <2>2, <3>1
    <3>3. OutcomesOf(container[u]) + Cardinality(InFlight(u)) <= container[u].count["started"]
      BY <1>15, <3>1 DEF StatsInv, OutcomesWithinStarted, Roomy
    <3>4. QED
      BY <3>2, <3>3
  <2>3. QED
    BY <2>1, <2>2
<1>16. OutcomesWithinStarted'
  BY <1>15, Zenon DEF OutcomesWithinStarted, Roomy
<1>17. QED
  BY <1>10, <1>11, <1>12, <1>16 DEF StatsInv

LEMMA FinishInv ==
  ASSUME StatsInv, NEW a \in Attempts, NEW counter \in Outcomes, Finish(a, counter)
  PROVE  StatsInv'
<1>1. /\ IsContainer(container) /\ attempt \in [Attempts -> Tactics \cup {NoTactic}]
      /\ now \in Nat
  BY StatsFacts
<1>2. PICK t : t = attempt[a]
  OBVIOUS
<1>3. /\ attempt[a] # NoTactic /\ attempt' = [attempt EXCEPT ![a] = NoTactic]
      /\ container' = IF t \in DOMAIN container
                      THEN With(container, t, Updated(container[t], counter))
                      ELSE container
      /\ manager' = manager /\ trimmer' = trimmer /\ disk' = disk /\ starts' = starts
      /\ now' = now
  BY <1>2 DEF Finish
<1>4. t \in Tactics /\ t # NoTactic
  BY <1>1, <1>2, <1>3
<1>5. counter \in Counters /\ counter # "started"
  BY DEF Counters, Outcomes
<1>6. IsContainer(container') /\ DOMAIN container' = DOMAIN container
  <2>1. CASE t \in DOMAIN container
    <3>1. GoodRecord(Updated(container[t], counter))
      BY <1>1, <1>5, <2>1, ContainerRecords, UpdatedRecord
    <3>2. container' = With(container, t, Updated(container[t], counter))
      BY <1>3, <2>1
    <3>3. /\ IsContainer(container') /\ DOMAIN container' = DOMAIN container \cup {t}
      BY <1>1, <1>4, <3>1, <3>2, WithRecord
    <3>4. QED
      BY <2>1, <3>3
  <2>2. CASE t \notin DOMAIN container
    BY <1>1, <1>3, <2>2
  <2>3. QED
    BY <2>1, <2>2
<1>7. /\ \A u \in DOMAIN container : u # t => container'[u] = container[u]
      /\ t \in DOMAIN container =>
           /\ container'[t].lastUpdated = now
           /\ container'[t].count["started"] = container[t].count["started"]
           /\ OutcomesOf(container'[t]) = OutcomesOf(container[t]) + 1
  <2>1. CASE t \in DOMAIN container
    <3>1. PICK r : r = Updated(container[t], counter)
      OBVIOUS
    <3>2. /\ GoodRecord(r) /\ r.lastUpdated = now
          /\ r.count["started"] = container[t].count["started"]
          /\ OutcomesOf(r) = OutcomesOf(container[t]) + 1
      BY <1>1, <1>5, <2>1, <3>1, ContainerRecords, UpdatedRecord
    <3>3. container' = With(container, t, r)
      BY <1>3, <2>1, <3>1
    <3>4. /\ container'[t] = r
          /\ \A u \in DOMAIN container : u # t => container'[u] = container[u]
      BY <3>3 DEF With
    <3>5. QED
      BY <3>2, <3>4
  <2>2. CASE t \notin DOMAIN container
    BY <1>3, <2>2
  <2>3. QED
    BY <2>1, <2>2
<1>8. StatsTypeOK'
  <2>1. attempt' \in [Attempts -> Tactics \cup {NoTactic}]
    BY <1>1, <1>3
  <2>2. QED
    BY <1>3, <1>6, <2>1 DEF StatsInv, StatsTypeOK
<1>9. InFlightInv'
  <2>1. ASSUME NEW b \in Attempts, attempt'[b] # NoTactic, Roomy(attempt'[b])
        PROVE  attempt'[b] \in DOMAIN container' /\ container'[attempt'[b]].lastUpdated = now
    <3>1. attempt'[b] = attempt[b]
      BY <1>1, <1>3, <2>1
    <3>2. attempt[b] \in DOMAIN container /\ container[attempt[b]].lastUpdated = now
      BY <2>1, <3>1 DEF StatsInv, InFlightInv
    <3>3. container'[attempt[b]].lastUpdated = now
      <4>1. CASE attempt[b] = t
        BY <1>7, <3>2, <4>1
      <4>2. CASE attempt[b] # t
        BY <1>7, <3>2, <4>2
      <4>3. QED
        BY <4>1, <4>2
    <3>4. QED
      BY <1>6, <3>1, <3>2, <3>3
  <2>2. manager' = "down" => \A b \in Attempts : attempt'[b] = NoTactic
    <3>1. manager = "down" => attempt[a] = NoTactic
      BY DEF StatsInv, InFlightInv
    <3>2. QED
      BY <1>3, <3>1
  <2>3. QED
    BY <1>3, <2>1, <2>2 DEF InFlightInv, Roomy
<1>10. DiskInv'
  BY <1>3 DEF StatsInv, DiskInv, Roomy
<1>11. /\ Cardinality(InFlight(t)') = Cardinality(InFlight(t)) - 1
       /\ \A u \in Tactics : u # t => InFlight(u)' = InFlight(u)
  BY <1>1, <1>2, <1>3, <1>4, InFlightEnds
<1>12. ASSUME NEW u \in DOMAIN container, Roomy(u)
       PROVE  OutcomesOf(container'[u]) + Cardinality(InFlight(u)') <= container'[u].count["started"]
  <2>1. OutcomesOf(container[u]) + Cardinality(InFlight(u)) <= container[u].count["started"]
    BY <1>12 DEF StatsInv, OutcomesWithinStarted, Roomy
  <2>2. CASE u = t
    <3>1. OutcomesOf(container[t]) \in Nat /\ container[t].count["started"] \in Nat
      BY <1>1, <2>2, ContainerRecords, GoodCounts
    <3>2. Cardinality(InFlight(t)) \in Nat
      BY InFlightFinite
    <3>3. OutcomesOf(container[t]) + 1 + (Cardinality(InFlight(t)) - 1)
            <= container[t].count["started"]
      BY <2>1, <2>2, <3>1, <3>2
    <3>4. QED
      BY <1>7, <1>11, <2>2, <3>3
  <2>3. CASE u # t
    <3>1. u \in Tactics
      BY <1>1, ContainerRecords
    <3>2. container'[u] = container[u] /\ InFlight(u)' = InFlight(u)
      BY <1>7, <1>11, <2>3, <3>1
    <3>3. QED
      BY <2>1, <3>2
  <2>4. QED
    BY <2>2, <2>3
<1>13. OutcomesWithinStarted'
  BY <1>6, <1>12, Zenon DEF OutcomesWithinStarted, Roomy
<1>14. QED
  BY <1>8, <1>9, <1>10, <1>13 DEF StatsInv

LEMMA StatsInvNext == StatsInv /\ [StatsNext]_statsVars => StatsInv'
<1> SUFFICES ASSUME StatsInv, [StatsNext]_statsVars PROVE StatsInv'
  OBVIOUS
<1>1. CASE newStatsManager
  BY <1>1, LoadInv
<1>2. CASE Trim
  BY <1>2, TrimInv
<1>3. CASE Close
  BY <1>3, CloseSavesInv, QuietInv DEF Close
<1>4. CASE Exit
  BY <1>4, ExitInv
<1>5. CASE TrimReturns \/ Tick \/ UNCHANGED statsVars
  BY <1>5, QuietInv
<1>6. ASSUME NEW a \in Attempts, Callback(a) PROVE StatsInv'
  <2>1. \/ \E t \in Tactics : OnStarting(a, t)
        \/ \E counter \in Outcomes : Finish(a, counter)
    <3>1. {"error", "interrupt", "success"} = Outcomes
      BY DEF Outcomes
    <3>2. QED
      BY <1>6, <3>1 DEF Callback, OnTCPConnectError, OnTLSHandshakeError, OnTLSVerifyError, OnSuccess
  <2>2. QED
    BY <2>1, StartingInv, FinishInv
<1>7. QED
  BY <1>1, <1>2, <1>3, <1>4, <1>5, <1>6 DEF StatsNext

\* The invariant of the statistics is inductive.
THEOREM StatsInvariance == StatsSpec => []StatsInv
<1>1. StatsInit => StatsInv
  BY StatsInvInit
<1>2. StatsInv /\ [StatsNext]_statsVars => StatsInv'
  BY StatsInvNext
<1>3. QED
  BY <1>1, <1>2, PTL DEF StatsSpec

-----------------------------------------------------------------------------
(* The theorems.                                                           *)

\* Each attempt is counted at most once, after it was counted as started,
\* whatever trims, restarts and other attempts come between OnStarting and the
\* callback that ends it, for any number of tactics, endpoints and attempts.
THEOREM OutcomesAreBalanced == StatsSpec => []OutcomesWithinStarted
<1>1. StatsInv => OutcomesWithinStarted
  BY DEF StatsInv
<1>2. QED
  BY <1>1, StatsInvariance, PTL

\* The variables of the statsManager have the values they may have.
THEOREM StatsTypes == StatsSpec => []StatsTypeOK
<1>1. StatsInv => StatsTypeOK
  BY DEF StatsInv
<1>2. QED
  BY <1>1, StatsInvariance, PTL

\* Loading drops only what is too old: what Close has saved was already pruned,
\* and pruning it again in another order keeps all of it that is still fresh.
THEOREM ReloadIsLossless == StatsSpec => ReloadKeepsFresh
<1> DEFINE A == manager = "down" /\ manager' = "open" /\ disk.ok =>
                  container' = Restrict(disk.data, {t \in DOMAIN disk.data :
                                                      Fresh(disk.data[t], now)})
<1>1. StatsInv /\ [StatsNext]_statsVars => [A]_statsVars
  <2> SUFFICES ASSUME StatsInv, StatsNext, manager = "down", manager' = "open", disk.ok
               PROVE  container' = Restrict(disk.data, {t \in DOMAIN disk.data :
                                                          Fresh(disk.data[t], now)})
    OBVIOUS
  <2>1. newStatsManager
    <3>1. CASE \E a \in Attempts : Callback(a)
      <4>1. PICK a \in Attempts : Callback(a)
        BY <3>1
      <4>2. manager' = manager
        BY <4>1 DEF Callback, OnStarting, Finish, OnTCPConnectError, OnTLSHandshakeError,
                    OnTLSVerifyError, OnSuccess
      <4>3. QED
        BY <4>2
    <3>2. CASE Trim \/ TrimReturns \/ Close \/ Exit \/ Tick
      BY <3>2 DEF Trim, TrimReturns, Close, CloseCancels, CloseSaves, CloseReturns, Exit, Tick
    <3>3. QED
      BY <3>1, <3>2 DEF StatsNext
  <2>2. container' \in ContainerPruneEntries(disk.data, now)
    BY <2>1 DEF newStatsManager, LoadStatsContainer
  <2>3. IsContainer(disk.data) /\ now \in Nat
    BY StatsFacts
  <2>4. Kept(disk.data, now, container')
    BY <2>2, <2>3, PruneKeeps
  <2>5. \A t \in DOMAIN disk.data : domainEndpointKey[t] \in Endpoints
    BY <2>3, StatsAssumption DEF Endpoints, IsContainer
  <2>6. \A t \in DOMAIN disk.data :
          Cardinality(EntriesOf(disk.data, domainEndpointKey[t])) <= MaxEntries
    BY <2>5 DEF StatsInv, DiskInv
  <2>7. DOMAIN container' = {t \in DOMAIN disk.data : Fresh(disk.data[t], now)}
    BY <2>4, <2>6 DEF Kept
  <2>8. container' = Restrict(disk.data, DOMAIN container')
    BY <2>4 DEF Kept
  <2>9. QED
    BY <2>7, <2>8, Zenon
<1>2. QED
  BY <1>1, StatsInvariance, PTL DEF StatsSpec, ReloadKeepsFresh

\* Of an endpoint with at most SortBlock (20) records the trimmer never drops a
\* recent one while it keeps one that it dominates: although the comparison
\* function is not an ordering, the insertion sort puts a record that dominates
\* another before it.  Of longer lists, which Go sorts by merging blocks, the
\* theorem says nothing.
THEOREM DominantIsKept == StatsSpec => TrimKeepsDominant
<1> DEFINE A == Trim =>
                  \A t \in DOMAIN container \ DOMAIN container' :
                    \A u \in DOMAIN container' :
                      /\ domainEndpointKey[t] = domainEndpointKey[u]
                      /\ Cardinality(EntriesOf(container, domainEndpointKey[t])) <= SortBlock
                      /\ Fresh(container[t], now)
                      => ~Dominates(container[t], container[u])
<1>1. StatsInv /\ [StatsNext]_statsVars => [A]_statsVars
  <2>1. ASSUME StatsInv, Trim
        PROVE  Kept(container, now, container')
    BY <2>1, StatsFacts, PruneKeeps DEF Trim
  <2>2. QED
    BY <2>1 DEF Kept
<1>2. QED
  BY <1>1, StatsInvariance, PTL DEF StatsSpec, TrimKeepsDominant
=============================================================================
