-------------------------- MODULE WebAnalysisProofs --------------------------
(***************************************************************************)
(* Proofs about WebAnalysis, for any addresses, lookups, answers,          *)
(* reactions and helpers.                                                  *)
(*                                                                         *)
(* Both properties are about the first observation that decides, so the    *)
(* order of the observations must have a first one: the lemmas about Least *)
(* observations show it.  That a final page decides over everything else   *)
(* is because it comes from the last step, which only one connection       *)
(* fetches: this is what the invariant says.                               *)
(***************************************************************************)
EXTENDS WebAnalysis, SequenceTheorems, NaturalsInduction, WellFoundedInduction, TLAPS

Query == [depth : {0, 1}, engine : {l[1] : l \in Lookups}, qtype : {l[2] : l \in Lookups},
          failure : Failures, addrs : SUBSET Addrs]

Conn == [depth : {0, 1}, addr : Addrs, fetch : BOOLEAN, tcp : Failures,
         tls : Failures \cup {"none"}, http : Failures \cup {"none"}, final : BOOLEAN,
         diff : [{"status", "body", "headers", "title"} -> STRING]]

\* The values of the variables
TypeOK ==
    /\ https \in BOOLEAN
    /\ helper \in Helpers
    /\ target \in Targets \cup {NoTarget}
    /\ queries \in Seq(Query)
    /\ conns \in Seq(Conn)
    /\ finalized \in BOOLEAN

\* At most one connection of a step fetches.
OneFetch ==
    \A i, j \in DOMAIN conns :
        conns[i].http # "none" /\ conns[j].http # "none" /\ conns[i].depth = conns[j].depth => i = j

\* Nothing is of a later step than the current one, and a final response ends
\* the chain of redirects.
FinalIsLast ==
    /\ \A i \in DOMAIN queries : queries[i].depth <= Depth
    /\ \A i \in DOMAIN conns : conns[i].depth <= Depth
    /\ \A i \in DOMAIN conns : conns[i].final => conns[i].http = "ok" /\ conns[i].depth = Depth

IInv == TypeOK /\ OneFetch /\ FinalIsLast

-----------------------------------------------------------------------------
(* The invariant.                                                          *)

\* What is appended is the last element, and the others stay.
LEMMA Appended ==
    ASSUME NEW S, NEW s \in Seq(S), NEW x \in S, NEW t, t = Append(s, x)
    PROVE  /\ t \in Seq(S)
           /\ Len(s) \in Nat /\ Len(t) = Len(s) + 1
           /\ DOMAIN s = 1 .. Len(s) /\ DOMAIN t = 1 .. Len(s) + 1
           /\ \A i \in DOMAIN s : t[i] = s[i] /\ s[i] \in S
           /\ t[Len(s) + 1] = x
  BY AppendProperties, LenProperties, ElementOfSeq

\* The step of the chain is the first or the one after it.
LEMMA DepthIs == Depth \in {0, 1}
  BY DEF Depth

\* The invariant holds at first.
LEMMA InvInit == Init => IInv
<1> SUFFICES ASSUME Init PROVE IInv
  OBVIOUS
<1>1. << >> \in Seq(Query) /\ << >> \in Seq(Conn)
  BY EmptySeq
<1>2. DOMAIN conns = {} /\ DOMAIN queries = {}
  BY DEF Init
<1>3. QED
  BY <1>1, <1>2 DEF Init, IInv, TypeOK, OneFetch, FinalIsLast

\* What a lookup of the current step returns is an answer for its domain.
LEMMA QueryTyped ==
    ASSUME TypeOK, NEW l \in Lookups, NEW ans \in Answers[Domain(Depth)][l]
    PROVE  [depth |-> Depth, engine |-> l[1], qtype |-> l[2],
            failure |-> ans.failure, addrs |-> ans.addrs] \in Query
<1>1. Domain(Depth) \in {"x"} \cup {t.domain : t \in Targets}
  BY DEF Domain, Depth, TypeOK
<1>2. ans \in [failure : Failures, addrs : SUBSET Addrs]
  BY <1>1, AnswersAssumption
<1>3. QED
  BY <1>2, DepthIs DEF Query

\* Every step keeps the invariant.
LEMMA InvNext == IInv /\ [Next]_vars => IInv'
<1> SUFFICES ASSUME IInv, [Next]_vars PROVE IInv'
  OBVIOUS
<1>1. TypeOK /\ OneFetch /\ FinalIsLast
  BY DEF IInv
<1>2. ASSUME NEW l \in Lookups, NEW ans \in Answers[Domain(Depth)][l], AppendQueries(l, ans)
      PROVE  IInv'
  <2>1. PICK q \in Query : queries' = Append(queries, q) /\ q.depth = Depth
    BY <1>1, <1>2, QueryTyped DEF AppendQueries
  <2>2. queries \in Seq(Query)
    BY <1>1 DEF TypeOK
  <2>3. /\ queries' \in Seq(Query)
        /\ Len(queries) \in Nat /\ DOMAIN queries = 1 .. Len(queries)
        /\ DOMAIN queries' = 1 .. Len(queries) + 1
        /\ \A i \in DOMAIN queries : queries'[i] = queries[i]
        /\ queries'[Len(queries) + 1] = q
    BY <2>1, <2>2, Appended
  <2>4. UNCHANGED <<https, helper, target, conns, finalized>> /\ Depth' = Depth
    BY <1>2 DEF AppendQueries, Depth
  <2>5. FinalIsLast'
    BY <1>1, <2>1, <2>3, <2>4, DepthIs DEF FinalIsLast
  <2>6. QED
    BY <1>1, <2>3, <2>4, <2>5 DEF IInv, TypeOK, OneFetch
<1>3. ASSUME NEW a \in Addrs, NEW fetch \in BOOLEAN, AppendConn(a, fetch)
      PROVE  IInv'
  <2>1. PICK r \in Reactions[fetch] :
          /\ r.http # "none" => \A i \in InStep(conns, Depth) : conns[i].http = "none"
          /\ conns' = Append(conns,
                        [depth |-> Depth, addr |-> a, fetch |-> fetch, tcp |-> r.tcp,
                         tls |-> r.tls, http |-> r.http, final |-> r.final, diff |-> r.diff])
    BY <1>3 DEF AppendConn
  <2>2. PICK c : c = [depth |-> Depth, addr |-> a, fetch |-> fetch, tcp |-> r.tcp, tls |-> r.tls,
                      http |-> r.http, final |-> r.final, diff |-> r.diff]
    OBVIOUS
  <2>3. /\ c \in Conn /\ c.depth = Depth /\ c.http = r.http
        /\ c.final => c.http = "ok"
    BY <2>2, ReactionsAssumption, DepthIs DEF Conn
  <2>4. UNCHANGED <<https, helper, target, queries, finalized>> /\ Depth' = Depth
    BY <1>3 DEF AppendConn, Depth
  <2>5. conns \in Seq(Conn) /\ conns' = Append(conns, c)
    BY <1>1, <2>1, <2>2 DEF TypeOK
  <2>6. /\ conns' \in Seq(Conn)
        /\ Len(conns) \in Nat /\ DOMAIN conns = 1 .. Len(conns)
        /\ DOMAIN conns' = 1 .. Len(conns) + 1
        /\ \A i \in DOMAIN conns : conns'[i] = conns[i]
        /\ conns'[Len(conns) + 1] = c
    BY <2>3, <2>5, Appended
  <2>7. TypeOK'
    BY <1>1, <2>4, <2>6 DEF TypeOK
  <2>8. FinalIsLast'
    BY <1>1, <2>3, <2>4, <2>6, DepthIs DEF FinalIsLast
  <2>9. \A i \in DOMAIN conns : c.http # "none" /\ conns[i].depth = Depth => conns[i].http = "none"
    BY <2>1, <2>3 DEF InStep
  <2>10. OneFetch'
    BY <1>1, <2>3, <2>6, <2>9 DEF OneFetch
  <2>11. QED
    BY <2>7, <2>8, <2>10 DEF IInv
<1>4. ASSUME FollowRedirect
      PROVE  IInv'
  <2>1. /\ target = NoTarget /\ target' \in Targets
        /\ \E i \in DOMAIN conns : conns[i].http = "ok" /\ ~ conns[i].final
        /\ UNCHANGED <<https, helper, queries, conns, finalized>>
    BY <1>4 DEF FollowRedirect
  <2>2. /\ \A i \in DOMAIN conns : conns[i] \in Conn
        /\ \A i \in DOMAIN queries : queries[i] \in Query
    BY <1>1, ElementOfSeq, LenProperties DEF TypeOK
  <2>3. /\ Depth = 0
        /\ \A i \in DOMAIN conns : conns[i].depth = 0
        /\ \A i \in DOMAIN queries : queries[i].depth = 0
    BY <1>1, <2>1, <2>2 DEF Depth, FinalIsLast, Conn, Query
  <2>4. \A i \in DOMAIN conns : ~ conns[i].final
    BY <1>1, <2>1, <2>3 DEF OneFetch, FinalIsLast
  <2>5. Depth' \in {0, 1}
    BY DEF Depth
  <2>6. FinalIsLast'
    BY <2>1, <2>3, <2>4, <2>5 DEF FinalIsLast
  <2>7. QED
    BY <1>1, <2>1, <2>6 DEF IInv, TypeOK, OneFetch
<1>5. CASE Finalize \/ UNCHANGED vars
  BY <1>1, <1>5 DEF Finalize, vars, IInv, TypeOK, OneFetch, FinalIsLast, Depth
<1>6. QED
  BY <1>2, <1>3, <1>4, <1>5 DEF Next

\* At most one connection of a step fetches, and a final response is of the
\* last step.
THEOREM Invariance == Spec => []IInv
<1>1. Init => IInv
  BY InvInit
<1>2. IInv /\ [Next]_vars => IInv'
  BY InvNext
<1>3. QED
  BY <1>1, <1>2, PTL DEF Spec

-----------------------------------------------------------------------------
(* The observations and their order.                                       *)

\* What the observation of a lookup says.
LEMMA DNSFacts ==
    ASSUME IInv, NEW o \in DNSObservations
    PROVE  \E i \in 1 .. Len(queries) :
             /\ o = DNSObservation(i)
             /\ o.type = 0 /\ o.id = i /\ o.depth \in {0, 1} /\ o.failure \in Failures
             /\ o.depth = queries[i].depth /\ o.final = FALSE
             /\ o.own = ControlDNSLookupFailure(queries[i])
<1>1. PICK i \in DOMAIN queries : o = DNSObservation(i)
  BY DEF DNSObservations
<1>2. queries[i] \in Query /\ i \in 1 .. Len(queries)
  BY <1>1, ElementOfSeq, LenProperties DEF IInv, TypeOK
<1>3. QED
  BY <1>1, <1>2 DEF DNSObservation, Query

\* What the observation of a connection says: it is about a round trip if there
\* was one.
LEMMA EndpointFacts ==
    ASSUME IInv, NEW o \in EndpointObservations
    PROVE  \E i \in 1 .. Len(conns) :
             /\ conns[i] \in Conn
             /\ o = EndpointObservation(i)
             /\ o.type \in {1, 2, 3} /\ o.id = i /\ o.depth \in {0, 1} /\ o.failure \in Failures
             /\ o.depth = conns[i].depth /\ o.final = conns[i].final /\ o.http = conns[i].http
             /\ o.type = 3 <=> o.http # "none"
             /\ o.type = 3 => o.failure = o.http
<1>1. PICK i \in DOMAIN conns : o = EndpointObservation(i)
  BY DEF EndpointObservations
<1>2. conns[i] \in Conn /\ i \in 1 .. Len(conns)
  BY <1>1, ElementOfSeq, LenProperties DEF IInv, TypeOK
<1>3. PICK type : type = CASE conns[i].http # "none" -> 3
                           [] conns[i].http = "none" /\ conns[i].tls # "none" -> 2
                           [] OTHER -> 1
  OBVIOUS
<1>4. /\ o.type = type /\ o.id = i
      /\ o.failure = CASE type = 3 -> conns[i].http [] type = 2 -> conns[i].tls
                       [] type = 1 -> conns[i].tcp
      /\ o.depth = conns[i].depth /\ o.final = conns[i].final /\ o.http = conns[i].http
  BY <1>1, <1>3 DEF EndpointObservation
<1>5. /\ conns[i].http \in Failures \cup {"none"} /\ conns[i].tls \in Failures \cup {"none"}
      /\ conns[i].tcp \in Failures /\ conns[i].depth \in {0, 1}
  BY <1>2 DEF Conn
<1>6. CASE conns[i].http # "none"
  BY <1>1, <1>2, <1>3, <1>4, <1>5, <1>6
<1>7. CASE conns[i].http = "none" /\ conns[i].tls # "none"
  BY <1>1, <1>2, <1>3, <1>4, <1>5, <1>7
<1>8. CASE conns[i].http = "none" /\ conns[i].tls = "none"
  BY <1>1, <1>2, <1>3, <1>4, <1>5, <1>8
<1>9. QED
  BY <1>6, <1>7, <1>8

\* Every failure has a rank, and the absence of failure comes first.
LEMMA RankFacts ==
    /\ \A f \in Failures : Rank(f) \in Nat \ {0}
    /\ Rank("ok") = 1
<1>1. /\ Len(FailureOrder) \in Nat /\ DOMAIN FailureOrder = 1 .. Len(FailureOrder)
      /\ 1 \in DOMAIN FailureOrder
  BY FailuresAssumption, EmptySeq, LenProperties
<1>2. \A f \in Failures : \E i \in DOMAIN FailureOrder : FailureOrder[i] = f
  BY DEF Failures
<1>3. \A i \in DOMAIN FailureOrder : FailureOrder[i] = "ok" <=> i = 1
  BY <1>1, FailuresAssumption
<1>4. QED
  BY <1>1, <1>2, <1>3 DEF Rank

\* Two observations differ in kind or in transaction.
LEMMA Different ==
    ASSUME IInv, NEW o \in AllObservations, NEW p \in AllObservations,
           o.type = p.type, o.id = p.id
    PROVE  o = p
<1>1. CASE o \in DNSObservations /\ p \in DNSObservations
  BY <1>1, DNSFacts
<1>2. CASE o \in EndpointObservations /\ p \in EndpointObservations
  BY <1>2, EndpointFacts
<1>3. CASE o \in DNSObservations /\ p \in EndpointObservations
  <2>1. o.type = 0
    BY <1>3, DNSFacts
  <2>2. p.type \in {1, 2, 3}
    BY <1>3, EndpointFacts
  <2>3. QED
    BY <2>1, <2>2
<1>4. CASE o \in EndpointObservations /\ p \in DNSObservations
  <2>1. o.type \in {1, 2, 3}
    BY <1>4, EndpointFacts
  <2>2. p.type = 0
    BY <1>4, DNSFacts
  <2>3. QED
    BY <2>1, <2>2
<1>5. QED
  BY <1>1, <1>2, <1>3, <1>4 DEF AllObservations

\* What the order compares.
LEMMA KeyFacts ==
    ASSUME IInv, NEW o \in AllObservations
    PROVE  /\ o.depth \in 0 .. 1 /\ o.type \in 0 .. 3 /\ Rank(o.failure) \in Nat \ {0}
           /\ o.id \in 0 .. (Len(queries) + Len(conns))
<1>1. Len(queries) \in Nat /\ Len(conns) \in Nat
  BY LenProperties DEF IInv, TypeOK
<1>2. CASE o \in DNSObservations
  <2>1. PICK i \in 1 .. Len(queries) :
          o.type = 0 /\ o.id = i /\ o.depth \in {0, 1} /\ o.failure \in Failures
    BY <1>2, DNSFacts
  <2>2. QED
    BY <1>1, <2>1, RankFacts
<1>3. CASE o \in EndpointObservations
  <2>1. PICK i \in 1 .. Len(conns) :
          o.type \in {1, 2, 3} /\ o.id = i /\ o.depth \in {0, 1} /\ o.failure \in Failures
    BY <1>3, EndpointFacts
  <2>2. QED
    BY <1>1, <2>1, RankFacts
<1>4. QED
  BY <1>2, <1>3 DEF AllObservations

\* The order, criterion by criterion.
LEMMA BeforeIf ==
    ASSUME IInv, NEW o \in AllObservations, NEW p \in AllObservations
    PROVE  Before(o, p) <=>
             \/ o.depth > p.depth
             \/ o.depth = p.depth /\ o.type > p.type
             \/ o.depth = p.depth /\ o.type = p.type /\ Rank(o.failure) < Rank(p.failure)
             \/ /\ o.depth = p.depth /\ o.type = p.type /\ Rank(o.failure) = Rank(p.failure)
                /\ o.id > p.id
<1>1. /\ o.depth \in Nat /\ o.type \in Nat /\ Rank(o.failure) \in Nat /\ o.id \in Nat
      /\ p.depth \in Nat /\ p.type \in Nat /\ Rank(p.failure) \in Nat /\ p.id \in Nat
  BY KeyFacts
<1>2. PICK a, b : a = SortKey(o) /\ b = SortKey(p)
  OBVIOUS
<1>3. /\ a[1] = - o.depth /\ a[2] = - o.type /\ a[3] = Rank(o.failure) /\ a[4] = - o.id
      /\ b[1] = - p.depth /\ b[2] = - p.type /\ b[3] = Rank(p.failure) /\ b[4] = - p.id
  BY <1>2 DEF SortKey
<1>4. Before(o, p) <=> \E i \in 1 .. 4 : a[i] < b[i] /\ \A j \in 1 .. i - 1 : a[j] = b[j]
  BY <1>2 DEF Before
<1>5. 1 .. 4 = {1, 2, 3, 4}
  OBVIOUS
<1>6. /\ \A j \in 1 .. 1 - 1 : a[j] = b[j]
      /\ (\A j \in 1 .. 2 - 1 : a[j] = b[j]) <=> a[1] = b[1]
      /\ (\A j \in 1 .. 3 - 1 : a[j] = b[j]) <=> a[1] = b[1] /\ a[2] = b[2]
      /\ (\A j \in 1 .. 4 - 1 : a[j] = b[j]) <=> a[1] = b[1] /\ a[2] = b[2] /\ a[3] = b[3]
  OBVIOUS
<1>7. Before(o, p) <=> \/ a[1] < b[1]
                       \/ a[2] < b[2] /\ a[1] = b[1]
                       \/ a[3] < b[3] /\ a[1] = b[1] /\ a[2] = b[2]
                       \/ a[4] < b[4] /\ a[1] = b[1] /\ a[2] = b[2] /\ a[3] = b[3]
  BY <1>4, <1>5, <1>6
<1>8. QED
  BY <1>1, <1>3, <1>7

\* A set of naturals that is not empty has a least element.
LEMMA LeastNatural ==
    ASSUME NEW S, S \subseteq Nat, S # {}
    PROVE  \E i \in S : \A j \in S : i <= j
<1> DEFINE R == {ss \in Nat \X Nat : ss[1] < ss[2]}
<1>1. IsWellFoundedOn(R, Nat)
  BY NatLessThanWellFounded DEF OpToRel
<1>2. PICK i \in S : \A j \in S : ~(<<j, i>> \in R)
  <2> HIDE DEF R
  <2> QED
    BY <1>1, WFMin
<1>3. \A j \in S : ~(j < i)
  BY <1>2
<1>4. QED
  BY <1>3

\* If it is bounded it has a greatest one.
LEMMA GreatestNatural ==
    ASSUME NEW n \in Nat, NEW S, S \subseteq 0 .. n, S # {}
    PROVE  \E i \in S : \A j \in S : j <= i
<1> DEFINE T == {n - i : i \in S}
<1>1. T \subseteq Nat /\ T # {}
  <2>1. \A i \in S : n - i \in Nat
    OBVIOUS
  <2>2. \E i \in S : n - i \in T
    OBVIOUS
  <2>3. QED
    BY <2>1, <2>2
<1>2. PICK k \in T : \A j \in T : k <= j
  <2> HIDE DEF T
  <2> QED
    BY <1>1, LeastNatural
<1>3. PICK i \in S : k = n - i
  BY <1>2
<1>4. \A j \in S : n - i <= n - j
  BY <1>2, <1>3
<1>5. QED
  BY <1>4

\* Any observations have a first one, whatever the order in which the events
\* were appended.
LEMMA FirstExists ==
    ASSUME IInv, NEW D, D \subseteq AllObservations, D # {}
    PROVE  \E o \in D : \A p \in D \ {o} : Before(o, p)
<1> DEFINE n == Len(queries) + Len(conns)
<1>1. n \in Nat
  BY LenProperties DEF IInv, TypeOK
<1>2. \A o \in D : /\ o.depth \in 0 .. 1 /\ o.type \in 0 .. 3 /\ Rank(o.failure) \in Nat \ {0}
                   /\ o.id \in 0 .. n
  BY KeyFacts
<1> HIDE DEF n
<1>3. PICK A \in SUBSET D : A # {} /\ \E d \in 0 .. 1 : /\ \A o \in A : o.depth = d
                                                        /\ \A p \in D \ A : p.depth < d
  <2>1. PICK d \in {o.depth : o \in D} : \A e \in {o.depth : o \in D} : e <= d
    <3>1. {o.depth : o \in D} \subseteq 0 .. 1 /\ {o.depth : o \in D} # {}
      BY <1>2
    <3>2. QED
      BY <3>1, GreatestNatural
  <2>2. \A p \in D : p.depth <= d /\ p.depth \in 0 .. 1
    BY <1>2, <2>1
  <2>3. d \in 0 .. 1 /\ \E o \in D : o.depth = d
    BY <1>2, <2>1
  <2>4. WITNESS {o \in D : o.depth = d} \in SUBSET D
  <2>5. QED
    BY <2>2, <2>3
<1>4. PICK B \in SUBSET A : B # {} /\ \E t \in 0 .. 3 : /\ \A o \in B : o.type = t
                                                        /\ \A p \in A \ B : p.type < t
  <2>1. PICK t \in {o.type : o \in A} : \A e \in {o.type : o \in A} : e <= t
    <3>1. {o.type : o \in A} \subseteq 0 .. 3 /\ {o.type : o \in A} # {}
      BY <1>2, <1>3
    <3>2. QED
      BY <3>1, GreatestNatural
  <2>2. \A p \in A : p.type <= t /\ p.type \in 0 .. 3
    BY <1>2, <1>3, <2>1
  <2>3. t \in 0 .. 3 /\ \E o \in A : o.type = t
    BY <1>2, <1>3, <2>1
  <2>4. WITNESS {o \in A : o.type = t} \in SUBSET A
  <2>5. QED
    BY <2>2, <2>3
<1>5. PICK C \in SUBSET B : C # {} /\ \E r \in Nat \ {0} : /\ \A o \in C : Rank(o.failure) = r
                                                           /\ \A p \in B \ C : Rank(p.failure) > r
  <2>1. PICK r \in {Rank(o.failure) : o \in B} : \A e \in {Rank(o.failure) : o \in B} : r <= e
    <3>1. {Rank(o.failure) : o \in B} \subseteq Nat /\ {Rank(o.failure) : o \in B} # {}
      BY <1>2, <1>3, <1>4
    <3>2. QED
      BY <3>1, LeastNatural
  <2>2. \A p \in B : r <= Rank(p.failure) /\ Rank(p.failure) \in Nat \ {0}
    BY <1>2, <1>3, <1>4, <2>1
  <2>3. r \in Nat \ {0} /\ \E o \in B : Rank(o.failure) = r
    BY <1>2, <1>3, <1>4, <2>1
  <2>4. WITNESS {o \in B : Rank(o.failure) = r} \in SUBSET B
  <2>5. QED
    BY <2>2, <2>3
<1>6. PICK o \in C : \A p \in C : p.id <= o.id
  <2>1. PICK k \in {o.id : o \in C} : \A e \in {o.id : o \in C} : e <= k
    <3>1. {o.id : o \in C} \subseteq 0 .. n /\ {o.id : o \in C} # {}
      BY <1>2, <1>3, <1>4, <1>5
    <3>2. QED
      BY <1>1, <3>1, GreatestNatural
  <2>2. QED
    BY <2>1
<1>7. o \in D /\ o \in A /\ o \in B
  BY <1>3, <1>4, <1>5, <1>6
<1>8. ASSUME NEW p \in D \ {o}
      PROVE  Before(o, p)
  <2>1. /\ o.depth \in Nat /\ o.type \in Nat /\ Rank(o.failure) \in Nat /\ o.id \in Nat
        /\ p.depth \in Nat /\ p.type \in Nat /\ Rank(p.failure) \in Nat /\ p.id \in Nat
    BY <1>1, <1>2, <1>7
  <2>2. CASE p \notin A
    <3>1. o.depth > p.depth
      BY <1>3, <1>7, <2>1, <2>2
    <3>2. QED
      BY <1>7, <3>1, BeforeIf
  <2>3. CASE p \in A /\ p \notin B
    <3>1. o.depth = p.depth /\ o.type > p.type
      BY <1>3, <1>4, <1>7, <2>1, <2>3
    <3>2. QED
      BY <1>7, <3>1, BeforeIf
  <2>4. CASE p \in B /\ p \notin C
    <3>1. o.depth = p.depth /\ o.type = p.type /\ Rank(o.failure) < Rank(p.failure)
      BY <1>3, <1>4, <1>5, <1>6, <1>7, <2>1, <2>4
    <3>2. QED
      BY <1>7, <3>1, BeforeIf
  <2>5. CASE p \in C
    <3>1. /\ o.depth = p.depth /\ o.type = p.type /\ Rank(o.failure) = Rank(p.failure)
          /\ p.id <= o.id
      BY <1>3, <1>4, <1>5, <1>6, <1>7, <2>5
    <3>2. p.id # o.id
      BY <1>7, <3>1, Different
    <3>3. o.id > p.id
      BY <2>1, <3>1, <3>2
    <3>4. QED
      BY <1>7, <3>1, <3>3, BeforeIf
  <2>6. QED
    BY <1>4, <1>5, <2>2, <2>3, <2>4, <2>5
<1>9. QED
  BY <1>7, <1>8

-----------------------------------------------------------------------------
(* The verdict.                                                            *)

\* The classic filter only removes observations.
LEMMA ClassicIsFilter == ClassicFilter \subseteq AllObservations
  BY DEF ClassicFilter, AllObservations

\* The classic verdict is that of an observation that decides, and comes before
\* all the others that do.
LEMMA ClassicIsFirst ==
    ASSUME IInv, \E o \in ClassicFilter : Decides(o)
    PROVE  \E o \in ClassicFilter :
             /\ Decides(o)
             /\ Classic = VerdictOf(o)
             /\ \A p \in ClassicFilter : Decides(p) /\ p # o => Before(o, p)
<1> DEFINE D == {o \in ClassicFilter : Decides(o)}
<1>1. D # {} /\ D \subseteq AllObservations
  BY ClassicIsFilter
<1>2. Classic = VerdictOf(CHOOSE o \in D : \A p \in D \ {o} : Before(o, p))
  BY <1>1 DEF Classic
<1>3. \E o \in D : \A p \in D \ {o} : Before(o, p)
  <2> HIDE DEF D
  <2> QED
    BY <1>1, FirstExists
<1>4. PICK o : o = CHOOSE q \in D : \A p \in D \ {q} : Before(q, p)
  OBVIOUS
<1>5. o \in D /\ \A p \in D \ {o} : Before(o, p)
  <2> HIDE DEF D
  <2> QED
    BY <1>3, <1>4
<1>6. Classic = VerdictOf(o)
  BY <1>2, <1>4
<1>7. QED
  BY <1>5, <1>6

\* Without a control no observation has one of its own.
LEMMA NoControl ==
    ASSUME IInv, ~ HasControl, NEW o \in AllObservations
    PROVE  /\ o.own = "none"
           /\ o \in EndpointObservations => o.ctcp = "none" /\ o.ctls = "none"
<1>1. helper.http = "none"
  BY DEF HasControl
<1>2. \A a, port : ThTcp(a, port) = "none"
  BY <1>1 DEF ThTcp
<1>3. \A a, port, sni : ThTls(a, port, sni) = "none"
  BY <1>2 DEF ThTls
<1>4. CASE o \in DNSObservations
  <2>1. PICK i \in 1 .. Len(queries) : o.type = 0 /\ o.own = ControlDNSLookupFailure(queries[i])
    BY <1>4, DNSFacts
  <2>2. o.own = "none"
    BY <2>1 DEF ControlDNSLookupFailure
  <2>3. o \notin EndpointObservations
    <3>1. ASSUME o \in EndpointObservations
          PROVE  o.type \in {1, 2, 3}
      BY <3>1, EndpointFacts
    <3>2. QED
      BY <2>1, <3>1
  <2>4. QED
    BY <2>2, <2>3
<1>5. CASE o \in EndpointObservations
  <2>1. PICK i \in 1 .. Len(conns) : o = EndpointObservation(i) /\ o.type \in {1, 2, 3}
    BY <1>5, EndpointFacts
  <2>2. o.ctcp = "none" /\ o.ctls = "none"
    BY <1>2, <1>3, <2>1 DEF EndpointObservation
  <2>3. o.own = CASE o.type = 3 -> "none" [] o.type = 2 -> "none" [] o.type = 1 -> "none"
    BY <1>1, <1>2, <1>3, <2>1 DEF EndpointObservation
  <2>4. o.own = "none"
    BY <2>1, <2>3
  <2>5. QED
    BY <2>2, <2>4
<1>6. QED
  BY <1>4, <1>5 DEF AllObservations

\* Without a control the answers of the resolvers are not compared with anything.
LEMMA NoInconsistency ==
    ASSUME IInv, ~ HasControl
    PROVE  /\ DNSConsistency # "inconsistent"
           /\ DNSLookupUnexpectedFailure(AllObservations) = {}
           /\ DNSLookupSuccessWithInvalidAddresses(AllObservations) = {}
<1>1. ASSUME NEW obs \in SUBSET AllObservations
      PROVE  /\ DNSLookupUnexpectedFailure(obs) = {}
             /\ DNSLookupSuccessWithInvalidAddressesClassic(obs) = {}
  <2>1. \A o \in obs : o.own = "none"
    BY NoControl
  <2>2. Considered(DnsOf(obs)) \subseteq obs
    BY DEF Considered, DnsOf
  <2>3. DNSLookupUnexpectedFailure(obs) = {}
    BY <2>1, <2>2 DEF DNSLookupUnexpectedFailure, FailuresOfSite
  <2>4. DNSLookupSuccessWithInvalidAddressesClassic(obs) = {}
    BY <2>1, <2>2 DEF DNSLookupSuccessWithInvalidAddressesClassic, DNSLookupSuccess, Comparable
  <2>5. QED
    BY <2>3, <2>4
<1>2. /\ DNSLookupUnexpectedFailure(ClassicFilter) = {}
      /\ DNSLookupSuccessWithInvalidAddressesClassic(ClassicFilter) = {}
  BY <1>1, ClassicIsFilter
<1>3. DNSConsistency # "inconsistent"
  BY <1>2 DEF DNSConsistency
<1>4. QED
  BY <1>1, <1>3 DEF DNSLookupSuccessWithInvalidAddresses

\* The extended engine has no flag for what nothing was compared with.
LEMMA NoFlags ==
    ASSUME IInv, ~ HasControl
    PROVE  BlockingFlags \subseteq {"success"}
<1>1. helper.http = "none"
  BY DEF HasControl
<1>2. TCPConnectUnexpectedFailure(AllObservations) = {}
  <2>1. ASSUME NEW o \in EndpointsOf(AllObservations)
        PROVE  o \in EndpointObservations
    BY DNSFacts DEF EndpointsOf, AllObservations
  <2>2. \A o \in EndpointsOf(AllObservations) : o.ctcp = "none"
    BY <2>1, NoControl DEF EndpointsOf
  <2>3. QED
    BY <2>2 DEF TCPConnectUnexpectedFailure
<1>3. TLSHandshakeUnexpectedFailure(AllObservations) = {}
  <2>1. ASSUME NEW o \in EndpointsOf(AllObservations)
        PROVE  o \in EndpointObservations
    BY DNSFacts DEF EndpointsOf, AllObservations
  <2>2. \A o \in EndpointsOf(AllObservations) : o.ctls = "none"
    BY <2>1, NoControl DEF EndpointsOf
  <2>3. QED
    BY <2>2 DEF TLSHandshakeUnexpectedFailure
<1>4. HTTPRoundTripUnexpectedFailure(AllObservations) = {}
  BY <1>1 DEF HTTPRoundTripUnexpectedFailure
<1>5. UnexpectedFlags = {}
  BY <1>2, <1>3, <1>4, NoInconsistency DEF UnexpectedFlags, When
<1>6. RedirectFlags = {}
  BY <1>1 DEF RedirectFlags
<1>7. FinalFlags \subseteq {"success"}
  BY DEF FinalFlags
<1>8. QED
  BY <1>5, <1>6, <1>7 DEF BlockingFlags

\* When the test helper is unreachable neither engine accuses anybody, whatever
\* the resolvers answered and the connections came to.
THEOREM NobodyAccusedWithoutControl == Spec => []NoAccusationWithoutControl
<1>1. ASSUME IInv, ~ HasControl
      PROVE  ~ Blocked
  <2>1. CASE ~ \E o \in ClassicFilter : Decides(o)
    BY <2>1 DEF Classic, Blocked
  <2>2. CASE \E o \in ClassicFilter : Decides(o)
    <3>1. PICK o \in ClassicFilter : Decides(o) /\ Classic = VerdictOf(o)
      BY <1>1, <2>2, ClassicIsFirst
    <3>2. o.own = "none" /\ helper.http = "none"
      BY <1>1, ClassicIsFilter, NoControl DEF HasControl
    <3>3. \A v : OrBlameDNS(v) = v
      BY <1>1, NoInconsistency DEF OrBlameDNS
    <3>4. SetBlockingNil = [blocking |-> "nil", accessible |-> "none"]
      BY <3>3 DEF SetBlockingNil
    <3>5. CASE o.final
      BY <1>1, <3>1, <3>4, <3>5 DEF VerdictOf, FinalVerdict, Accessible, Blocked
    <3>6. CASE ~ o.final /\ Failed(o.failure)
      <4>1. VerdictOf(o) = FailureVerdict(o)
        BY <3>6 DEF VerdictOf
      <4>2. FailureVerdict(o) \in {Accessible, SetBlockingNil}
        BY <3>2 DEF FailureVerdict, Failed, NoAnswerExpected
      <4>3. QED
        BY <3>1, <3>4, <4>1, <4>2 DEF Accessible, Blocked
    <3>7. CASE ~ o.final /\ ~ Failed(o.failure)
      BY <3>1, <3>2, <3>7 DEF Decides, LoopbackOnly
    <3>8. QED
      BY <3>5, <3>6, <3>7
  <2>3. QED
    BY <2>1, <2>2
<1>2. IInv => NoAccusationWithoutControl
  BY <1>1, NoFlags DEF NoAccusationWithoutControl
<1>3. QED
  BY <1>2, Invariance, PTL

\* With a control, only a page makes a site accessible.
LEMMA OnlyAPageIsAccessible ==
    ASSUME IInv, HasControl, NEW o \in ClassicFilter, Decides(o), VerdictOf(o) = Accessible
    PROVE  o \in FinalResponses(ClassicFilter) /\ (o.tls = "ok" \/ ~ HTTPDiff(o))
<1>1. \A v : SetBlockingString(v) # Accessible
  BY DEF SetBlockingString, OrBlameDNS, Accessible
<1>2. SetWebsiteDown # Accessible
  BY DEF SetWebsiteDown, OrBlameDNS, Accessible
<1>3. CASE o.final
  <2>1. VerdictOf(o) = FinalVerdict(o)
    BY <1>3 DEF VerdictOf
  <2>2. o.tls = "ok" \/ ~ HTTPDiff(o)
    BY <1>1, <2>1 DEF FinalVerdict
  <2>3. o \notin DNSObservations
    BY <1>3, DNSFacts
  <2>4. o \in EndpointObservations
    BY <2>3, ClassicIsFilter DEF AllObservations
  <2>5. PICK i \in 1 .. Len(conns) :
          o.type \in {1, 2, 3} /\ o.final = conns[i].final /\ o.http = conns[i].http
    BY <2>4, EndpointFacts
  <2>6. DOMAIN conns = 1 .. Len(conns)
    BY LenProperties DEF IInv, TypeOK
  <2>7. o.http = "ok"
    BY <1>3, <2>5, <2>6 DEF IInv, FinalIsLast
  <2>8. o.type # 0
    BY <2>5
  <2>9. QED
    BY <1>3, <2>2, <2>7, <2>8 DEF FinalResponses, EndpointsOf
<1>4. CASE ~ o.final /\ Failed(o.failure)
  <2>1. VerdictOf(o) = FailureVerdict(o)
    BY <1>4 DEF VerdictOf
  <2>2. helper.http # "none"
    BY DEF HasControl
  <2>3. FailureVerdict(o) # Accessible
    BY <1>1, <1>2, <2>2 DEF FailureVerdict, Failed
  <2>4. QED
    BY <2>1, <2>3
<1>5. CASE ~ o.final /\ ~ Failed(o.failure)
  BY <1>1, <1>2, <1>5 DEF VerdictOf
<1>6. QED
  BY <1>3, <1>4, <1>5

\* A final response comes before everything else: it is of the last step, no
\* other connection of that step has made a request, and nothing ranks before
\* a round trip that did not fail.
LEMMA FinalIsFirst ==
    ASSUME IInv, NEW o \in AllObservations, NEW p \in AllObservations,
           o.type # 0, o.http = "ok", o.final, Before(p, o)
    PROVE  p = o
<1>1. o \in EndpointObservations
  BY DNSFacts DEF AllObservations
<1>2. PICK i \in 1 .. Len(conns) :
        /\ o.id = i /\ o.depth = conns[i].depth /\ o.final = conns[i].final
        /\ o.http = conns[i].http /\ o.type = 3 /\ o.failure = o.http
  BY <1>1, EndpointFacts
<1>3. DOMAIN conns = 1 .. Len(conns)
  BY LenProperties DEF IInv, TypeOK
<1>4. o.depth = Depth
  BY <1>2, <1>3 DEF IInv, FinalIsLast
<1>5. Rank(o.failure) = 1
  BY <1>2, RankFacts
<1>6. /\ p.depth \in 0 .. 1 /\ p.type \in 0 .. 3 /\ Rank(p.failure) \in Nat \ {0}
      /\ Depth \in {0, 1}
  BY KeyFacts, DepthIs
<1>7. \/ p.depth > Depth
      \/ p.depth = Depth /\ p.type > 3
      \/ p.depth = Depth /\ p.type = 3 /\ Rank(p.failure) < 1
      \/ p.depth = Depth /\ p.type = 3
  BY <1>2, <1>4, <1>5, BeforeIf
<1>8. p.depth <= Depth
  <2>1. CASE p \in EndpointObservations
    <3>1. PICK j \in 1 .. Len(conns) : p.depth = conns[j].depth
      BY <2>1, EndpointFacts
    <3>2. QED
      BY <1>3, <3>1 DEF IInv, FinalIsLast
  <2>2. CASE p \in DNSObservations
    <3>1. PICK j \in 1 .. Len(queries) : p.depth = queries[j].depth
      BY <2>2, DNSFacts
    <3>2. DOMAIN queries = 1 .. Len(queries)
      BY LenProperties DEF IInv, TypeOK
    <3>3. QED
      BY <3>1, <3>2 DEF IInv, FinalIsLast
  <2>3. QED
    BY <2>1, <2>2 DEF AllObservations
<1>9. p.depth = Depth /\ p.type = 3
  BY <1>6, <1>7, <1>8
<1>10. p \in EndpointObservations
  <2>1. ASSUME p \in DNSObservations
        PROVE  p.type = 0
    BY <2>1, DNSFacts
  <2>2. QED
    BY <1>9, <2>1 DEF AllObservations
<1>11. PICK j \in 1 .. Len(conns) :
         p.id = j /\ p.depth = conns[j].depth /\ p.http = conns[j].http /\ p.http # "none"
  BY <1>9, <1>10, EndpointFacts
<1>12. j = i
  <2>1. /\ i \in DOMAIN conns /\ j \in DOMAIN conns
        /\ conns[i].http # "none" /\ conns[j].http # "none" /\ conns[i].depth = conns[j].depth
    BY <1>2, <1>3, <1>4, <1>9, <1>11
  <2>2. QED
    BY <2>1 DEF IInv, OneFetch
<1>13. QED
  <2>1. p.type = o.type /\ p.id = o.id
    BY <1>2, <1>9, <1>11, <1>12
  <2>2. QED
    BY <2>1, Different

\* With a control, the site is accessible exactly when a final page, over TLS or
\* like the helper's, says so.
THEOREM AccessibleHasWitness == Spec => []AccessibleIsWitnessed
<1>1. ASSUME IInv, HasControl, Classic = Accessible
      PROVE  \E o \in FinalResponses(ClassicFilter) : o.tls = "ok" \/ ~ HTTPDiff(o)
  <2>1. \E o \in ClassicFilter : Decides(o)
    BY <1>1 DEF Classic, Accessible
  <2>2. PICK o \in ClassicFilter : Decides(o) /\ Classic = VerdictOf(o)
    BY <1>1, <2>1, ClassicIsFirst
  <2>3. QED
    BY <1>1, <2>2, OnlyAPageIsAccessible
<1>2. ASSUME IInv, HasControl, NEW o \in FinalResponses(ClassicFilter),
             o.tls = "ok" \/ ~ HTTPDiff(o)
      PROVE  Classic = Accessible
  <2>1. o \in ClassicFilter /\ o.type # 0 /\ o.http = "ok" /\ o.final
    BY <1>2 DEF FinalResponses, EndpointsOf
  <2>2. Decides(o)
    BY <2>1 DEF Decides
  <2>3. PICK c \in ClassicFilter :
          /\ Decides(c) /\ Classic = VerdictOf(c)
          /\ o # c => Before(c, o)
    BY <1>2, <2>1, <2>2, ClassicIsFirst
  <2>4. c = o
    BY <1>2, <2>1, <2>3, FinalIsFirst, ClassicIsFilter
  <2>5. QED
    BY <1>2, <2>1, <2>3, <2>4 DEF VerdictOf, FinalVerdict
<1>3. IInv => AccessibleIsWitnessed
  BY <1>1, <1>2 DEF AccessibleIsWitnessed
<1>4. QED
  BY <1>3, Invariance, PTL
=============================================================================
