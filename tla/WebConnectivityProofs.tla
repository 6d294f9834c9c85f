----------------------- MODULE WebConnectivityProofs -----------------------
(***************************************************************************)
(* Proofs about WebConnectivity, for any number of addresses and           *)
(* redirects.                                                              *)
(*                                                                         *)
(* None of its properties is inductive.  That nothing runs when Run goes   *)
(* on needs the meaning of the wait group's counter: it is the number of   *)
(* the tasks in the group.  That the requests are in order needs that each *)
(* step of the chain gives one permission, to a flow of the last step that *)
(* has started, and that the redirects left tell how long the chain is.    *)
(***************************************************************************)
EXTENDS WebConnectivity, FiniteSetTheorems, SequenceTheorems, TLAPS

FlowStates == {"off", "connect", "ask", "asked", "fetch", "done"}

TypeOK ==
  /\ world \in Worlds
  /\ url \in [Depths -> Urls \cup Starts \cup {NoUrl}]
  /\ main \in {"wait", "joined", "finalized", "unsubmitted", "failed"}
  /\ resolvers \in [Depths -> {"off", "started", "lookup", "received", "resolved", "done"}]
  /\ udp \in [Depths -> {"off", "lookup", "sent", "late", "done"}]
  /\ selector \in [Depths -> [at : {"off", "idle", "collect", "over"}, reqs : Seq(Flows)]]
  /\ flow \in [Flows -> FlowStates]
  /\ answer \in [Flows -> {"none", "yes", "no"}]
  /\ control \in {"off", "started", "answered", "failed"}
  /\ left \in Int
  /\ requests \in Seq([flow : Flows, outcome : {"page", "error", "redirect"}])
  /\ unmade \subseteq Depths
  /\ cancelled \in BOOLEAN
  /\ slow \in BOOLEAN
  /\ asked \subseteq Flows

\* The tasks that are in the wait group
ResolversIn == {d \in Depths : resolvers[d] \notin {"off", "done"}}
FlowsIn == {f \in Flows : Busy(f)}
LateIn == {d \in Depths : udp[d] = "late"}
ControlIn == IF control = "started" THEN 1 ELSE 0

\* The counter of the wait group is the number of tasks in it
Counted ==
  counter = Cardinality(ResolversIn) + Cardinality(FlowsIn) + Cardinality(LateIn) + ControlIn

\* The step that the chain of redirects has reached is the one after those
\* that have a request, unless the chain has ended.
Ended == requests # << >> /\ requests[1].outcome # "redirect"

Chain ==
  /\ \A d \in Depths : resolvers[d] # "off" <=>
       IF Ended THEN d < Len(requests) ELSE d <= Len(requests)
  /\ Ended \/ (Len(requests) <= MaxRedirects /\ left = MaxRedirects - Len(requests))
  /\ \A d \in Depths : resolvers[d] # "off" => url[d] \in Urls \cup Starts

\* The goroutine for DNS over UDP starts with the lookups of a step, and the
\* selector and the flows when they are over.
StepsStart ==
  /\ \A d \in Depths : resolvers[d] \in {"off", "started"} => udp[d] = "off"
  /\ \A d \in Depths : resolvers[d] # "done" => selector[d].at = "off"
  /\ \A f \in Flows : flow[f] # "off" => resolvers[f[1]] = "done"

\* What a selector holds: the requests of flows of its step
Collected ==
  /\ \A d \in Depths : selector[d].at = "collect" => selector[d].reqs # << >>
  /\ \A d \in Depths : selector[d].at \in {"off", "idle"} => selector[d].reqs = << >>
  /\ \A d \in Depths : \A i \in DOMAIN selector[d].reqs :
       LET f == selector[d].reqs[i] IN f[1] = d /\ flow[f] \in {"asked", "fetch", "done"}

\* What it has answered: one permission, after which it is over
Granted ==
  /\ \A f \in Flows : answer[f] # "none" =>
       selector[f[1]].at = "over" /\ flow[f] \in {"asked", "fetch", "done"}
  /\ \A f \in Flows : flow[f] = "fetch" => answer[f] = "yes"
  /\ \A f, g \in Flows : answer[f] = "yes" /\ answer[g] = "yes" /\ f[1] = g[1] => f = g

\* A request is that of the flow that got the permission, which is over.
RequestsMade ==
  \A i \in DOMAIN requests : LET f == requests[i].flow IN
      answer[f] = "yes" /\ flow[f] = "done"

\* Who has asked is on its way to an answer; if nothing went wrong an answer
\* was a permission for somebody, who has used it.
HasFetched(d) == d \in unmade \/ \E i \in DOMAIN requests : requests[i].flow[1] = d

Asked ==
  /\ \A f \in asked : flow[f] \notin {"off", "connect"}
  /\ \A f \in Flows : flow[f] \in {"ask", "asked", "fetch"} => f \in asked
  /\ \A d \in Depths : \A i \in DOMAIN selector[d].reqs : selector[d].reqs[i] \in asked
  /\ \A f \in asked : flow[f] = "done" /\ ~ slow => selector[f[1]].at = "over"
  /\ \A d \in Depths : selector[d].at = "over" /\ ~ cancelled /\ ~ Returned =>
       \E f \in Flows : f[1] = d /\ answer[f] = "yes"
  /\ \A f \in Flows : answer[f] = "yes" /\ flow[f] = "done" /\ ~ slow => HasFetched(f[1])

\* Every address of the first step has a flow.
Addresses ==
  /\ resolvers[0] = "done" => \A a \in Resolved(0) : flow[<<0, a, TRUE>>] # "off"
  /\ resolvers[0] = "done" => (world.helpers <=> control # "off")
  /\ resolvers[0] # "done" => control = "off"
  /\ control = "answered" => \A a \in world.th : flow[<<0, a, TRUE>>] # "off"
  /\ control = "started" => \A f \in Flows : f[1] = 0 /\ f[2] \notin Resolved(0) => flow[f] = "off"

Finalized == main = "finalized" => ~ cancelled

IInv ==
  /\ TypeOK
  /\ Counted
  /\ JoinIsComplete
  /\ Chain
  /\ StepsStart
  /\ Collected
  /\ Granted
  /\ PriorityRespected
  /\ RequestsInOrder
  /\ RequestsMade
  /\ Asked
  /\ Addresses
  /\ Finalized
  /\ MeasurementIsComplete

-----------------------------------------------------------------------------
(* Numbers, flows and sequences.                                           *)

\* A set of naturals that is not empty has a least element, which is the one
\* that findHighestPriority stops at.
LEMMA LeastNatural ==
  ASSUME NEW S, S \subseteq Nat, S # {}
  PROVE  \E i \in S : \A j \in S : i <= j
<1> DEFINE R == {ss \in Nat \X Nat : ss[1] < ss[2]}
<1>1. IsWellFoundedOn(R, Nat)
  BY NatLessThanWellFounded DEF OpToRel
<1>2. PICK i \in S : \A j \in S : ~(<<j, i>> \in R)
  <2> HIDE DEF R
  <2> QED
    BY <1>1, WFMin
<1>3. \A j \in S : ~(j < i)
  BY <1>2
<1>4. QED
  BY <1>3

\* The parts of a flow, and the flow of three parts.
LEMMA FlowParts ==
  /\ \A f \in Flows : f[1] \in Depths /\ f[2] \in Addrs /\ f[3] \in BOOLEAN
  /\ \A d \in Depths, a \in Addrs, b \in BOOLEAN :
       /\ <<d, a, b>> \in Flows
       /\ <<d, a, b>>[1] = d
       /\ <<d, a, b>>[2] = a
BY DEF Flows

\* There are finitely many flows and steps.
LEMMA FlowsFinite == IsFiniteSet(Flows) /\ IsFiniteSet(Depths)
<1>1. IsFiniteSet(Depths)
  BY FS_Interval, MaxRedirectsAssumption DEF Depths
<1>2. IsFiniteSet(BOOLEAN)
  <2>1. IsFiniteSet({TRUE} \cup {FALSE})
    BY FS_Singleton, FS_AddElement
  <2>2. BOOLEAN = {TRUE} \cup {FALSE}
    OBVIOUS
  <2>3. QED
    BY <2>1, <2>2, Zenon
<1>3. IsFiniteSet((Depths \X Addrs) \X BOOLEAN)
  BY <1>1, <1>2, FS_Product, AddrsAssumption
<1> DEFINE T == (Depths \X Addrs) \X BOOLEAN
           pack == [f \in Flows |-> <<<<f[1], f[2]>>, f[3]>>]
<1>4. pack \in Injection(Flows, T)
  BY DEF Injection, IsInjective, Flows
<1>5. IsFiniteSet(Flows)
  <2> HIDE DEF pack, T
  <2> QED
    BY <1>3, <1>4, FS_Injection DEF T
<1>6. QED
  BY <1>1, <1>5

\* A step 0 there always is, and the steps are naturals.
LEMMA DepthsAreNaturals == Depths \subseteq Nat /\ 0 \in Depths
BY MaxRedirectsAssumption DEF Depths

\* What putting a request in front of the requests gives.
LEMMA Prepended ==
  ASSUME NEW S, NEW x \in S, NEW s \in Seq(S)
  PROVE  /\ <<x>> \o s \in Seq(S)
         /\ Len(<<x>> \o s) = Len(s) + 1
         /\ DOMAIN (<<x>> \o s) = 1 .. Len(s) + 1
         /\ (<<x>> \o s)[1] = x
         /\ \A i \in 2 .. Len(s) + 1 : (<<x>> \o s)[i] = s[i - 1]
<1>1. <<x>> \in Seq(S) /\ Len(<<x>>) = 1 /\ <<x>>[1] = x
  OBVIOUS
<1>2. <<x>> \o s \in Seq(S) /\ Len(<<x>> \o s) = 1 + Len(s)
  BY <1>1, ConcatProperties
<1>3. \A i \in 1 .. 1 + Len(s) : (<<x>> \o s)[i] = IF i <= 1 THEN <<x>>[i] ELSE s[i - 1]
  BY <1>1, ConcatProperties
<1>4. Len(s) \in Nat
  OBVIOUS
<1>5. DOMAIN (<<x>> \o s) = 1 .. Len(<<x>> \o s)
  BY <1>2, LenProperties
<1>6. QED
  BY <1>1, <1>2, <1>3, <1>4, <1>5

\* The elements of a sequence to which one was appended.
LEMMA Appended ==
  ASSUME NEW S, NEW s \in Seq(S), NEW x \in S
  PROVE  /\ Append(s, x) # << >>
         /\ \A i \in DOMAIN Append(s, x) :
              Append(s, x)[i] = x \/ (i \in DOMAIN s /\ Append(s, x)[i] = s[i])
<1>1. Append(s, x) \in Seq(S) /\ Append(s, x) # << >> /\ Len(Append(s, x)) = Len(s) + 1
  BY AppendProperties
<1>2. DOMAIN Append(s, x) = 1 .. Len(s) + 1 /\ DOMAIN s = 1 .. Len(s) /\ Len(s) \in Nat
  BY <1>1, LenProperties
<1>3. \A i \in 1 .. Len(s) : Append(s, x)[i] = s[i]
  BY AppendProperties
<1>4. Append(s, x)[Len(s) + 1] = x
  BY AppendProperties
<1>5. QED
  BY <1>1, <1>2, <1>3, <1>4

\* findHighestPriority returns one of the requests, one of the highest
\* priority if there is any, and the first if there is none.
LEMMA HighestPriorityFound ==
  ASSUME NEW reqs \in Seq(Flows), reqs # << >>
  PROVE  /\ \E i \in DOMAIN reqs : FindHighestPriority(reqs) = reqs[i]
         /\ (\E i \in DOMAIN reqs : IsHighestPriority(reqs[i])) =>
               IsHighestPriority(FindHighestPriority(reqs))
         /\ (\A i \in DOMAIN reqs : ~ IsHighestPriority(reqs[i])) =>
               FindHighestPriority(reqs) = reqs[1]
<1> DEFINE high == {i \in DOMAIN reqs : IsHighestPriority(reqs[i])}
<1>1. 1 \in DOMAIN reqs /\ DOMAIN reqs \subseteq Nat
  OBVIOUS
<1>2. CASE high = {}
  BY <1>1, <1>2 DEF FindHighestPriority
<1>3. CASE high # {}
  <2>1. \E i \in high : \A j \in high : i <= j
    <3> HIDE DEF high
    <3>1. high \subseteq Nat
      BY <1>1 DEF high
    <3>2. QED
      BY <1>3, <3>1, LeastNatural
  <2> DEFINE best == CHOOSE i \in high : \A j \in high : i <= j
  <2>2. best \in high
    BY <2>1
  <2>3. FindHighestPriority(reqs) = reqs[best]
    BY <1>3 DEF FindHighestPriority
  <2> QED
    BY <2>2, <2>3
<1>4. QED
  BY <1>2, <1>3

-----------------------------------------------------------------------------
(* The addresses of a step and the flows for them.                         *)

\* What the resolvers return for a step that has started is addresses.
LEMMA ResolvedAddrs ==
  ASSUME TypeOK, Chain, NEW d \in Depths, resolvers[d] # "off"
  PROVE  Resolved(d) \subseteq Addrs
<1>1. url[d] \in Urls \cup Starts
  BY DEF Chain
<1>2. Dns(d) \in [system : SUBSET Addrs, udp : SUBSET Addrs, https : SUBSET Addrs]
  BY <1>1, WorldsAssumption DEF TypeOK, Dns
<1>3. QED
  BY <1>2 DEF Resolved

\* The flows that a step starts are of that step and of those addresses, one
\* of them with a selector for each.
LEMMA FlowsForAddrs ==
  ASSUME NEW d \in Depths, NEW addrs, addrs \subseteq Addrs
  PROVE  /\ FlowsFor(d, addrs) \subseteq Flows
         /\ \A f \in FlowsFor(d, addrs) : f[1] = d /\ f[2] \in addrs
         /\ \A a \in addrs : <<d, a, TRUE>> \in FlowsFor(d, addrs)
<1>1. \A f \in FlowsFor(d, addrs) :
        \E a \in addrs : f = <<d, a, TRUE>> \/ f = <<d, a, FALSE>>
  BY DEF FlowsFor
<1>2. \A a \in addrs : <<d, a, TRUE>> \in FlowsFor(d, addrs)
  BY DEF FlowsFor
<1>3. \A a \in addrs :
        <<d, a, TRUE>> \in Flows /\ <<d, a, TRUE>>[1] = d /\ <<d, a, TRUE>>[2] = a
  BY FlowParts, Zenon
<1>4. \A a \in addrs :
        <<d, a, FALSE>> \in Flows /\ <<d, a, FALSE>>[1] = d /\ <<d, a, FALSE>>[2] = a
  BY FlowParts, Zenon
<1>5. \A f \in FlowsFor(d, addrs) : f \in Flows /\ f[1] = d /\ f[2] \in addrs
  <2> TAKE f \in FlowsFor(d, addrs)
  <2>1. PICK a \in addrs : f = <<d, a, TRUE>> \/ f = <<d, a, FALSE>>
    BY <1>1
  <2>2. CASE f = <<d, a, TRUE>>
    BY <1>3, <2>2
  <2>3. CASE f = <<d, a, FALSE>>
    BY <1>4, <2>3
  <2>4. QED
    BY <2>1, <2>2, <2>3
<1>6. QED
  BY <1>2, <1>5

-----------------------------------------------------------------------------
(* How the steps change the number of flows in the wait group.             *)

\* A flow that goes on stays in the group.
LEMMA FlowGoesOn ==
  ASSUME TypeOK, NEW f \in Flows, Busy(f), NEW s \in FlowStates \ {"off", "done"},
         flow' = [flow EXCEPT ![f] = s]
  PROVE  FlowsIn' = FlowsIn
BY DEF TypeOK, FlowsIn, Busy

\* A flow that ends is one less.
LEMMA FlowEnds ==
  ASSUME TypeOK, NEW f \in Flows, Busy(f), flow' = [flow EXCEPT ![f] = "done"]
  PROVE  /\ Cardinality(FlowsIn') = Cardinality(FlowsIn) - 1
         /\ Cardinality(FlowsIn) \in Nat
<1>1. FlowsIn' = FlowsIn \ {f} /\ f \in FlowsIn
  BY DEF TypeOK, FlowsIn, Busy
<1>2. IsFiniteSet(FlowsIn)
  BY FlowsFinite, FS_Subset DEF FlowsIn
<1>3. QED
  BY <1>1, <1>2, FS_RemoveElement, FS_CardinalityType

\* Flows that start are that many more, and none of the others changes.
LEMMA FlowsAdded ==
  ASSUME TypeOK, NEW fs \in SUBSET Flows, \A f \in fs : flow[f] = "off", StartFlows(fs)
  PROVE  /\ Cardinality(FlowsIn') = Cardinality(FlowsIn) + Cardinality(fs)
         /\ Cardinality(FlowsIn) \in Nat
         /\ Cardinality(fs) \in Nat
<1>1. FlowsIn' = FlowsIn \cup fs
  BY DEF TypeOK, FlowsIn, Busy, StartFlows, FlowStates
<1>2. FlowsIn \cap fs = {}
  BY DEF FlowsIn, Busy
<1>3. IsFiniteSet(FlowsIn) /\ IsFiniteSet(fs)
  BY FlowsFinite, FS_Subset DEF FlowsIn
<1>4. Cardinality(FlowsIn \cup fs)
        = Cardinality(FlowsIn) + Cardinality(fs) - Cardinality(FlowsIn \cap fs)
  BY <1>3, FS_Union
<1>5. QED
  BY <1>1, <1>2, <1>3, <1>4, FS_EmptySet, FS_CardinalityType

\* The same for the lookups of a step, and for the waiting for late replies.
LEMMA ResolversEnter ==
  ASSUME TypeOK, NEW d \in Depths, resolvers[d] = "off",
         resolvers' = [resolvers EXCEPT ![d] = "started"]
  PROVE  /\ Cardinality(ResolversIn') = Cardinality(ResolversIn) + 1
         /\ Cardinality(ResolversIn) \in Nat
<1>1. ResolversIn' = ResolversIn \cup {d} /\ d \notin ResolversIn
  BY DEF TypeOK, ResolversIn
<1>2. IsFiniteSet(ResolversIn)
  BY FlowsFinite, FS_Subset DEF ResolversIn
<1>3. QED
  BY <1>1, <1>2, FS_AddElement, FS_CardinalityType

\* The lookups of a step leave when its flows have started.
LEMMA ResolversLeave ==
  ASSUME TypeOK, NEW d \in Depths, resolvers[d] = "resolved",
         resolvers' = [resolvers EXCEPT ![d] = "done"]
  PROVE  /\ Cardinality(ResolversIn') = Cardinality(ResolversIn) - 1
         /\ Cardinality(ResolversIn) \in Nat
<1>1. ResolversIn' = ResolversIn \ {d} /\ d \in ResolversIn
  BY DEF TypeOK, ResolversIn
<1>2. IsFiniteSet(ResolversIn)
  BY FlowsFinite, FS_Subset DEF ResolversIn
<1>3. QED
  BY <1>1, <1>2, FS_RemoveElement, FS_CardinalityType

\* waitForLateReplies enters...
LEMMA LateEnters ==
  ASSUME TypeOK, NEW d \in Depths, udp[d] = "sent", udp' = [udp EXCEPT ![d] = "late"]
  PROVE  /\ Cardinality(LateIn') = Cardinality(LateIn) + 1
         /\ Cardinality(LateIn) \in Nat
<1>1. LateIn' = LateIn \cup {d} /\ d \notin LateIn
  BY DEF TypeOK, LateIn
<1>2. IsFiniteSet(LateIn)
  BY FlowsFinite, FS_Subset DEF LateIn
<1>3. QED
  BY <1>1, <1>2, FS_AddElement, FS_CardinalityType

\* ...and leaves.
LEMMA LateLeaves ==
  ASSUME TypeOK, NEW d \in Depths, udp[d] = "late", udp' = [udp EXCEPT ![d] = "done"]
  PROVE  /\ Cardinality(LateIn') = Cardinality(LateIn) - 1
         /\ Cardinality(LateIn) \in Nat
<1>1. LateIn' = LateIn \ {d} /\ d \in LateIn
  BY DEF TypeOK, LateIn
<1>2. IsFiniteSet(LateIn)
  BY FlowsFinite, FS_Subset DEF LateIn
<1>3. QED
  BY <1>1, <1>2, FS_RemoveElement, FS_CardinalityType

\* The group counts its members with naturals.
LEMMA CountsAreNaturals ==
  /\ Cardinality(ResolversIn) \in Nat /\ Cardinality(FlowsIn) \in Nat
  /\ Cardinality(LateIn) \in Nat /\ ControlIn \in Nat
<1>1. IsFiniteSet(ResolversIn) /\ IsFiniteSet(LateIn) /\ IsFiniteSet(FlowsIn)
  BY FlowsFinite, FS_Subset DEF ResolversIn, LateIn, FlowsIn
<1>2. QED
  BY <1>1, FS_CardinalityType DEF ControlIn

\* An empty group has no members.
LEMMA NobodyIn ==
  ASSUME Counted, counter = 0
  PROVE  ResolversIn = {} /\ FlowsIn = {} /\ LateIn = {} /\ control # "started"
<1>1. IsFiniteSet(ResolversIn) /\ IsFiniteSet(LateIn) /\ IsFiniteSet(FlowsIn)
  BY FlowsFinite, FS_Subset DEF ResolversIn, LateIn, FlowsIn
<1>2. /\ Cardinality(ResolversIn) = 0 /\ Cardinality(FlowsIn) = 0
      /\ Cardinality(LateIn) = 0 /\ ControlIn = 0
  <2>1. \A j, k, m, n \in Nat : j + k + m + n = 0 => j = 0 /\ k = 0 /\ m = 0 /\ n = 0
    OBVIOUS
  <2>2. Cardinality(ResolversIn) + Cardinality(FlowsIn) + Cardinality(LateIn) + ControlIn = 0
    BY DEF Counted
  <2>3. QED
    BY <2>1, <2>2, CountsAreNaturals, Zenon
<1>3. QED
  BY <1>1, <1>2, FS_EmptySet DEF ControlIn

-----------------------------------------------------------------------------
(* The type invariant.                                                     *)

Outcomes == {"page", "error", "redirect"}

\* A request is that of a flow.
LEMMA RequestsOfFlows ==
  ASSUME TypeOK
  PROVE  /\ Len(requests) \in Nat
         /\ DOMAIN requests = 1 .. Len(requests)
         /\ \A i \in DOMAIN requests : requests[i].flow \in Flows
<1>1. requests \in Seq([flow : Flows, outcome : Outcomes])
  BY DEF TypeOK, Outcomes
<1>2. Len(requests) \in Nat /\ DOMAIN requests = 1 .. Len(requests)
  BY <1>1, LenProperties
<1>3. \A i \in 1 .. Len(requests) : requests[i] \in [flow : Flows, outcome : Outcomes]
  BY <1>1, ElementOfSeq
<1>4. QED
  BY <1>2, <1>3

\* What PrependRequests does to the requests of a measurement.
LEMMA RequestPrepended ==
  ASSUME TypeOK, NEW f \in Flows, NEW outcome \in Outcomes, PrependRequests(f, outcome)
  PROVE  /\ requests' \in Seq([flow : Flows, outcome : Outcomes])
         /\ Len(requests') = Len(requests) + 1
         /\ DOMAIN requests' = 1 .. Len(requests) + 1
         /\ requests'[1] = [flow |-> f, outcome |-> outcome]
         /\ \A i \in 2 .. Len(requests) + 1 : requests'[i] = requests[i - 1]
         /\ Len(requests) \in Nat
         /\ DOMAIN requests = 1 .. Len(requests)
<1>1. [flow |-> f, outcome |-> outcome] \in [flow : Flows, outcome : Outcomes]
  OBVIOUS
<1>2. requests \in Seq([flow : Flows, outcome : Outcomes])
  BY DEF TypeOK, Outcomes
<1>3. requests' = <<[flow |-> f, outcome |-> outcome]>> \o requests
  BY DEF PrependRequests
<1>4. Len(requests) \in Nat /\ DOMAIN requests = 1 .. Len(requests)
  BY <1>2, LenProperties
<1>5. QED
  BY <1>1, <1>2, <1>3, <1>4, Prepended

\* Every variable keeps its type, whatever the goroutines do.
LEMMA TypeInv ==
  ASSUME TypeOK, [Next]_vars
  PROVE  TypeOK'
<1> USE DEF TypeOK, FlowStates
<1>1. ASSUME NEW d \in Depths, ResolversStep(d)
      PROVE  TypeOK'
  <2>1. CASE UseCache(d)
    BY <2>1 DEF UseCache
  <2>2. CASE ReceiveUDP(d)
    BY <2>2 DEF ReceiveUDP
  <2>3. CASE AwaitLateReplies(d)
    BY <2>3 DEF AwaitLateReplies
  <2>4. CASE WaitForLateReplies(d)
    BY <2>4 DEF WaitForLateReplies
  <2>5. CASE FinishLookup(d)
    BY <2>5 DEF FinishLookup
  <2>6. CASE FanOut(d)
    BY <2>6 DEF FanOut, StartFlows
  <2>7. QED
    BY <1>1, <2>1, <2>2, <2>3, <2>4, <2>5, <2>6 DEF ResolversStep
<1>2. ASSUME NEW d \in Depths, SelectorStep(d)
      PROVE  TypeOK'
  <2>1. CASE Expire(d)
    BY <2>1 DEF Expire
  <2>2. CASE StopSelector(d)
    BY <2>2 DEF StopSelector
  <2>3. QED
    BY <1>2, <2>1, <2>2 DEF SelectorStep
<1>3. ASSUME NEW f \in Flows, FlowStep(f)
      PROVE  TypeOK'
  <2>1. CASE Connect(f)
    BY <2>1 DEF Connect
  <2>2. CASE StopFlow(f)
    BY <2>2 DEF StopFlow, EndFlow
  <2>3. CASE Ask(f)
    <3>1. f[1] \in Depths
      BY FlowParts
    <3>2. Append(selector[f[1]].reqs, f) \in Seq(Flows) /\ <<f>> \in Seq(Flows)
      BY <3>1
    <3>3. selector' \in [Depths -> [at : {"off", "idle", "collect", "over"}, reqs : Seq(Flows)]]
      <4>1. CASE selector' = [selector EXCEPT ![f[1]].at = "over"]
        BY <4>1
      <4>2. CASE selector' = [selector EXCEPT ![f[1]] = [at |-> "collect", reqs |-> <<f>>]]
        BY <3>2, <4>2
      <4>3. CASE selector' = [selector EXCEPT ![f[1]].reqs = Append(@, f)]
        <5>1. selector[f[1]] \in [at : {"off", "idle", "collect", "over"}, reqs : Seq(Flows)]
          BY <3>1
        <5>2. [selector[f[1]] EXCEPT !.reqs = Append(@, f)]
                \in [at : {"off", "idle", "collect", "over"}, reqs : Seq(Flows)]
          BY <3>2, <5>1
        <5>3. QED
          BY <4>3, <5>2
      <4>4. QED
        BY <2>3, <4>1, <4>2, <4>3 DEF Ask
    <3>4. answer' \in [Flows -> {"none", "yes", "no"}] /\ flow' \in [Flows -> FlowStates]
      BY <2>3 DEF Ask
    <3>5. QED
      BY <2>3, <3>3, <3>4 DEF Ask
  <2>4. CASE SendTimeout(f)
    BY <2>4 DEF SendTimeout, EndFlow
  <2>5. CASE ReceiveTimeout(f)
    BY <2>5 DEF ReceiveTimeout, EndFlow
  <2>6. CASE NotPermitted(f)
    BY <2>6 DEF NotPermitted, EndFlow
  <2>7. CASE Permitted(f)
    BY <2>7 DEF Permitted
  <2>8. CASE CannotRequest(f)
    BY <2>8, FlowParts DEF CannotRequest, EndFlow
  <2>9. CASE Fetch(f)
    <3>1. requests' \in Seq([flow : Flows, outcome : Outcomes])
      BY <2>9, RequestPrepended DEF Fetch, Outcomes
    <3>2. QED
      BY <2>9, <3>1 DEF Fetch, EndFlow, Outcomes
  <2>10. ASSUME NEW u \in Urls, FollowRedirect(f, u)
         PROVE  TypeOK'
    <3>1. requests' \in Seq([flow : Flows, outcome : Outcomes])
      BY <2>10, RequestPrepended DEF FollowRedirect, Outcomes
    <3>2. url' \in [Depths -> Urls \cup Starts \cup {NoUrl}]
      BY <2>10 DEF FollowRedirect
    <3>3. resolvers' \in [Depths ->
                           {"off", "started", "lookup", "received", "resolved", "done"}]
      BY <2>10 DEF FollowRedirect
    <3>4. flow' \in [Flows -> FlowStates] /\ left' \in Int
      BY <2>10 DEF FollowRedirect
    <3>5. QED
      BY <2>10, <3>1, <3>2, <3>3, <3>4 DEF FollowRedirect, Outcomes
  <2>11. QED
    BY <1>3, <2>1, <2>2, <2>3, <2>4, <2>5, <2>6, <2>7, <2>8, <2>9, <2>10 DEF FlowStep
<1>4. CASE ControlStep
  BY <1>4 DEF ControlStep, ControlAnswers, ControlFails, StartFlows
<1>5. CASE RunStep
  BY <1>5 DEF RunStep, Join, Return
<1>6. CASE Cancel
  BY <1>6 DEF Cancel
<1>7. CASE UNCHANGED vars
  BY <1>7 DEF vars
<1>8. QED
  BY <1>1, <1>2, <1>3, <1>4, <1>5, <1>6, <1>7 DEF Next

-----------------------------------------------------------------------------
(* The chain of redirects.                                                 *)

\* The flow that fetches is of the last step that has started, and that step
\* has no request yet.
LEMMA FetchIsLast ==
  ASSUME IInv, NEW f \in Flows, flow[f] = "fetch"
  PROVE  ~ Ended /\ f[1] = Len(requests)
<1>1. f[1] \in Depths /\ f[1] \in Nat
  BY FlowParts, DepthsAreNaturals
<1>2. Len(requests) \in Nat /\ DOMAIN requests = 1 .. Len(requests)
  BY RequestsOfFlows DEF IInv
<1>3. answer[f] = "yes" /\ resolvers[f[1]] = "done"
  BY DEF IInv, Granted, StepsStart
<1>4. ~(f[1] < Len(requests))
  <2> SUFFICES ASSUME f[1] < Len(requests)
               PROVE  FALSE
    OBVIOUS
  <2> DEFINE i == Len(requests) - f[1]
             g == requests[i].flow
  <2>1. i \in DOMAIN requests
    BY <1>1, <1>2
  <2>2. g \in Flows /\ g[1] = f[1]
    <3>1. \A j \in DOMAIN requests : requests[j].flow \in Flows
      BY RequestsOfFlows DEF IInv
    <3>2. g[1] = Len(requests) - i
      BY <2>1 DEF IInv, RequestsInOrder
    <3>3. Len(requests) - i = f[1]
      BY <1>1, <1>2
    <3>4. QED
      BY <2>1, <3>1, <3>2, <3>3
  <2>3. answer[g] = "yes" /\ flow[g] = "done"
    BY <2>1 DEF IInv, RequestsMade
  <2>4. QED
    BY <1>3, <2>2, <2>3 DEF IInv, Granted
<1>5. IF Ended THEN f[1] < Len(requests) ELSE f[1] <= Len(requests)
  BY <1>1, <1>3 DEF IInv, Chain
<1>6. QED
  BY <1>1, <1>2, <1>4, <1>5

\* The step that a redirect starts is one that may be, and that is off.
LEMMA NextStepIsOff ==
  ASSUME IInv, NEW f \in Flows, NEW u \in Urls, FollowRedirect(f, u)
  PROVE  f[1] + 1 \in Depths /\ resolvers[f[1] + 1] = "off"
<1>1. ~ Ended /\ f[1] = Len(requests) /\ Len(requests) \in Nat
  BY FetchIsLast DEF FollowRedirect, IInv, TypeOK
<1>2. left = MaxRedirects - Len(requests) /\ left > 0
  BY <1>1 DEF IInv, Chain, FollowRedirect
<1>3. f[1] + 1 \in Depths
  BY <1>1, <1>2, MaxRedirectsAssumption DEF Depths
<1>4. QED
  BY <1>1, <1>3 DEF IInv, Chain

\* The chain grows by a step with a redirect, and ends otherwise.
LEMMA ChainInv ==
  ASSUME IInv, [Next]_vars
  PROVE  Chain'
<1>1. CASE UNCHANGED <<resolvers, requests, left, url>>
  BY <1>1 DEF IInv, Chain, Ended
<1>2. ASSUME NEW d \in Depths, ResolversStep(d), UNCHANGED <<requests, left, url>>
      PROVE  Chain'
  <2>1. \A e \in Depths : resolvers'[e] # "off" <=> resolvers[e] # "off"
    BY <1>2 DEF IInv, TypeOK, ResolversStep, UseCache, ReceiveUDP, AwaitLateReplies,
               WaitForLateReplies, FinishLookup, FanOut
  <2>2. QED
    BY <1>2, <2>1 DEF IInv, Chain, Ended
<1>3. ASSUME NEW f \in Flows, Fetch(f)
      PROVE  Chain'
  <2>1. ~ Ended /\ f[1] = Len(requests) /\ UNCHANGED <<resolvers, url>>
    BY <1>3, FetchIsLast DEF Fetch
  <2>2. PICK outcome \in {"page", "error"} : PrependRequests(f, outcome)
    BY <1>3 DEF Fetch
  <2>3. /\ Len(requests') = Len(requests) + 1 /\ Len(requests) \in Nat
        /\ requests'[1] = [flow |-> f, outcome |-> outcome]
        /\ requests' \in Seq([flow : Flows, outcome : Outcomes])
    BY <2>2, RequestPrepended DEF IInv, Outcomes
  <2>4. Ended'
    <3>1. requests' # << >>
      BY <2>3
    <3>2. requests'[1].outcome # "redirect"
      BY <2>3
    <3>3. QED
      BY <3>1, <3>2 DEF Ended
  <2>5. \A d \in Depths : resolvers[d] # "off" <=> d <= Len(requests)
    BY <2>1 DEF IInv, Chain
  <2>6. QED
    BY <2>1, <2>3, <2>4, <2>5, DepthsAreNaturals DEF IInv, Chain
<1>4. ASSUME NEW f \in Flows, NEW u \in Urls, FollowRedirect(f, u)
      PROVE  Chain'
  <2>1. ~ Ended /\ f[1] = Len(requests)
    BY <1>4, FetchIsLast DEF FollowRedirect
  <2>2. /\ Len(requests') = Len(requests) + 1 /\ Len(requests) \in Nat
        /\ requests'[1] = [flow |-> f, outcome |-> "redirect"]
    BY <1>4, RequestPrepended DEF IInv, Outcomes, FollowRedirect
  <2>3. ~ Ended'
    BY <2>2 DEF Ended
  <2>4. f[1] + 1 \in Depths
    BY <1>4, NextStepIsOff
  <2>5. /\ \A d \in Depths : resolvers[d] # "off" <=> d <= Len(requests)
        /\ \A d \in Depths : resolvers[d] # "off" => url[d] \in Urls \cup Starts
        /\ left = MaxRedirects - Len(requests)
    BY <2>1 DEF IInv, Chain
  <2>6. /\ resolvers' = [resolvers EXCEPT ![f[1] + 1] = "started"]
        /\ url' = [url EXCEPT ![f[1] + 1] = u]
        /\ left' = left - 1
        /\ resolvers \in [Depths -> {"off", "started", "lookup", "received", "resolved", "done"}]
        /\ url \in [Depths -> Urls \cup Starts \cup {NoUrl}]
    BY <1>4 DEF FollowRedirect, IInv, TypeOK
  <2>7. \A d \in Depths : resolvers'[d] # "off" <=> d <= Len(requests')
    BY <2>1, <2>2, <2>4, <2>5, <2>6, DepthsAreNaturals
  <2>8. \A d \in Depths : resolvers'[d] # "off" => url'[d] \in Urls \cup Starts
    BY <2>5, <2>6
  <2>9. Len(requests') <= MaxRedirects /\ left' = MaxRedirects - Len(requests')
    BY <2>1, <2>2, <2>4, <2>5, <2>6, MaxRedirectsAssumption DEF Depths
  <2>10. QED
    BY <2>3, <2>7, <2>8, <2>9 DEF Chain
<1>5. QED
  BY <1>1, <1>2, <1>3, <1>4
     DEF Next, vars, ResolversStep, UseCache, ReceiveUDP, AwaitLateReplies, WaitForLateReplies,
         FinishLookup, FanOut, SelectorStep, Expire, StopSelector, FlowStep, Connect, StopFlow,
         Ask, SendTimeout, ReceiveTimeout, NotPermitted, Permitted, CannotRequest, ControlStep,
         ControlAnswers, ControlFails, RunStep, Join, Return, Cancel

\* What a step starts, it starts in turn.
LEMMA StepsStartInv ==
  ASSUME IInv, [Next]_vars
  PROVE  StepsStart'
<1>1. CASE UNCHANGED <<resolvers, udp, selector, flow>>
  BY <1>1 DEF IInv, StepsStart
<1>2. ASSUME NEW d \in Depths, ResolversStep(d)
      PROVE  StepsStart'
  <2>1. CASE FanOut(d)
    <3>1. \A f \in FlowsFor(d, Resolved(d)) : f[1] = d
      BY <2>1, ResolvedAddrs, FlowsForAddrs DEF FanOut, IInv
    <3>2. QED
      BY <2>1, <3>1, FlowParts DEF FanOut, StartFlows, IInv, TypeOK, StepsStart
  <2>2. CASE UseCache(d) \/ ReceiveUDP(d) \/ FinishLookup(d)
    <3>1. UNCHANGED <<selector, flow>> /\ resolvers[d] \notin {"off", "done"}
      BY <2>2 DEF UseCache, ReceiveUDP, FinishLookup
    <3>2. \A e \in Depths \ {d} : resolvers'[e] = resolvers[e] /\ udp'[e] = udp[e]
      BY <2>2 DEF UseCache, ReceiveUDP, FinishLookup, IInv, TypeOK
    <3>3. resolvers'[d] \notin {"off", "started", "done"}
      BY <2>2 DEF UseCache, ReceiveUDP, FinishLookup, IInv, TypeOK
    <3>4. QED
      BY <3>1, <3>2, <3>3, FlowParts DEF IInv, StepsStart
  <2>3. CASE AwaitLateReplies(d) \/ WaitForLateReplies(d)
    BY <2>3 DEF AwaitLateReplies, WaitForLateReplies, IInv, TypeOK, StepsStart
  <2>4. QED
    BY <1>2, <2>1, <2>2, <2>3 DEF ResolversStep
<1>3. ASSUME NEW d \in Depths, SelectorStep(d)
      PROVE  StepsStart'
  <2>1. /\ UNCHANGED <<resolvers, udp, flow>>
        /\ selector[d].at # "off"
        /\ \A e \in Depths \ {d} : selector'[e] = selector[e]
    BY <1>3 DEF SelectorStep, Expire, StopSelector, IInv, TypeOK
  <2>2. QED
    BY <2>1 DEF IInv, StepsStart
<1>4. ASSUME NEW f \in Flows, NEW u \in Urls, FollowRedirect(f, u)
      PROVE  StepsStart'
  <2>1. f[1] + 1 \in Depths /\ resolvers[f[1] + 1] = "off"
    BY <1>4, NextStepIsOff
  <2>2. QED
    BY <1>4, <2>1, FlowParts DEF FollowRedirect, IInv, TypeOK, StepsStart
<1>5. ASSUME NEW f \in Flows, FlowStep(f), UNCHANGED <<resolvers, udp>>
      PROVE  StepsStart'
  <2>1. flow[f] # "off" /\ \A g \in Flows \ {f} : flow'[g] = flow[g]
    BY <1>5 DEF FlowStep, Connect, StopFlow, Ask, SendTimeout, ReceiveTimeout, NotPermitted,
               Permitted, CannotRequest, Fetch, FollowRedirect, EndFlow, IInv, TypeOK
  <2>2. \A d \in Depths : selector'[d].at # selector[d].at => selector[d].at # "off"
    BY <1>5 DEF FlowStep, Connect, StopFlow, Ask, SendTimeout, ReceiveTimeout, NotPermitted,
               Permitted, CannotRequest, Fetch, FollowRedirect, IInv, TypeOK
  <2>3. QED
    BY <1>5, <2>1, <2>2 DEF IInv, StepsStart
<1>6. CASE ControlStep
  <2>1. resolvers[0] = "done" /\ 0 \in Depths
    BY <1>6, DepthsAreNaturals DEF ControlStep, ControlAnswers, ControlFails, IInv, Addresses
  <2>2. Resolved(0) \subseteq Addrs /\ world.th \subseteq Addrs
    BY <2>1, ResolvedAddrs, WorldsAssumption DEF IInv, TypeOK
  <2>3. \A f \in FlowsFor(0, world.th \ Resolved(0)) : f[1] = 0
    BY <2>1, <2>2, FlowsForAddrs
  <2>4. \A f \in Flows : flow'[f] # "off" => flow[f] # "off" \/ f[1] = 0
    BY <1>6, <2>3 DEF ControlStep, ControlAnswers, ControlFails, StartFlows
  <2>5. UNCHANGED <<resolvers, udp, selector>>
    BY <1>6 DEF ControlStep, ControlAnswers, ControlFails
  <2>6. QED
    BY <2>1, <2>4, <2>5 DEF IInv, StepsStart
<1>7. ASSUME NEW f \in Flows, FlowStep(f)
      PROVE  (\E u \in Urls : FollowRedirect(f, u)) \/ UNCHANGED <<resolvers, udp>>
  BY <1>7 DEF FlowStep, Connect, StopFlow, Ask, SendTimeout, ReceiveTimeout, NotPermitted,
              Permitted, CannotRequest, Fetch
<1>8. CASE RunStep \/ Cancel \/ UNCHANGED vars
  BY <1>1, <1>8 DEF RunStep, Join, Return, Cancel, vars
<1>9. QED
  BY <1>2, <1>3, <1>4, <1>5, <1>6, <1>7, <1>8 DEF Next

-----------------------------------------------------------------------------
(* The flows that are started, and the permissions to fetch.               *)

\* The flows that a step starts were off.
LEMMA FanOutStarts ==
  ASSUME IInv, NEW d \in Depths, FanOut(d)
  PROVE  /\ FlowsFor(d, Resolved(d)) \subseteq Flows
         /\ \A f \in FlowsFor(d, Resolved(d)) : flow[f] = "off" /\ f[1] = d
         /\ \A a \in Resolved(d) : <<d, a, TRUE>> \in FlowsFor(d, Resolved(d))
<1>1. resolvers[d] = "resolved"
  BY DEF FanOut
<1>2. Resolved(d) \subseteq Addrs
  BY <1>1, ResolvedAddrs DEF IInv
<1> DEFINE fs == FlowsFor(d, Resolved(d))
<1>3. /\ fs \subseteq Flows
      /\ \A f \in fs : f[1] = d
      /\ \A a \in Resolved(d) : <<d, a, TRUE>> \in fs
  BY <1>2, FlowsForAddrs
<1>4. \A f \in fs : flow[f] = "off"
  BY <1>1, <1>3 DEF IInv, StepsStart
<1>5. QED
  BY <1>3, <1>4

\* So were those for the addresses that only the test helper knows.
LEMMA ControlStarts ==
  ASSUME IInv, ControlAnswers
  PROVE  LET fs == FlowsFor(0, world.th \ Resolved(0)) IN
         /\ fs \subseteq Flows
         /\ \A f \in fs : flow[f] = "off" /\ f[1] = 0
         /\ \A a \in world.th \ Resolved(0) : <<0, a, TRUE>> \in fs
<1>1. resolvers[0] = "done" /\ 0 \in Depths /\ control = "started"
  BY DepthsAreNaturals DEF ControlAnswers, IInv, Addresses
<1>2. Resolved(0) \subseteq Addrs /\ world.th \subseteq Addrs
  BY <1>1, ResolvedAddrs, WorldsAssumption DEF IInv, TypeOK
<1> DEFINE fs == FlowsFor(0, world.th \ Resolved(0))
<1>3. /\ fs \subseteq Flows
      /\ \A f \in fs : f[1] = 0 /\ f[2] \in world.th \ Resolved(0)
      /\ \A a \in world.th \ Resolved(0) : <<0, a, TRUE>> \in fs
  <2>1. world.th \ Resolved(0) \subseteq Addrs
    BY <1>2
  <2>2. QED
    BY <1>1, <2>1, FlowsForAddrs
<1>4. \A f \in fs : flow[f] = "off"
  BY <1>1, <1>3 DEF IInv, Addresses
<1>5. QED
  BY <1>3, <1>4

\* A flow that has started is not started again.
LEMMA StartedStays ==
  ASSUME IInv, ControlAnswers \/ \E d \in Depths : FanOut(d),
         NEW f \in Flows, flow[f] # "off"
  PROVE  flow'[f] = flow[f]
<1>1. CASE ControlAnswers
  <2> DEFINE fs == FlowsFor(0, world.th \ Resolved(0))
  <2>1. \A g \in fs : flow[g] = "off"
    BY <1>1, ControlStarts
  <2>2. flow' = [g \in Flows |-> IF g \in fs THEN "connect" ELSE flow[g]]
    BY <1>1 DEF ControlAnswers, StartFlows
  <2>3. QED
    BY <2>1, <2>2
<1>2. ASSUME NEW d \in Depths, FanOut(d)
      PROVE  flow'[f] = flow[f]
  <2> DEFINE fs == FlowsFor(d, Resolved(d))
  <2>1. \A g \in fs : flow[g] = "off"
    BY <1>2, FanOutStarts
  <2>2. flow' = [g \in Flows |-> IF g \in fs THEN "connect" ELSE flow[g]]
    BY <1>2 DEF FanOut, StartFlows
  <2>3. QED
    BY <2>1, <2>2
<1>3. QED
  BY <1>1, <1>2

\* What selectors hold.
LEMMA CollectedInv ==
  ASSUME IInv, [Next]_vars
  PROVE  Collected'
<1> USE DEF IInv
<1>0. \A d \in Depths : \A i \in DOMAIN selector[d].reqs : selector[d].reqs[i] \in Flows
  BY DEF TypeOK
<1>1. CASE UNCHANGED <<selector, flow>>
  BY <1>1 DEF Collected
<1>2. ASSUME NEW d \in Depths, FanOut(d)
      PROVE  Collected'
  <2>1. \A e \in Depths : selector'[e].reqs = selector[e].reqs
    BY <1>2 DEF FanOut, TypeOK
  <2>2. selector[d].at = "off" /\ selector'[d].at = "idle"
    BY <1>2 DEF FanOut, TypeOK, StepsStart
  <2>3. \A e \in Depths \ {d} : selector'[e] = selector[e]
    BY <1>2 DEF FanOut, TypeOK
  <2>4. QED
    BY <1>0, <1>2, <2>1, <2>2, <2>3, StartedStays DEF Collected
<1>3. CASE ControlAnswers
  BY <1>0, <1>3, StartedStays DEF Collected, ControlAnswers
<1>4. ASSUME NEW d \in Depths, SelectorStep(d)
      PROVE  Collected'
  <2>1. UNCHANGED flow /\ selector' = [selector EXCEPT ![d].at = "over"]
    BY <1>4 DEF SelectorStep, Expire, StopSelector
  <2>2. QED
    BY <2>1 DEF Collected, TypeOK
<1>5. ASSUME NEW f \in Flows, Ask(f)
      PROVE  Collected'
  <2>1. f[1] \in Depths /\ flow[f] = "ask" /\ flow' = [flow EXCEPT ![f] = "asked"]
    BY <1>5, FlowParts DEF Ask
  <2>2. \A d \in Depths \ {f[1]} : selector'[d] = selector[d]
    BY <1>5 DEF Ask, TypeOK
  <2>3. \A g \in Flows : flow[g] \in {"asked", "fetch", "done"} =>
                         flow'[g] \in {"asked", "fetch", "done"}
    BY <2>1 DEF TypeOK
  <2>4. flow'[f] = "asked"
    BY <2>1 DEF TypeOK
  <2>5. CASE selector'[f[1]].reqs = selector[f[1]].reqs /\ selector'[f[1]].at = "over"
    BY <1>0, <2>1, <2>2, <2>3, <2>5 DEF Collected
  <2>6. CASE selector'[f[1]] = [at |-> "collect", reqs |-> <<f>>]
    BY <1>0, <2>1, <2>2, <2>3, <2>4, <2>6 DEF Collected
  <2>7. CASE selector[f[1]].at = "collect" /\ selector'[f[1]].at = "collect"
             /\ selector'[f[1]].reqs = Append(selector[f[1]].reqs, f)
    <3> DEFINE reqs == selector[f[1]].reqs
    <3>1. reqs \in Seq(Flows)
      BY <2>1 DEF TypeOK
    <3> HIDE DEF reqs
    <3>2. /\ selector'[f[1]].reqs # << >>
          /\ \A i \in DOMAIN selector'[f[1]].reqs :
               \/ selector'[f[1]].reqs[i] = f
               \/ i \in DOMAIN reqs /\ selector'[f[1]].reqs[i] = reqs[i]
      <4>1. selector'[f[1]].reqs = Append(reqs, f)
        BY <2>7 DEF reqs
      <4>2. /\ Append(reqs, f) # << >>
            /\ \A i \in DOMAIN Append(reqs, f) :
                 Append(reqs, f)[i] = f \/ (i \in DOMAIN reqs /\ Append(reqs, f)[i] = reqs[i])
        BY <3>1, Appended
      <4>3. QED
        BY <4>1, <4>2, Zenon
    <3>3. \A i \in DOMAIN reqs : reqs[i] \in Flows /\ reqs[i][1] = f[1]
                                /\ flow[reqs[i]] \in {"asked", "fetch", "done"}
      BY <1>0, <2>1 DEF Collected, reqs
    <3>4. \A i \in DOMAIN selector'[f[1]].reqs :
            LET g == selector'[f[1]].reqs[i] IN
            g[1] = f[1] /\ flow'[g] \in {"asked", "fetch", "done"}
      BY <2>3, <2>4, <3>2, <3>3
    <3>5. \A d \in Depths \ {f[1]} : \A i \in DOMAIN selector'[d].reqs :
            LET g == selector'[d].reqs[i] IN
            g[1] = d /\ flow'[g] \in {"asked", "fetch", "done"}
      BY <1>0, <2>2, <2>3 DEF Collected
    <3>6. /\ \A d \in Depths : selector'[d].at = "collect" => selector'[d].reqs # << >>
          /\ \A d \in Depths : selector'[d].at \in {"off", "idle"} => selector'[d].reqs = << >>
      BY <2>2, <2>7, <3>2 DEF Collected
    <3>7. QED
      BY <3>4, <3>5, <3>6 DEF Collected
  <2>8. /\ selector \in [Depths -> [at : {"off", "idle", "collect", "over"}, reqs : Seq(Flows)]]
        /\ \/ selector' = [selector EXCEPT ![f[1]].at = "over"]
           \/ selector' = [selector EXCEPT ![f[1]] = [at |-> "collect", reqs |-> <<f>>]]
           \/ /\ selector[f[1]].at = "collect"
              /\ selector' = [selector EXCEPT ![f[1]].reqs = Append(@, f)]
    BY <1>5 DEF Ask, TypeOK
  <2>9. CASE selector' = [selector EXCEPT ![f[1]].at = "over"]
    BY <2>1, <2>5, <2>8, <2>9
  <2>10. CASE selector' = [selector EXCEPT ![f[1]] = [at |-> "collect", reqs |-> <<f>>]]
    BY <2>1, <2>6, <2>8, <2>10
  <2>11. CASE /\ selector[f[1]].at = "collect"
              /\ selector' = [selector EXCEPT ![f[1]].reqs = Append(@, f)]
    BY <2>1, <2>7, <2>8, <2>11
  <2>12. QED
    BY <2>8, <2>9, <2>10, <2>11
<1>6. ASSUME NEW f \in Flows, FlowStep(f), ~ Ask(f)
      PROVE  Collected'
  <2>1. UNCHANGED selector
    BY <1>6 DEF FlowStep, Connect, StopFlow, SendTimeout, ReceiveTimeout, NotPermitted,
               Permitted, CannotRequest, Fetch, FollowRedirect
  <2>2. \A g \in Flows : flow[g] \in {"asked", "fetch", "done"} =>
                         flow'[g] \in {"asked", "fetch", "done"}
    BY <1>6 DEF FlowStep, Connect, StopFlow, SendTimeout, ReceiveTimeout, NotPermitted,
               Permitted, CannotRequest, Fetch, FollowRedirect, EndFlow, TypeOK
  <2>3. QED
    BY <1>0, <2>1, <2>2 DEF Collected
<1>7. QED
  BY <1>1, <1>2, <1>3, <1>4, <1>5, <1>6
     DEF Next, vars, ResolversStep, UseCache, ReceiveUDP, AwaitLateReplies, WaitForLateReplies,
         FinishLookup, ControlStep, ControlFails, RunStep, Join, Return, Cancel

\* What Expire answers: one request is granted, those that were collected with
\* it are not, and nobody else is told anything.
LEMMA ExpireAnswers ==
  ASSUME IInv, NEW d \in Depths, Expire(d)
  PROVE  \E best \in Flows :
           /\ best[1] = d
           /\ flow[best] \in {"asked", "fetch", "done"}
           /\ \E i \in DOMAIN selector[d].reqs : best = selector[d].reqs[i]
           /\ (\E i \in DOMAIN selector[d].reqs : IsHighestPriority(selector[d].reqs[i])) =>
                IsHighestPriority(best)
           /\ selector[d].reqs # << >>
           /\ (\A i \in DOMAIN selector[d].reqs : ~ IsHighestPriority(selector[d].reqs[i])) =>
                best = selector[d].reqs[1]
           /\ answer'[best] = "yes"
           /\ \A f \in Flows \ {best} :
                \/ answer'[f] = answer[f]
                \/ answer'[f] = "no" /\ f[1] = d /\ flow[f] \in {"asked", "fetch", "done"}
<1> DEFINE reqs == selector[d].reqs
           best == FindHighestPriority(reqs)
           collected == {reqs[i] : i \in DOMAIN reqs}
<1>1. reqs \in Seq(Flows) /\ reqs # << >>
  BY DEF Expire, IInv, TypeOK, Collected
<1>2. \A f \in collected : f \in Flows /\ f[1] = d /\ flow[f] \in {"asked", "fetch", "done"}
  BY <1>1 DEF IInv, Collected
<1>3. /\ best \in collected
      /\ (\E i \in DOMAIN reqs : IsHighestPriority(reqs[i])) => IsHighestPriority(best)
      /\ (\A i \in DOMAIN reqs : ~ IsHighestPriority(reqs[i])) => best = reqs[1]
  <2> HIDE DEF reqs
  <2>1. \E i \in DOMAIN reqs : best = reqs[i]
    BY <1>1, HighestPriorityFound
  <2>2. (\E i \in DOMAIN reqs : IsHighestPriority(reqs[i])) => IsHighestPriority(best)
    BY <1>1, HighestPriorityFound
  <2>3. (\A i \in DOMAIN reqs : ~ IsHighestPriority(reqs[i])) => best = reqs[1]
    BY <1>1, HighestPriorityFound
  <2>4. QED
    BY <2>1, <2>2, <2>3
<1>4. answer' = [f \in Flows |-> CASE f = best -> "yes"
                                   [] f \in collected \ {best} -> "no"
                                   [] OTHER -> answer[f]]
  BY DEF Expire
<1> HIDE DEF best, collected
<1>5. answer'[best] = "yes"
  BY <1>2, <1>3, <1>4
<1>6. \A f \in Flows \ {best} :
        answer'[f] = answer[f] \/ (answer'[f] = "no" /\ f \in collected)
  BY <1>4
<1>7. \E i \in DOMAIN selector[d].reqs : best = selector[d].reqs[i]
  BY <1>3 DEF collected
<1>8. QED
  BY <1>2, <1>3, <1>5, <1>6, <1>7

\* What Ask does to its own request, and to the others: nothing.
LEMMA AskAnswers ==
  ASSUME IInv, NEW f \in Flows, Ask(f)
  PROVE  /\ flow[f] = "ask" /\ flow' = [flow EXCEPT ![f] = "asked"]
         /\ f[1] \in Depths
         /\ \A d \in Depths \ {f[1]} : selector'[d] = selector[d]
         /\ selector[f[1]].at \in {"idle", "collect"}
         /\ \A g \in Flows \ {f} : answer'[g] = answer[g]
         /\ \/ /\ answer'[f] = "yes" /\ IsHighestPriority(f)
               /\ selector'[f[1]].at = "over" /\ selector'[f[1]].reqs = << >>
            \/ /\ answer'[f] = answer[f]
               /\ selector'[f[1]].at = "collect"
<1>1. f[1] \in Depths
  BY FlowParts
<1>2. \A d \in Depths \ {f[1]} : selector'[d] = selector[d]
  BY DEF Ask, IInv, TypeOK
<1>3. selector[f[1]].at \in {"idle", "collect"} /\ \A g \in Flows \ {f} : answer'[g] = answer[g]
  BY DEF Ask, IInv, TypeOK
<1>4. \/ /\ answer'[f] = "yes" /\ IsHighestPriority(f)
         /\ selector'[f[1]].at = "over" /\ selector'[f[1]].reqs = << >>
      \/ answer'[f] = answer[f] /\ selector'[f[1]].at = "collect"
  BY <1>1 DEF Ask, IInv, TypeOK, Collected
<1>5. QED
  BY <1>1, <1>2, <1>3, <1>4 DEF Ask

\* A step gives one permission, and only as its last act.
LEMMA GrantedInv ==
  ASSUME IInv, [Next]_vars
  PROVE  Granted'
<1> USE DEF IInv
<1>1. CASE UNCHANGED <<selector, flow, answer>>
  BY <1>1 DEF Granted
<1>2. ASSUME NEW d \in Depths, FanOut(d)
      PROVE  Granted'
  <2>1. \A e \in Depths : selector[e].at = "over" => selector'[e].at = "over"
    BY <1>2 DEF FanOut, TypeOK, StepsStart
  <2>2. UNCHANGED answer
    BY <1>2 DEF FanOut
  <2>3. \A f \in Flows : flow[f] # "off" => flow'[f] = flow[f]
    BY <1>2, StartedStays
  <2>4. \A f \in Flows : flow'[f] = "fetch" => flow[f] = "fetch"
    BY <1>2 DEF FanOut, StartFlows
  <2>5. QED
    BY <2>1, <2>2, <2>3, <2>4, FlowParts DEF Granted
<1>3. CASE ControlAnswers
  <2>1. UNCHANGED <<selector, answer>>
    BY <1>3 DEF ControlAnswers
  <2>2. \A f \in Flows : flow[f] # "off" => flow'[f] = flow[f]
    BY <1>3, StartedStays
  <2>3. \A f \in Flows : flow'[f] = "fetch" => flow[f] = "fetch"
    BY <1>3 DEF ControlAnswers, StartFlows
  <2>4. QED
    BY <2>1, <2>2, <2>3 DEF Granted
<1>4. ASSUME NEW d \in Depths, Expire(d)
      PROVE  Granted'
  <2>1. PICK best \in Flows :
           /\ best[1] = d
           /\ flow[best] \in {"asked", "fetch", "done"}
           /\ answer'[best] = "yes"
           /\ \A f \in Flows \ {best} :
                \/ answer'[f] = answer[f]
                \/ answer'[f] = "no" /\ f[1] = d /\ flow[f] \in {"asked", "fetch", "done"}
    BY <1>4, ExpireAnswers
  <2>2. \A f \in Flows : f[1] = d => answer[f] = "none"
    BY <1>4 DEF Expire, Granted, TypeOK
  <2>3. UNCHANGED flow /\ selector'[d].at = "over"
    BY <1>4 DEF Expire, TypeOK
  <2>4. \A e \in Depths \ {d} : selector'[e] = selector[e]
    BY <1>4 DEF Expire, TypeOK
  <2>5. \A f \in Flows : answer'[f] # "none" =>
          selector'[f[1]].at = "over" /\ flow'[f] \in {"asked", "fetch", "done"}
    BY <2>1, <2>3, <2>4, FlowParts DEF Granted
  <2>6. \A f \in Flows : flow'[f] = "fetch" => answer'[f] = "yes"
    BY <2>1, <2>2, <2>3 DEF Granted
  <2>7. \A f, g \in Flows : answer'[f] = "yes" /\ answer'[g] = "yes" /\ f[1] = g[1] => f = g
    BY <2>1, <2>2 DEF Granted
  <2>8. QED
    BY <2>5, <2>6, <2>7 DEF Granted
<1>5. ASSUME NEW d \in Depths, StopSelector(d)
      PROVE  Granted'
  BY <1>5, FlowParts DEF StopSelector, TypeOK, Granted
<1>6. ASSUME NEW f \in Flows, Ask(f)
      PROVE  Granted'
  <2>1. /\ flow[f] = "ask" /\ flow' = [flow EXCEPT ![f] = "asked"]
        /\ f[1] \in Depths
        /\ \A d \in Depths \ {f[1]} : selector'[d] = selector[d]
        /\ selector[f[1]].at \in {"idle", "collect"}
        /\ \A g \in Flows \ {f} : answer'[g] = answer[g]
        /\ \/ answer'[f] = "yes" /\ selector'[f[1]].at = "over"
           \/ answer'[f] = answer[f] /\ selector'[f[1]].at = "collect"
    BY <1>6, AskAnswers
  <2>2. \A g \in Flows : g[1] = f[1] => answer[g] = "none"
    BY <2>1 DEF Granted, TypeOK
  <2>3. flow'[f] = "asked" /\ \A g \in Flows \ {f} : flow'[g] = flow[g]
    BY <2>1 DEF TypeOK
  <2>4. QED
    BY <2>1, <2>2, <2>3, FlowParts DEF Granted
<1>7. ASSUME NEW f \in Flows, FlowStep(f), ~ Ask(f)
      PROVE  Granted'
  <2>1. UNCHANGED <<selector, answer>>
    BY <1>7 DEF FlowStep, Connect, StopFlow, SendTimeout, ReceiveTimeout, NotPermitted,
               Permitted, CannotRequest, Fetch, FollowRedirect
  <2>2. \A g \in Flows : flow[g] \in {"asked", "fetch", "done"} =>
                         flow'[g] \in {"asked", "fetch", "done"}
    BY <1>7 DEF FlowStep, Connect, StopFlow, SendTimeout, ReceiveTimeout, NotPermitted,
               Permitted, CannotRequest, Fetch, FollowRedirect, EndFlow, TypeOK
  <2>3. \A g \in Flows : flow'[g] = "fetch" => flow[g] = "fetch" \/ answer[g] = "yes"
    BY <1>7 DEF FlowStep, Connect, StopFlow, SendTimeout, ReceiveTimeout, NotPermitted,
               Permitted, CannotRequest, Fetch, FollowRedirect, EndFlow, TypeOK
  <2>4. QED
    BY <2>1, <2>2, <2>3 DEF Granted
<1>8. QED
  BY <1>1, <1>2, <1>3, <1>4, <1>5, <1>6, <1>7
     DEF Next, vars, ResolversStep, UseCache, ReceiveUDP, AwaitLateReplies, WaitForLateReplies,
         FinishLookup, SelectorStep, ControlStep, ControlFails, RunStep, Join, Return, Cancel

\* What is of the highest priority does not change as long as the step's URL
\* does not.
LEMMA PriorityStays ==
  ASSUME UNCHANGED world, NEW f, UNCHANGED url[f[1]]
  PROVE  IsHighestPriority(f)' <=> IsHighestPriority(f)
<1>1. Dns(f[1])' = Dns(f[1])
  BY DEF Dns
<1>2. QED
  BY <1>1 DEF IsHighestPriority

\* A step of the chain keeps the priorities if its URL stays, the others are
\* as they were, and its permission, if it has any, respects them.
LEMMA PriorityFromStep ==
  ASSUME IInv, Collected', TypeOK', UNCHANGED <<world, url>>, NEW d \in Depths,
         \A f \in Flows : f[1] # d =>
           selector'[f[1]].reqs = selector[f[1]].reqs /\ answer'[f] = answer[f],
         \A f \in Flows : f[1] = d /\ answer'[f] = "yes" =>
           \/ IsHighestPriority(f)
           \/ /\ selector'[d].reqs # << >> /\ f = selector'[d].reqs[1]
              /\ \A i \in DOMAIN selector'[d].reqs : ~ IsHighestPriority(selector'[d].reqs[i])
  PROVE  PriorityRespected'
<1>1. \A f : IsHighestPriority(f)' <=> IsHighestPriority(f)
  BY PriorityStays
<1>0. SUFFICES ASSUME NEW f \in Flows, answer'[f] = "yes", ~ IsHighestPriority(f)'
               PROVE  /\ selector'[f[1]].reqs # << >> /\ f = selector'[f[1]].reqs[1]
                      /\ \A i \in DOMAIN selector'[f[1]].reqs :
                            ~ IsHighestPriority(selector[f[1]].reqs[i])'
  BY DEF PriorityRespected
<1>2. /\ ~ IsHighestPriority(f)
      /\ \A i : IsHighestPriority(selector[f[1]].reqs[i])' =>
                IsHighestPriority(selector'[f[1]].reqs[i])
  <2>1. ~ IsHighestPriority(f)
    BY <1>0, <1>1
  <2>2. \A e : Dns(e)' = Dns(e)
    BY DEF Dns
  <2>3. QED
    BY <2>1, <2>2 DEF IsHighestPriority
<1>3. CASE f[1] = d
  BY <1>0, <1>2, <1>3
<1>4. CASE f[1] # d
  BY <1>0, <1>2, <1>4 DEF IInv, PriorityRespected
<1>5. QED
  BY <1>3, <1>4

\* A permission goes to the highest priority or, if the selector holds no
\* request of that, to the request that it received first.
LEMMA PriorityInv ==
  ASSUME IInv, [Next]_vars
  PROVE  PriorityRespected'
<1> USE DEF IInv
<1>0. Collected' /\ TypeOK'
  BY CollectedInv, TypeInv
<1>1. CASE UNCHANGED <<world, url, answer>> /\ \A d \in Depths : selector'[d].reqs = selector[d].reqs
  <2>1. \A f \in Flows : f[1] = 0 /\ answer'[f] = "yes" =>
          \/ IsHighestPriority(f)
          \/ /\ selector'[0].reqs # << >> /\ f = selector'[0].reqs[1]
             /\ \A i \in DOMAIN selector'[0].reqs : ~ IsHighestPriority(selector'[0].reqs[i])
    BY <1>1, DepthsAreNaturals DEF PriorityRespected
  <2>2. 0 \in Depths /\ UNCHANGED <<world, url>>
    BY <1>1, DepthsAreNaturals
  <2>3. \A f \in Flows : f[1] # 0 =>
          selector'[f[1]].reqs = selector[f[1]].reqs /\ answer'[f] = answer[f]
    BY <1>1, FlowParts
  <2>4. QED
    BY <1>0, <2>1, <2>2, <2>3, PriorityFromStep
<1>2. ASSUME NEW d \in Depths, Expire(d)
      PROVE  PriorityRespected'
  <2>1. UNCHANGED <<world, url>> /\ \A e \in Depths : selector'[e].reqs = selector[e].reqs
    BY <1>2 DEF Expire, TypeOK
  <2>2. PICK best \in Flows :
           /\ best[1] = d
           /\ (\E i \in DOMAIN selector[d].reqs : IsHighestPriority(selector[d].reqs[i])) =>
                IsHighestPriority(best)
           /\ selector[d].reqs # << >>
           /\ (\A i \in DOMAIN selector[d].reqs : ~ IsHighestPriority(selector[d].reqs[i])) =>
                best = selector[d].reqs[1]
           /\ answer'[best] = "yes"
           /\ \A f \in Flows \ {best} : answer'[f] = answer[f] \/ (answer'[f] = "no" /\ f[1] = d)
    BY <1>2, ExpireAnswers
  <2>3. \A f \in Flows : f[1] = d => answer[f] = "none"
    BY <1>2 DEF Expire, Granted, TypeOK
  <2>4. \A f \in Flows : f[1] = d /\ answer'[f] = "yes" =>
          \/ IsHighestPriority(f)
          \/ /\ selector'[d].reqs # << >> /\ f = selector'[d].reqs[1]
             /\ \A i \in DOMAIN selector'[d].reqs : ~ IsHighestPriority(selector'[d].reqs[i])
    BY <2>1, <2>2, <2>3
  <2>5. \A f \in Flows : f[1] # d =>
          selector'[f[1]].reqs = selector[f[1]].reqs /\ answer'[f] = answer[f]
    BY <2>1, <2>2, FlowParts
  <2>6. QED
    BY <1>0, <2>1, <2>4, <2>5, PriorityFromStep
<1>3. ASSUME NEW f \in Flows, Ask(f)
      PROVE  PriorityRespected'
  <2>1. /\ f[1] \in Depths
        /\ \A d \in Depths \ {f[1]} : selector'[d] = selector[d]
        /\ selector[f[1]].at \in {"idle", "collect"}
        /\ \A g \in Flows \ {f} : answer'[g] = answer[g]
        /\ (answer'[f] = "yes" /\ IsHighestPriority(f)) \/ answer'[f] = answer[f]
    BY <1>3, AskAnswers
  <2>2. UNCHANGED <<world, url>>
    BY <1>3 DEF Ask
  <2>3. \A g \in Flows : g[1] = f[1] => answer[g] = "none"
    BY <2>1 DEF Granted, TypeOK
  <2>4. \A g \in Flows : g[1] = f[1] /\ answer'[g] = "yes" => IsHighestPriority(g)
    BY <2>1, <2>3
  <2>5. \A g \in Flows : g[1] # f[1] =>
          selector'[g[1]].reqs = selector[g[1]].reqs /\ answer'[g] = answer[g]
    BY <2>1, FlowParts
  <2>6. QED
    BY <1>0, <2>1, <2>2, <2>4, <2>5, PriorityFromStep
<1>4. ASSUME NEW f \in Flows, NEW u \in Urls, FollowRedirect(f, u)
      PROVE  PriorityRespected'
  <2> DEFINE e == f[1] + 1
  <2>1. e \in Depths /\ resolvers[e] = "off"
    BY <1>4, NextStepIsOff
  <2>2. UNCHANGED <<world, selector, answer>> /\ url' = [url EXCEPT ![e] = u]
    BY <1>4 DEF FollowRedirect
  <2>3. \A g \in Flows : answer[g] = "yes" => g[1] # e
    BY <2>1 DEF Granted, StepsStart
  <2>4. \A d \in Depths \ {e} : UNCHANGED url[d]
    BY <2>2 DEF TypeOK
  <2> HIDE DEF e
  <2>5. \A g : g[1] \in Depths \ {e} => (IsHighestPriority(g)' <=> IsHighestPriority(g))
    BY <2>2, <2>4, PriorityStays
  <2>6. SUFFICES ASSUME NEW g \in Flows, answer[g] = "yes", ~ IsHighestPriority(g)'
                 PROVE  /\ selector[g[1]].reqs # << >> /\ g = selector[g[1]].reqs[1]
                        /\ \A i \in DOMAIN selector[g[1]].reqs :
                              ~ IsHighestPriority(selector[g[1]].reqs[i])'
    BY <2>2 DEF PriorityRespected, IsHighestPriority, Dns
  <2>7. /\ g[1] \in Depths \ {e}
        /\ \A i \in DOMAIN selector[g[1]].reqs : selector[g[1]].reqs[i][1] = g[1]
    BY <2>3, <2>6, FlowParts DEF Collected
  <2>8. /\ ~ IsHighestPriority(g)
        /\ selector[g[1]].reqs # << >> /\ g = selector[g[1]].reqs[1]
        /\ \A i \in DOMAIN selector[g[1]].reqs : ~ IsHighestPriority(selector[g[1]].reqs[i])
    BY <2>5, <2>6, <2>7 DEF PriorityRespected
  <2>9. QED
    BY <2>2, <2>5, <2>7, <2>8
<1>5. ASSUME NEW d \in Depths, FanOut(d) \/ StopSelector(d)
      PROVE  PriorityRespected'
  <2>1. UNCHANGED <<world, url, answer>>
    BY <1>5 DEF FanOut, StopSelector
  <2>2. selector' = [selector EXCEPT ![d].at = "idle"]
        \/ selector' = [selector EXCEPT ![d].at = "over"]
    BY <1>5 DEF FanOut, StopSelector
  <2>3. \A e \in Depths : selector'[e].reqs = selector[e].reqs
    <3>1. CASE selector' = [selector EXCEPT ![d].at = "idle"]
      BY <3>1 DEF TypeOK
    <3>2. CASE selector' = [selector EXCEPT ![d].at = "over"]
      BY <3>2 DEF TypeOK
    <3>3. QED
      BY <2>2, <3>1, <3>2
  <2>4. QED
    BY <1>1, <2>1, <2>3
<1>6. ASSUME NEW f \in Flows, FlowStep(f), UNCHANGED <<url, selector, answer>>
      PROVE  PriorityRespected'
  <2>1. UNCHANGED world
    BY <1>6 DEF FlowStep, Connect, StopFlow, SendTimeout, ReceiveTimeout, NotPermitted, Ask,
               Permitted, CannotRequest, Fetch, FollowRedirect
  <2>2. QED
    BY <1>1, <1>6, <2>1
<1>7. QED
  BY <1>1, <1>2, <1>3, <1>4, <1>5, <1>6
     DEF Next, vars, ResolversStep, UseCache, ReceiveUDP, AwaitLateReplies, WaitForLateReplies,
         FinishLookup, SelectorStep, FlowStep, Connect, StopFlow, SendTimeout, ReceiveTimeout,
         NotPermitted, Permitted, CannotRequest, Fetch, ControlStep, ControlAnswers, ControlFails,
         RunStep, Join, Return, Cancel

-----------------------------------------------------------------------------
(* The requests of the measurement.                                        *)

\* A permission is not withdrawn, and a flow that is over stays so.
LEMMA PermissionStays ==
  ASSUME IInv, [Next]_vars, NEW h \in Flows
  PROVE  /\ answer[h] = "yes" => answer'[h] = "yes"
         /\ flow[h] = "done" => flow'[h] = "done"
<1> USE DEF IInv
<1> DEFINE Goal == /\ answer[h] = "yes" => answer'[h] = "yes"
                   /\ flow[h] = "done" => flow'[h] = "done"
<1>1. ASSUME NEW d \in Depths, Expire(d)
      PROVE  Goal
  <2>1. PICK best \in Flows :
           /\ answer'[best] = "yes"
           /\ \A g \in Flows \ {best} : answer'[g] = answer[g] \/ g[1] = d
    BY <1>1, ExpireAnswers
  <2>2. \A g \in Flows : g[1] = d => answer[g] = "none"
    BY <1>1 DEF Expire, Granted, TypeOK
  <2>3. QED
    BY <1>1, <2>1, <2>2 DEF Expire
<1>2. ASSUME NEW d \in Depths, ResolversStep(d) \/ SelectorStep(d)
      PROVE  Goal
  <2>1. CASE FanOut(d)
    BY <2>1, StartedStays DEF FanOut
  <2>2. CASE ~ FanOut(d) /\ ~ Expire(d)
    BY <1>2, <2>2 DEF ResolversStep, UseCache, ReceiveUDP, AwaitLateReplies,
                     WaitForLateReplies, FinishLookup, SelectorStep, StopSelector
  <2>3. QED
    BY <1>1, <2>1, <2>2
<1>3. ASSUME NEW g \in Flows, FlowStep(g)
      PROVE  Goal
  BY <1>3 DEF FlowStep, Connect, StopFlow, SendTimeout, ReceiveTimeout, NotPermitted, Ask,
              Permitted, CannotRequest, Fetch, FollowRedirect, EndFlow, TypeOK
<1>4. CASE ControlStep
  BY <1>4, StartedStays DEF ControlStep, ControlAnswers, ControlFails
<1>5. CASE RunStep \/ Cancel \/ UNCHANGED vars
  BY <1>5 DEF RunStep, Join, Return, Cancel, vars
<1>6. QED
  BY <1>2, <1>3, <1>4, <1>5 DEF Next

\* A request is put in front of those of the steps before its own.
LEMMA RequestsInv ==
  ASSUME IInv, [Next]_vars
  PROVE  RequestsInOrder' /\ RequestsMade'
<1> USE DEF IInv
<1>1. CASE UNCHANGED requests
  <2>1. RequestsInOrder'
    BY <1>1 DEF RequestsInOrder
  <2>2. \A f \in Flows : answer[f] = "yes" /\ flow[f] = "done" =>
                         answer'[f] = "yes" /\ flow'[f] = "done"
    BY PermissionStays
  <2>3. QED
    BY <1>1, <2>1, <2>2, RequestsOfFlows DEF RequestsMade
<1>2. ASSUME NEW f \in Flows, NEW outcome \in Outcomes, flow[f] = "fetch",
             PrependRequests(f, outcome), flow' = [flow EXCEPT ![f] = "done"], UNCHANGED answer
      PROVE  RequestsInOrder' /\ RequestsMade'
  <2>1. ~ Ended /\ f[1] = Len(requests) /\ f[1] \in Depths
    BY <1>2, FetchIsLast, FlowParts
  <2>2. /\ Len(requests') = Len(requests) + 1
        /\ DOMAIN requests' = 1 .. Len(requests) + 1
        /\ requests'[1] = [flow |-> f, outcome |-> outcome]
        /\ \A i \in 2 .. Len(requests) + 1 : requests'[i] = requests[i - 1]
        /\ Len(requests) \in Nat
        /\ DOMAIN requests = 1 .. Len(requests)
    BY <1>2, RequestPrepended
  <2>3. Len(requests') <= MaxRedirects + 1
    BY <2>1, <2>2, MaxRedirectsAssumption DEF Depths
  <2>4. \A i \in DOMAIN requests : requests[i].outcome = "redirect"
    <3>1. requests # << >> => requests[1].outcome = "redirect"
      BY <2>1 DEF Ended
    <3>2. \A i \in DOMAIN requests : i > 1 => requests[i].outcome = "redirect"
      BY DEF RequestsInOrder
    <3>3. QED
      BY <2>2, <3>1, <3>2
  <2>5. \A i \in DOMAIN requests' :
          i = 1 \/ (i - 1 \in DOMAIN requests /\ requests'[i] = requests[i - 1])
    BY <2>2
  <2>6. \A i \in DOMAIN requests' : requests'[i].flow[1] = Len(requests') - i
    <3> SUFFICES ASSUME NEW i \in DOMAIN requests'
                 PROVE  requests'[i].flow[1] = Len(requests') - i
      OBVIOUS
    <3>1. CASE i = 1
      BY <2>1, <2>2, <3>1
    <3>2. CASE i # 1
      <4>1. i - 1 \in DOMAIN requests /\ requests'[i] = requests[i - 1]
        BY <2>5, <3>2
      <4>2. requests[i - 1].flow[1] = Len(requests) - (i - 1)
        BY <4>1 DEF RequestsInOrder
      <4>3. QED
        BY <2>2, <4>1, <4>2
    <3>3. QED
      BY <3>1, <3>2
  <2>7. \A i \in DOMAIN requests' : i > 1 => requests'[i].outcome = "redirect"
    BY <2>2, <2>4, <2>5
  <2>8. RequestsInOrder'
    BY <2>3, <2>6, <2>7 DEF RequestsInOrder
  <2>9. RequestsMade'
    <3>1. answer'[f] = "yes" /\ flow'[f] = "done"
      BY <1>2 DEF Granted, TypeOK
    <3>2. \A i \in DOMAIN requests : /\ answer'[requests[i].flow] = "yes"
                                     /\ flow'[requests[i].flow] = "done"
      BY <1>2, RequestsOfFlows DEF RequestsMade, TypeOK
    <3>3. QED
      BY <2>2, <2>5, <3>1, <3>2 DEF RequestsMade
  <2>10. QED
    BY <2>8, <2>9
<1>3. ASSUME NEW f \in Flows, Fetch(f)
      PROVE  RequestsInOrder' /\ RequestsMade'
  BY <1>2, <1>3 DEF Fetch, EndFlow, Outcomes
<1>4. ASSUME NEW f \in Flows, NEW u \in Urls, FollowRedirect(f, u)
      PROVE  RequestsInOrder' /\ RequestsMade'
  BY <1>2, <1>4 DEF FollowRedirect, Outcomes
<1>5. QED
  BY <1>1, <1>3, <1>4
     DEF Next, vars, ResolversStep, UseCache, ReceiveUDP, AwaitLateReplies, WaitForLateReplies,
         FinishLookup, FanOut, SelectorStep, Expire, StopSelector, FlowStep, Connect, StopFlow,
         Ask, SendTimeout, ReceiveTimeout, NotPermitted, Permitted, CannotRequest, ControlStep,
         ControlAnswers, ControlFails, RunStep, Join, Return, Cancel

-----------------------------------------------------------------------------
(* The wait group.                                                         *)

\* Whoever ends has left the group, and has put there those it has started.
LEMMA CountedInv ==
  ASSUME IInv, [Next]_vars
  PROVE  Counted'
<1> USE DEF IInv
<1>1. CASE UNCHANGED <<counter, resolvers, flow, udp, control>>
  BY <1>1 DEF Counted, ResolversIn, FlowsIn, Busy, LateIn, ControlIn
<1>2. ASSUME NEW d \in Depths, UseCache(d) \/ ReceiveUDP(d) \/ FinishLookup(d)
      PROVE  Counted'
  <2>1. ResolversIn' = ResolversIn
    BY <1>2 DEF UseCache, ReceiveUDP, FinishLookup, ResolversIn, TypeOK
  <2>2. LateIn' = LateIn
    BY <1>2 DEF UseCache, ReceiveUDP, FinishLookup, LateIn, TypeOK, StepsStart
  <2>3. UNCHANGED <<counter, flow, control>>
    BY <1>2 DEF UseCache, ReceiveUDP, FinishLookup
  <2>4. QED
    BY <2>1, <2>2, <2>3 DEF Counted, FlowsIn, Busy, ControlIn
<1>3. ASSUME NEW d \in Depths, AwaitLateReplies(d)
      PROVE  Counted'
  <2>1. Cardinality(LateIn') = Cardinality(LateIn) + 1
    BY <1>3, LateEnters DEF AwaitLateReplies
  <2>2. counter' = counter + 1 /\ UNCHANGED <<resolvers, flow, control>>
    BY <1>3 DEF AwaitLateReplies
  <2>3. ResolversIn' = ResolversIn /\ FlowsIn' = FlowsIn /\ ControlIn' = ControlIn
    BY <2>2 DEF ResolversIn, FlowsIn, Busy, ControlIn
  <2>4. QED
    BY <2>1, <2>2, <2>3, CountsAreNaturals DEF Counted
<1>4. ASSUME NEW d \in Depths, WaitForLateReplies(d)
      PROVE  Counted'
  <2>1. Cardinality(LateIn') = Cardinality(LateIn) - 1
    BY <1>4, LateLeaves DEF WaitForLateReplies
  <2>2. counter' = counter - 1 /\ UNCHANGED <<resolvers, flow, control>>
    BY <1>4 DEF WaitForLateReplies
  <2>3. ResolversIn' = ResolversIn /\ FlowsIn' = FlowsIn /\ ControlIn' = ControlIn
    BY <2>2 DEF ResolversIn, FlowsIn, Busy, ControlIn
  <2>4. QED
    BY <2>1, <2>2, <2>3, CountsAreNaturals DEF Counted
<1>5. ASSUME NEW d \in Depths, FanOut(d)
      PROVE  Counted'
  <2> DEFINE fs == FlowsFor(d, Resolved(d))
  <2>1. fs \in SUBSET Flows /\ \A f \in fs : flow[f] = "off"
    BY <1>5, FanOutStarts
  <2>2. StartFlows(fs) /\ UNCHANGED udp
    BY <1>5 DEF FanOut
  <2>3. counter' = counter + Cardinality(fs) + (IF ControlWanted(d) THEN 1 ELSE 0) - 1
    BY <1>5 DEF FanOut
  <2> HIDE DEF fs
  <2>4. Cardinality(FlowsIn') = Cardinality(FlowsIn) + Cardinality(fs) /\ Cardinality(fs) \in Nat
    BY <2>1, <2>2, FlowsAdded
  <2>5. Cardinality(ResolversIn') = Cardinality(ResolversIn) - 1
    BY <1>5, ResolversLeave DEF FanOut
  <2>6. ControlIn' = ControlIn + (IF ControlWanted(d) THEN 1 ELSE 0)
    <3>1. ControlWanted(d) => control = "off"
      BY <1>5 DEF ControlWanted, FanOut, Addresses
    <3>2. QED
      BY <1>5, <3>1 DEF FanOut, ControlIn
  <2>7. LateIn' = LateIn
    BY <2>2 DEF LateIn
  <2>8. QED
    BY <2>3, <2>4, <2>5, <2>6, <2>7, CountsAreNaturals DEF Counted
<1>6. CASE ControlAnswers
  <2> DEFINE fs == FlowsFor(0, world.th \ Resolved(0))
  <2>1. fs \in SUBSET Flows /\ \A f \in fs : flow[f] = "off"
    BY <1>6, ControlStarts
  <2>2. StartFlows(fs) /\ counter' = counter + Cardinality(fs) - 1 /\ UNCHANGED <<udp, resolvers>>
    BY <1>6 DEF ControlAnswers
  <2> HIDE DEF fs
  <2>3. Cardinality(FlowsIn') = Cardinality(FlowsIn) + Cardinality(fs) /\ Cardinality(fs) \in Nat
    BY <2>1, <2>2, FlowsAdded
  <2>4. ControlIn = 1 /\ ControlIn' = 0
    BY <1>6 DEF ControlAnswers, ControlIn
  <2>5. LateIn' = LateIn /\ ResolversIn' = ResolversIn
    BY <2>2 DEF LateIn, ResolversIn
  <2>6. QED
    BY <2>2, <2>3, <2>4, <2>5, CountsAreNaturals DEF Counted
<1>7. CASE ControlFails
  <2>1. ControlIn = 1 /\ ControlIn' = 0
    BY <1>7 DEF ControlFails, ControlIn
  <2>2. LateIn' = LateIn /\ ResolversIn' = ResolversIn /\ FlowsIn' = FlowsIn
    BY <1>7 DEF ControlFails, LateIn, ResolversIn, FlowsIn, Busy
  <2>3. counter' = counter - 1
    BY <1>7 DEF ControlFails
  <2>4. QED
    BY <2>1, <2>2, <2>3, CountsAreNaturals DEF Counted
<1>8. ASSUME NEW f \in Flows, Connect(f) \/ Ask(f) \/ Permitted(f)
      PROVE  Counted'
  <2>1. UNCHANGED <<counter, resolvers, udp, control>>
    BY <1>8 DEF Connect, Ask, Permitted
  <2>2. \E s \in {"ask", "asked", "fetch"} : Busy(f) /\ flow' = [flow EXCEPT ![f] = s]
    BY <1>8 DEF Connect, Ask, Permitted, Busy
  <2>3. FlowsIn' = FlowsIn
    BY <2>2, FlowGoesOn DEF FlowStates
  <2>4. QED
    BY <2>1, <2>3 DEF Counted, ResolversIn, LateIn, ControlIn
<1>9. ASSUME NEW f \in Flows, Busy(f), EndFlow(f), UNCHANGED <<resolvers, udp, control>>
      PROVE  Counted'
  <2>1. Cardinality(FlowsIn') = Cardinality(FlowsIn) - 1 /\ counter' = counter - 1
    BY <1>9, FlowEnds DEF EndFlow
  <2>2. ResolversIn' = ResolversIn /\ LateIn' = LateIn /\ ControlIn' = ControlIn
    BY <1>9 DEF ResolversIn, LateIn, ControlIn
  <2>3. QED
    BY <2>1, <2>2, CountsAreNaturals DEF Counted
<1>10. ASSUME NEW f \in Flows,
              \/ StopFlow(f) \/ SendTimeout(f) \/ ReceiveTimeout(f) \/ NotPermitted(f)
              \/ CannotRequest(f) \/ Fetch(f)
       PROVE  Counted'
  <2>1. Busy(f) /\ EndFlow(f) /\ UNCHANGED <<resolvers, udp, control>>
    BY <1>10 DEF StopFlow, SendTimeout, ReceiveTimeout, NotPermitted, CannotRequest, Fetch, Busy
  <2>2. QED
    BY <1>9, <2>1
<1>11. ASSUME NEW f \in Flows, NEW u \in Urls, FollowRedirect(f, u)
       PROVE  Counted'
  <2>1. Busy(f) /\ flow' = [flow EXCEPT ![f] = "done"] /\ UNCHANGED <<counter, udp, control>>
    BY <1>11 DEF FollowRedirect, Busy
  <2>2. Cardinality(FlowsIn') = Cardinality(FlowsIn) - 1
    BY <2>1, FlowEnds
  <2>3. Cardinality(ResolversIn') = Cardinality(ResolversIn) + 1
    BY <1>11, NextStepIsOff, ResolversEnter DEF FollowRedirect
  <2>4. LateIn' = LateIn /\ ControlIn' = ControlIn
    BY <2>1 DEF LateIn, ControlIn
  <2>5. QED
    BY <2>1, <2>2, <2>3, <2>4, CountsAreNaturals DEF Counted
<1>12. QED
  BY <1>1, <1>2, <1>3, <1>4, <1>5, <1>6, <1>7, <1>8, <1>10, <1>11
     DEF Next, vars, ResolversStep, SelectorStep, Expire, StopSelector, FlowStep, ControlStep,
         RunStep, Join, Return, Cancel

\* Nobody starts anything once Run has gone on.
LEMMA JoinInv ==
  ASSUME IInv, [Next]_vars
  PROVE  JoinIsComplete'
<1> USE DEF IInv
<1>1. CASE UNCHANGED <<main, resolvers, flow, control>>
  BY <1>1 DEF JoinIsComplete, Busy
<1>2. CASE main' = "wait"
  BY <1>2 DEF JoinIsComplete
<1>3. CASE Join
  <2>1. ResolversIn = {} /\ FlowsIn = {} /\ control # "started"
    BY <1>3, NobodyIn DEF Join
  <2>2. QED
    BY <1>3, <2>1 DEF Join, JoinIsComplete, ResolversIn, FlowsIn, Busy
<1>4. CASE Return
  BY <1>4 DEF Return, JoinIsComplete, Busy
<1>5. ASSUME NEW d \in Depths, main # "wait", ResolversStep(d)
      PROVE  UNCHANGED <<main, resolvers, flow, control>>
  BY <1>5 DEF ResolversStep, UseCache, ReceiveUDP, AwaitLateReplies, WaitForLateReplies,
              FinishLookup, FanOut, JoinIsComplete
<1>6. ASSUME NEW f \in Flows, main # "wait", FlowStep(f)
      PROVE  FALSE
  BY <1>6 DEF FlowStep, Connect, StopFlow, SendTimeout, ReceiveTimeout, NotPermitted, Ask,
              Permitted, CannotRequest, Fetch, FollowRedirect, JoinIsComplete, Busy
<1>7. ASSUME main # "wait", ControlStep
      PROVE  FALSE
  BY <1>7 DEF ControlStep, ControlAnswers, ControlFails, JoinIsComplete
<1>8. CASE main = "wait" /\ ~ Join
  <2>1. UNCHANGED main
    BY <1>8 DEF Next, vars, ResolversStep, UseCache, ReceiveUDP, AwaitLateReplies,
                WaitForLateReplies, FinishLookup, FanOut, SelectorStep, Expire, StopSelector,
                FlowStep, Connect, StopFlow, SendTimeout, ReceiveTimeout, NotPermitted, Ask,
                Permitted, CannotRequest, Fetch, FollowRedirect, ControlStep, ControlAnswers,
                ControlFails, RunStep, Return, Cancel
  <2>2. QED
    BY <1>2, <1>8, <2>1
<1>9. QED
  BY <1>1, <1>3, <1>4, <1>5, <1>6, <1>7, <1>8
     DEF Next, vars, SelectorStep, Expire, StopSelector, RunStep, Cancel

-----------------------------------------------------------------------------
(* What is measured.                                                       *)

\* Every address of the first step has a flow, those of the test helper too.
LEMMA AddressesInv ==
  ASSUME IInv, [Next]_vars
  PROVE  Addresses'
<1> USE DEF IInv
<1>0. 0 \in Depths
  BY DepthsAreNaturals
<1>1. CASE UNCHANGED <<resolvers, world, url, flow, control>>
  BY <1>1 DEF Addresses, Resolved, Dns
<1>2. ASSUME UNCHANGED <<world, control>>, UNCHANGED url[0],
             resolvers'[0] = "done" <=> resolvers[0] = "done",
             \A f \in Flows : flow[f] = "off" <=> flow'[f] = "off"
      PROVE  Addresses'
  <2>1. Resolved(0)' = Resolved(0)
    BY <1>2 DEF Resolved, Dns
  <2>2. resolvers[0] = "done" => Resolved(0) \subseteq Addrs
    BY <1>0, ResolvedAddrs
  <2>3. world.th \subseteq Addrs
    BY WorldsAssumption DEF TypeOK
  <2>4. \A a \in Addrs : <<0, a, TRUE>> \in Flows
    BY <1>0, FlowParts, Zenon
  <2>5. resolvers'[0] = "done" => \A a \in Resolved(0) : flow'[<<0, a, TRUE>>] # "off"
    BY <1>2, <2>2, <2>4 DEF Addresses
  <2>6. control = "answered" => \A a \in world.th : flow'[<<0, a, TRUE>>] # "off"
    BY <1>2, <2>3, <2>4 DEF Addresses
  <2>7. control = "started" =>
          \A f \in Flows : f[1] = 0 /\ f[2] \notin Resolved(0) => flow'[f] = "off"
    BY <1>2 DEF Addresses
  <2>8. QED
    BY <1>2, <2>1, <2>5, <2>6, <2>7 DEF Addresses
<1>3. ASSUME NEW d \in Depths, UseCache(d) \/ ReceiveUDP(d) \/ FinishLookup(d)
      PROVE  Addresses'
  <2>1. UNCHANGED <<world, control, url, flow>>
    BY <1>3 DEF UseCache, ReceiveUDP, FinishLookup
  <2>2. resolvers'[0] = "done" <=> resolvers[0] = "done"
    BY <1>0, <1>3 DEF UseCache, ReceiveUDP, FinishLookup, TypeOK
  <2>3. QED
    BY <1>2, <2>1, <2>2
<1>4. ASSUME NEW d \in Depths, FanOut(d), d # 0
      PROVE  Addresses'
  <2>1. UNCHANGED <<world, control, url>> /\ resolvers'[0] = resolvers[0]
    BY <1>0, <1>4 DEF FanOut, ControlWanted, TypeOK
  <2>2. \A f \in FlowsFor(d, Resolved(d)) : f[1] = d
    BY <1>4, FanOutStarts
  <2>3. \A f \in Flows : f[1] = 0 => flow'[f] = flow[f]
    BY <1>4, <2>2 DEF FanOut, StartFlows
  <2>4. Resolved(0)' = Resolved(0)
    BY <2>1 DEF Resolved, Dns
  <2>5. \A a \in Addrs : <<0, a, TRUE>> \in Flows /\ <<0, a, TRUE>>[1] = 0
    BY <1>0, FlowParts, Zenon
  <2>6. world.th \subseteq Addrs /\ (resolvers[0] = "done" => Resolved(0) \subseteq Addrs)
    BY <1>0, ResolvedAddrs, WorldsAssumption DEF TypeOK
  <2>7. \A a \in Addrs : flow'[<<0, a, TRUE>>] = flow[<<0, a, TRUE>>]
    BY <2>3, <2>5
  <2>8. QED
    BY <2>1, <2>3, <2>4, <2>6, <2>7 DEF Addresses
<1>5. CASE FanOut(0)
  <2>1. /\ FlowsFor(0, Resolved(0)) \subseteq Flows
        /\ \A f \in FlowsFor(0, Resolved(0)) : flow[f] = "off" /\ f[1] = 0
        /\ \A a \in Resolved(0) : <<0, a, TRUE>> \in FlowsFor(0, Resolved(0))
    BY <1>0, <1>5, FanOutStarts
  <2>2. resolvers[0] = "resolved" /\ resolvers'[0] = "done" /\ UNCHANGED <<world, url>>
    BY <1>0, <1>5 DEF FanOut, TypeOK
  <2>3. control = "off" /\ control' = IF world.helpers THEN "started" ELSE "off"
    BY <1>5, <2>2 DEF FanOut, ControlWanted, Addresses
  <2>4. Resolved(0)' = Resolved(0)
    BY <2>2 DEF Resolved, Dns
  <2>5. flow' = [f \in Flows |-> IF f \in FlowsFor(0, Resolved(0)) THEN "connect" ELSE flow[f]]
    BY <1>5 DEF FanOut, StartFlows
  <2>6. \A a \in Resolved(0) : flow'[<<0, a, TRUE>>] # "off"
    BY <2>1, <2>5
  <2>7. \A f \in Flows : f[1] = 0 /\ f[2] \notin Resolved(0) => flow'[f] = "off"
    <3>1. \A f \in FlowsFor(0, Resolved(0)) : f[2] \in Resolved(0)
      BY <1>0, <2>2, ResolvedAddrs, FlowsForAddrs
    <3>2. \A f \in Flows : f[1] = 0 => flow[f] = "off"
      BY <2>2 DEF StepsStart
    <3>3. QED
      BY <2>5, <3>1, <3>2
  <2>8. QED
    BY <2>2, <2>3, <2>4, <2>6, <2>7 DEF Addresses
<1>6. CASE ControlAnswers
  <2> DEFINE fs == FlowsFor(0, world.th \ Resolved(0))
  <2>1. /\ \A a \in world.th \ Resolved(0) : <<0, a, TRUE>> \in fs
        /\ fs \subseteq Flows
    BY <1>6, ControlStarts
  <2>2. /\ UNCHANGED <<world, url, resolvers>>
        /\ control = "started" /\ control' = "answered"
        /\ flow' = [f \in Flows |-> IF f \in fs THEN "connect" ELSE flow[f]]
    BY <1>6 DEF ControlAnswers, StartFlows
  <2>3. resolvers[0] = "done" /\ Resolved(0) \subseteq Addrs
    BY <1>0, <2>2, ResolvedAddrs DEF Addresses
  <2>4. Resolved(0)' = Resolved(0)
    BY <2>2 DEF Resolved, Dns
  <2> HIDE DEF fs
  <2>5. \A a \in Resolved(0) : flow'[<<0, a, TRUE>>] # "off"
    <3>1. \A a \in Resolved(0) : <<0, a, TRUE>> \in Flows
      BY <1>0, <2>3, FlowParts, Zenon
    <3>2. QED
      BY <2>2, <2>3, <3>1 DEF Addresses
  <2>6. \A a \in world.th \ Resolved(0) : flow'[<<0, a, TRUE>>] # "off"
    BY <2>1, <2>2
  <2>7. QED
    BY <2>2, <2>3, <2>4, <2>5, <2>6 DEF Addresses
<1>7. CASE ControlFails
  BY <1>7 DEF ControlFails, Addresses, Resolved, Dns
<1>8. ASSUME NEW f \in Flows, FlowStep(f)
      PROVE  Addresses'
  <2>1. \A g \in Flows : flow[g] = "off" <=> flow'[g] = "off"
    BY <1>8 DEF FlowStep, Connect, StopFlow, SendTimeout, ReceiveTimeout, NotPermitted, Ask,
               Permitted, CannotRequest, Fetch, FollowRedirect, EndFlow, TypeOK
  <2>2. UNCHANGED <<world, control>>
    BY <1>8 DEF FlowStep, Connect, StopFlow, SendTimeout, ReceiveTimeout, NotPermitted, Ask,
               Permitted, CannotRequest, Fetch, FollowRedirect
  <2>3. f[1] + 1 # 0
    <3>1. f[1] \in Nat
      BY FlowParts, DepthsAreNaturals
    <3>2. QED
      BY <3>1
  <2>4. UNCHANGED <<resolvers[0], url[0]>>
    BY <1>0, <1>8, <2>3 DEF FlowStep, Connect, StopFlow, SendTimeout, ReceiveTimeout,
       NotPermitted, Ask, Permitted, CannotRequest, Fetch, FollowRedirect, TypeOK
  <2>5. QED
    BY <1>2, <2>1, <2>2, <2>4
<1>9. QED
  BY <1>1, <1>3, <1>4, <1>5, <1>6, <1>7, <1>8
     DEF Next, vars, ResolversStep, AwaitLateReplies, WaitForLateReplies, SelectorStep, Expire,
         StopSelector, ControlStep, RunStep, Join, Return, Cancel

\* What has happened stays: a selector that is over, a timer that was too
\* fast, a context that was cancelled, a step that has been fetched.
LEMMA HistoryStays ==
  ASSUME IInv, [Next]_vars
  PROVE  /\ \A d \in Depths : selector[d].at = "over" => selector'[d].at = "over"
         /\ slow => slow'
         /\ cancelled => cancelled'
         /\ Returned => Returned'
         /\ \A d \in Depths : HasFetched(d) => HasFetched(d)'
<1> USE DEF IInv
<1>1. \A d \in Depths : selector[d].at = "over" => selector'[d].at = "over"
  <2>1. CASE UNCHANGED selector
    BY <2>1
  <2>2. ASSUME NEW d \in Depths, FanOut(d)
        PROVE  \A e \in Depths : selector[e].at = "over" => selector'[e].at = "over"
    BY <2>2 DEF FanOut, TypeOK, StepsStart
  <2>3. ASSUME NEW d \in Depths, SelectorStep(d)
        PROVE  \A e \in Depths : selector[e].at = "over" => selector'[e].at = "over"
    BY <2>3 DEF SelectorStep, Expire, StopSelector, TypeOK
  <2>4. ASSUME NEW f \in Flows, Ask(f)
        PROVE  \A e \in Depths : selector[e].at = "over" => selector'[e].at = "over"
    BY <2>4, AskAnswers
  <2>5. QED
    BY <2>1, <2>2, <2>3, <2>4
       DEF Next, vars, ResolversStep, UseCache, ReceiveUDP, AwaitLateReplies,
           WaitForLateReplies, FinishLookup, FlowStep, Connect, StopFlow, SendTimeout,
           ReceiveTimeout, NotPermitted, Permitted, CannotRequest, Fetch, FollowRedirect,
           ControlStep, ControlAnswers, ControlFails, RunStep, Join, Return, Cancel
<1>2. slow => slow'
  <2>1. CASE UNCHANGED slow
    BY <2>1
  <2>2. ASSUME NEW f \in Flows, SendTimeout(f) \/ ReceiveTimeout(f)
        PROVE  slow => slow'
    BY <2>2 DEF SendTimeout, ReceiveTimeout
  <2>3. QED
    BY <2>1, <2>2
       DEF Next, vars, ResolversStep, UseCache, ReceiveUDP, AwaitLateReplies,
           WaitForLateReplies, FinishLookup, FanOut, SelectorStep, Expire, StopSelector, FlowStep,
           Connect, StopFlow, Ask, NotPermitted, Permitted, CannotRequest, Fetch, FollowRedirect,
           ControlStep, ControlAnswers, ControlFails, RunStep, Join, Return, Cancel
<1>3. cancelled => cancelled'
  <2>1. CASE UNCHANGED cancelled
    BY <2>1
  <2>2. CASE Cancel
    BY <2>2 DEF Cancel
  <2>3. QED
    BY <2>1, <2>2
       DEF Next, vars, ResolversStep, UseCache, ReceiveUDP, AwaitLateReplies,
           WaitForLateReplies, FinishLookup, FanOut, SelectorStep, Expire, StopSelector, FlowStep,
           Connect, StopFlow, Ask, SendTimeout, ReceiveTimeout, NotPermitted, Permitted,
           CannotRequest, Fetch, FollowRedirect, ControlStep, ControlAnswers, ControlFails,
           RunStep, Join, Return
<1>4. Returned => UNCHANGED main
  BY DEF Next, vars, ResolversStep, UseCache, ReceiveUDP, AwaitLateReplies, WaitForLateReplies,
         FinishLookup, FanOut, SelectorStep, Expire, StopSelector, FlowStep, Connect, StopFlow,
         Ask, SendTimeout, ReceiveTimeout, NotPermitted, Permitted, CannotRequest, Fetch,
         FollowRedirect, ControlStep, ControlAnswers, ControlFails, RunStep, Join, Return, Cancel,
         Returned
<1>5. unmade \subseteq unmade'
  BY DEF Next, vars, ResolversStep, UseCache, ReceiveUDP, AwaitLateReplies, WaitForLateReplies,
         FinishLookup, FanOut, SelectorStep, Expire, StopSelector, FlowStep, Connect, StopFlow,
         Ask, SendTimeout, ReceiveTimeout, NotPermitted, Permitted, CannotRequest, Fetch,
         FollowRedirect, ControlStep, ControlAnswers, ControlFails, RunStep, Join, Return, Cancel
<1>6. \A i \in DOMAIN requests : \E j \in DOMAIN requests' : requests'[j] = requests[i]
  <2>1. CASE UNCHANGED requests
    BY <2>1
  <2>2. ASSUME NEW f \in Flows, NEW outcome \in Outcomes, PrependRequests(f, outcome)
        PROVE  \A i \in DOMAIN requests : \E j \in DOMAIN requests' : requests'[j] = requests[i]
    <3>1. /\ DOMAIN requests' = 1 .. Len(requests) + 1
          /\ \A i \in 2 .. Len(requests) + 1 : requests'[i] = requests[i - 1]
          /\ Len(requests) \in Nat
          /\ DOMAIN requests = 1 .. Len(requests)
      BY <2>2, RequestPrepended
    <3>2. \A i \in DOMAIN requests : i + 1 \in DOMAIN requests' /\ requests'[i + 1] = requests[i]
      BY <3>1
    <3>3. QED
      BY <3>2
  <2>3. QED
    BY <2>1, <2>2
       DEF Next, vars, ResolversStep, UseCache, ReceiveUDP, AwaitLateReplies,
           WaitForLateReplies, FinishLookup, FanOut, SelectorStep, Expire, StopSelector, FlowStep,
           Connect, StopFlow, Ask, SendTimeout, ReceiveTimeout, NotPermitted, Permitted,
           CannotRequest, Fetch, FollowRedirect, ControlStep, ControlAnswers, ControlFails,
           RunStep, Join, Return, Cancel, Outcomes
<1>7. \A d \in Depths : HasFetched(d) => HasFetched(d)'
  BY <1>5, <1>6 DEF HasFetched
<1>8. QED
  BY <1>1, <1>2, <1>3, <1>4, <1>7 DEF Returned

\* A flow ends by one of its own steps.
LEMMA EndingSteps ==
  ASSUME IInv, [Next]_vars, NEW f \in Flows, flow[f] # "done", flow'[f] = "done"
  PROVE  \/ StopFlow(f) \/ SendTimeout(f) \/ ReceiveTimeout(f) \/ NotPermitted(f)
         \/ CannotRequest(f) \/ Fetch(f) \/ \E u \in Urls : FollowRedirect(f, u)
<1> USE DEF IInv
<1>1. PICK g \in Flows : FlowStep(g)
  BY DEF Next, vars, ResolversStep, UseCache, ReceiveUDP, AwaitLateReplies, WaitForLateReplies,
         FinishLookup, FanOut, StartFlows, SelectorStep, Expire, StopSelector, ControlStep,
         ControlAnswers, ControlFails, RunStep, Join, Return, Cancel, TypeOK
<1>2. g = f
  BY <1>1 DEF FlowStep, Connect, StopFlow, Ask, SendTimeout, ReceiveTimeout, NotPermitted,
         Permitted, CannotRequest, Fetch, FollowRedirect, EndFlow, TypeOK
<1>3. ~ Connect(f) /\ ~ Ask(f) /\ ~ Permitted(f)
  BY DEF Connect, Ask, Permitted, TypeOK
<1>4. QED
  BY <1>1, <1>2, <1>3 DEF FlowStep

\* A flow that has asked has not been forgotten, and a permission is used,
\* unless a timer was too fast.
LEMMA AskedInv ==
  ASSUME IInv, [Next]_vars
  PROVE  Asked'
<1> USE DEF IInv
<1>1. \A f \in Flows : flow[f] \notin {"off", "connect"} => flow'[f] \notin {"off", "connect"}
  <2>1. CASE ControlAnswers \/ \E d \in Depths : FanOut(d)
    BY <2>1, StartedStays
  <2>2. ASSUME NEW f \in Flows, FlowStep(f)
        PROVE  \A g \in Flows : flow[g] \notin {"off", "connect"} => flow'[g] \notin {"off", "connect"}
    BY <2>2 DEF FlowStep, Connect, StopFlow, Ask, SendTimeout, ReceiveTimeout, NotPermitted,
               Permitted, CannotRequest, Fetch, FollowRedirect, EndFlow, TypeOK
  <2>3. CASE UNCHANGED flow
    BY <2>3
  <2>4. QED
    BY <2>1, <2>2, <2>3
       DEF Next, vars, ResolversStep, UseCache, ReceiveUDP, AwaitLateReplies,
           WaitForLateReplies, FinishLookup, SelectorStep, Expire, StopSelector, ControlStep,
           ControlFails, RunStep, Join, Return, Cancel
<1>2. /\ asked \subseteq asked'
      /\ \A f \in asked' \ asked : flow'[f] = "ask"
      /\ \A f \in Flows : flow'[f] \in {"ask", "asked", "fetch"} => f \in asked'
  <2>1. CASE ControlAnswers \/ \E d \in Depths : FanOut(d)
    BY <2>1 DEF ControlAnswers, FanOut, StartFlows, Asked
  <2>2. ASSUME NEW f \in Flows, FlowStep(f), ~ Connect(f)
        PROVE  UNCHANGED asked
               /\ \A g \in Flows : flow'[g] \in {"ask", "asked", "fetch"} => g \in asked'
    BY <2>2 DEF FlowStep, StopFlow, Ask, SendTimeout, ReceiveTimeout, NotPermitted,
               Permitted, CannotRequest, Fetch, FollowRedirect, EndFlow, TypeOK, Asked
  <2>3. ASSUME NEW f \in Flows, Connect(f)
        PROVE  /\ asked' = asked \cup {f} /\ flow'[f] = "ask"
               /\ \A g \in Flows : flow'[g] \in {"ask", "asked", "fetch"} => g \in asked'
    BY <2>3 DEF Connect, TypeOK, Asked
  <2>4. CASE UNCHANGED <<flow, asked>>
    BY <2>4 DEF Asked
  <2>5. QED
    BY <2>1, <2>2, <2>3, <2>4
       DEF Next, vars, ResolversStep, UseCache, ReceiveUDP, AwaitLateReplies,
           WaitForLateReplies, FinishLookup, SelectorStep, Expire, StopSelector, ControlStep,
           ControlFails, RunStep, Join, Return, Cancel
<1>3. \A f \in asked' : flow'[f] \notin {"off", "connect"}
  BY <1>1, <1>2 DEF Asked, TypeOK
<1>4. \A d \in Depths : \A i \in DOMAIN selector'[d].reqs : selector'[d].reqs[i] \in asked'
  <2>1. CASE \A d \in Depths : selector'[d].reqs = selector[d].reqs
    BY <1>2, <2>1 DEF Asked
  <2>2. ASSUME NEW d \in Depths, FanOut(d) \/ SelectorStep(d), NEW e \in Depths
        PROVE  selector'[e].reqs = selector[e].reqs
    <3>1. \E at : selector' = [selector EXCEPT ![d].at = at]
      BY <2>2 DEF FanOut, SelectorStep, Expire, StopSelector
    <3>2. QED
      BY <3>1 DEF TypeOK
  <2>3. ASSUME NEW f \in Flows, Ask(f)
        PROVE  \A d \in Depths : \A i \in DOMAIN selector'[d].reqs : selector'[d].reqs[i] \in asked'
    <3>1. f[1] \in Depths /\ f \in asked
      BY <2>3, FlowParts DEF Ask, Asked
    <3>2. \A d \in Depths \ {f[1]} : selector'[d] = selector[d]
      BY <2>3, AskAnswers
    <3>3. \A i \in DOMAIN selector'[f[1]].reqs : selector'[f[1]].reqs[i] \in asked
      <4>1. CASE selector' = [selector EXCEPT ![f[1]].at = "over"]
        BY <3>1, <4>1 DEF TypeOK, Asked
      <4>2. CASE selector' = [selector EXCEPT ![f[1]] = [at |-> "collect", reqs |-> <<f>>]]
        BY <3>1, <4>2 DEF TypeOK, Asked
      <4>3. CASE selector' = [selector EXCEPT ![f[1]].reqs = Append(@, f)]
        <5> DEFINE reqs == selector[f[1]].reqs
        <5>1. selector'[f[1]].reqs = Append(reqs, f) /\ reqs \in Seq(Flows)
          BY <3>1, <4>3 DEF TypeOK
        <5>2. \A i \in DOMAIN reqs : reqs[i] \in asked
          BY <3>1 DEF Asked
        <5> HIDE DEF reqs
        <5>3. \A i \in DOMAIN Append(reqs, f) : Append(reqs, f)[i] \in asked
          BY <3>1, <5>1, <5>2, Appended
        <5>4. QED
          BY <5>1, <5>3
      <4>4. QED
        BY <2>3, <4>1, <4>2, <4>3 DEF Ask
    <3>4. QED
      BY <1>2, <3>2, <3>3 DEF Asked
  <2>4. QED
    BY <2>1, <2>2, <2>3
       DEF Next, vars, ResolversStep, UseCache, ReceiveUDP, AwaitLateReplies,
           WaitForLateReplies, FinishLookup, FlowStep, Connect, StopFlow, SendTimeout,
           ReceiveTimeout, NotPermitted, Permitted, CannotRequest, Fetch, FollowRedirect,
           ControlStep, ControlAnswers, ControlFails, RunStep, Join, Return, Cancel
<1>5. ASSUME NEW f \in asked', flow'[f] = "done", ~ slow'
      PROVE  selector'[f[1]].at = "over"
  <2>1. f \in Flows /\ f \in asked /\ f[1] \in Depths /\ ~ slow
    BY <1>2, <1>5, FlowParts, HistoryStays, TypeInv DEF TypeOK
  <2>2. CASE flow[f] = "done"
    BY <2>1, <2>2, HistoryStays DEF Asked
  <2>3. CASE flow[f] # "done"
    <3>1. \/ StopFlow(f) \/ SendTimeout(f) \/ ReceiveTimeout(f) \/ NotPermitted(f)
          \/ CannotRequest(f) \/ Fetch(f) \/ \E u \in Urls : FollowRedirect(f, u)
      BY <1>5, <2>1, <2>3, EndingSteps
    <3>2. ~ StopFlow(f)
      BY <2>1 DEF StopFlow, Asked
    <3>3. SendTimeout(f) \/ ReceiveTimeout(f) => selector[f[1]].at = "over"
      BY <1>5 DEF SendTimeout, ReceiveTimeout
    <3>4. \/ NotPermitted(f) \/ CannotRequest(f) \/ Fetch(f) \/ \E u \in Urls : FollowRedirect(f, u)
          => selector[f[1]].at = "over"
      BY <2>1 DEF NotPermitted, CannotRequest, Fetch, FollowRedirect, Granted
    <3>5. QED
      BY <2>1, <3>1, <3>2, <3>3, <3>4, HistoryStays
  <2>4. QED
    BY <2>2, <2>3
<1>6. ASSUME NEW d \in Depths, selector'[d].at = "over", ~ cancelled', ~ Returned'
      PROVE  \E f \in Flows : f[1] = d /\ answer'[f] = "yes"
  <2>1. ~ cancelled /\ ~ Returned
    BY <1>6, HistoryStays
  <2>2. CASE selector[d].at = "over"
    BY <2>1, <2>2, PermissionStays DEF Asked
  <2>3. CASE Expire(d)
    BY <2>3, ExpireAnswers
  <2>4. ASSUME NEW f \in Flows, Ask(f), f[1] = d
        PROVE  \E g \in Flows : g[1] = d /\ answer'[g] = "yes"
    BY <1>6, <2>4, AskAnswers
  <2>5. ~ StopSelector(d)
    BY <2>1 DEF StopSelector
  <2>6. ASSUME NEW e \in Depths, e # d, SelectorStep(e)
        PROVE  selector'[d] = selector[d]
    BY <2>6 DEF SelectorStep, Expire, StopSelector, TypeOK
  <2>7. ASSUME NEW f \in Flows, Ask(f), f[1] # d
        PROVE  selector'[d] = selector[d]
    BY <2>7, AskAnswers
  <2>8. ASSUME NEW e \in Depths, FanOut(e)
        PROVE  selector'[d].at \in {selector[d].at, "idle"}
    BY <2>8 DEF FanOut, TypeOK
  <2>9. CASE UNCHANGED selector
    BY <1>6, <2>2, <2>9
  <2>10. QED
    BY <1>6, <2>2, <2>3, <2>4, <2>5, <2>6, <2>7, <2>8, <2>9
       DEF Next, vars, ResolversStep, SelectorStep, UseCache, ReceiveUDP, AwaitLateReplies,
           WaitForLateReplies, FinishLookup, FlowStep, Connect, StopFlow, SendTimeout,
           ReceiveTimeout, NotPermitted, Permitted, CannotRequest, Fetch, FollowRedirect,
           ControlStep, ControlAnswers, ControlFails, RunStep, Join, Return, Cancel
<1>7. ASSUME NEW f \in Flows, answer'[f] = "yes", flow'[f] = "done", ~ slow'
      PROVE  HasFetched(f[1])'
  <2>1. f[1] \in Depths /\ ~ slow
    BY <1>7, FlowParts, HistoryStays
  <2>2. CASE answer[f] = "yes" /\ flow[f] = "done"
    BY <2>1, <2>2, HistoryStays DEF Asked
  <2>3. CASE flow[f] # "done"
    <3>1. \/ StopFlow(f) \/ SendTimeout(f) \/ ReceiveTimeout(f) \/ NotPermitted(f)
          \/ CannotRequest(f) \/ Fetch(f) \/ \E u \in Urls : FollowRedirect(f, u)
      BY <1>7, <2>3, EndingSteps
    <3>2. UNCHANGED answer
      BY <3>1 DEF StopFlow, SendTimeout, ReceiveTimeout, NotPermitted, CannotRequest, Fetch,
                  FollowRedirect
    <3>3. ~ StopFlow(f) /\ ~ SendTimeout(f) /\ ~ ReceiveTimeout(f) /\ ~ NotPermitted(f)
      BY <1>7, <3>2 DEF StopFlow, SendTimeout, ReceiveTimeout, NotPermitted, Granted
    <3>4. CannotRequest(f) => f[1] \in unmade'
      BY DEF CannotRequest
    <3>5. ASSUME NEW outcome \in Outcomes, PrependRequests(f, outcome)
          PROVE  1 \in DOMAIN requests' /\ requests'[1].flow[1] = f[1]
      <4>1. /\ DOMAIN requests' = 1 .. Len(requests) + 1
            /\ Len(requests) \in Nat
            /\ requests'[1] = [flow |-> f, outcome |-> outcome]
        BY <3>5, RequestPrepended
      <4>2. QED
        BY <4>1
    <3>6. Fetch(f) \/ (\E u \in Urls : FollowRedirect(f, u)) =>
            \E outcome \in Outcomes : PrependRequests(f, outcome)
      BY DEF Fetch, FollowRedirect, Outcomes
    <3>7. QED
      BY <3>1, <3>3, <3>4, <3>5, <3>6 DEF HasFetched
  <2>4. CASE flow[f] = "done" /\ answer[f] # "yes"
    <3>1. ASSUME NEW d \in Depths, Expire(d)
          PROVE  FALSE
      <4>1. \E i \in DOMAIN selector[d].reqs : f = selector[d].reqs[i]
        BY <1>7, <2>4, <3>1, ExpireAnswers
      <4>2. f \in asked /\ f[1] = d
        BY <4>1 DEF Asked, Collected
      <4>3. QED
        BY <2>1, <2>4, <3>1, <4>2 DEF Asked, Expire
    <3>2. ASSUME NEW g \in Flows, FlowStep(g)
          PROVE  answer'[f] = answer[f]
      <4>1. CASE Ask(g)
        BY <2>4, <4>1, AskAnswers
      <4>2. CASE ~ Ask(g)
        BY <3>2, <4>2 DEF FlowStep, Connect, StopFlow, SendTimeout, ReceiveTimeout,
           NotPermitted, Permitted, CannotRequest, Fetch, FollowRedirect
      <4>3. QED
        BY <4>1, <4>2
    <3>3. QED
      BY <1>7, <2>4, <3>1, <3>2
         DEF Next, vars, ResolversStep, SelectorStep, UseCache, ReceiveUDP, AwaitLateReplies,
             WaitForLateReplies, FinishLookup, FanOut, StopSelector, ControlStep, ControlAnswers,
             ControlFails, RunStep, Join, Return, Cancel
  <2>5. QED
    BY <2>2, <2>3, <2>4
<1>8. QED
  BY <1>2, <1>3, <1>4, <1>5, <1>6, <1>7 DEF Asked

\* Run finalizes the results of a measurement that was not cancelled, which
\* is then complete.
LEMMA FinalizedInv ==
  ASSUME IInv, [Next]_vars
  PROVE  Finalized' /\ MeasurementIsComplete'
<1> USE DEF IInv
<1>1. CASE main' # "finalized"
  BY <1>1 DEF Finalized, MeasurementIsComplete, SomebodyFetches, EveryAddressMeasured
<1>2. CASE main = "finalized"
  <2>1. Returned /\ UNCHANGED main
    BY <1>2 DEF Returned, Next, vars, ResolversStep, UseCache, ReceiveUDP, AwaitLateReplies,
         WaitForLateReplies, FinishLookup, FanOut, SelectorStep, Expire, StopSelector, FlowStep,
         Connect, StopFlow, Ask, SendTimeout, ReceiveTimeout, NotPermitted, Permitted,
         CannotRequest, Fetch, FollowRedirect, ControlStep, ControlAnswers, ControlFails, RunStep,
         Join, Return, Cancel
  <2>2. \A f \in Flows : ~ FlowStep(f)
    BY <1>2 DEF JoinIsComplete, Busy, FlowStep, Connect, StopFlow, Ask, SendTimeout,
         ReceiveTimeout, NotPermitted, Permitted, CannotRequest, Fetch, FollowRedirect
  <2>3. ~ ControlStep /\ \A d \in Depths : ~ FanOut(d)
    BY <1>2 DEF JoinIsComplete, ControlStep, ControlAnswers, ControlFails, FanOut
  <2>4. UNCHANGED <<world, url, flow, control, requests, unmade, cancelled, slow, asked>>
    BY <2>1, <2>2, <2>3 DEF Next, vars, ResolversStep, UseCache, ReceiveUDP, AwaitLateReplies,
         WaitForLateReplies, FinishLookup, SelectorStep, Expire, StopSelector, RunStep, Join,
         Return, Cancel
  <2>5. QED
    BY <2>1, <2>4 DEF Finalized, MeasurementIsComplete, SomebodyFetches, EveryAddressMeasured,
                      Resolved, Dns
<1>3. CASE main # "finalized" /\ main' = "finalized"
  <2>1. Return
    BY <1>3 DEF Next, vars, ResolversStep, UseCache, ReceiveUDP, AwaitLateReplies,
         WaitForLateReplies, FinishLookup, FanOut, SelectorStep, Expire, StopSelector, FlowStep,
         Connect, StopFlow, Ask, SendTimeout, ReceiveTimeout, NotPermitted, Permitted,
         CannotRequest, Fetch, FollowRedirect, ControlStep, ControlAnswers, ControlFails, RunStep,
         Join, Cancel
  <2>2. main = "joined" /\ ~ cancelled /\ ~ Returned
    BY <1>3, <2>1 DEF Return, Returned
  <2>3. UNCHANGED <<world, url, flow, control, requests, unmade, cancelled, slow, asked>>
    BY <2>1 DEF Return
  <2>4. SomebodyFetches'
    <3> SUFFICES ASSUME ~ slow, NEW f \in asked
                 PROVE  HasFetched(f[1])
      BY <2>3 DEF SomebodyFetches, HasFetched
    <3>1. f \in Flows /\ f[1] \in Depths /\ flow[f] = "done"
      BY <2>2, FlowParts DEF JoinIsComplete, Busy, Asked, TypeOK
    <3>2. selector[f[1]].at = "over"
      BY <3>1 DEF Asked
    <3>3. PICK g \in Flows : g[1] = f[1] /\ answer[g] = "yes"
      BY <2>2, <3>1, <3>2 DEF Asked
    <3>4. flow[g] = "done"
      BY <2>2, <3>3 DEF JoinIsComplete, Busy, Granted
    <3>5. QED
      BY <3>3, <3>4 DEF Asked
  <2>5. EveryAddressMeasured'
    <3>1. 0 \in Depths /\ resolvers[0] = "done"
      <4>1. resolvers[0] # "off" /\ 0 \in Depths
        <5>1. Len(requests) \in Nat
          BY RequestsOfFlows
        <5>2. Ended => Len(requests) > 0
          BY <5>1 DEF Ended, TypeOK
        <5>3. QED
          BY <5>1, <5>2, DepthsAreNaturals DEF Chain
      <4>2. QED
        BY <2>2, <4>1 DEF JoinIsComplete
    <3>2. Resolved(0) \subseteq Addrs /\ world.th \subseteq Addrs
      BY <3>1, ResolvedAddrs, WorldsAssumption DEF TypeOK
    <3>3. \A a \in Addrs : <<0, a, TRUE>> \in Flows
      BY <3>1, FlowParts, Zenon
    <3>4. \A f \in Flows : flow[f] # "off" => flow[f] = "done"
      BY <2>2 DEF JoinIsComplete, Busy
    <3>5. \A a \in Resolved(0) : flow[<<0, a, TRUE>>] = "done"
      BY <3>1, <3>2, <3>3, <3>4 DEF Addresses
    <3>6. control = "answered" => \A a \in world.th : flow[<<0, a, TRUE>>] = "done"
      BY <3>2, <3>3, <3>4 DEF Addresses
    <3>7. world.helpers <=> control # "off"
      BY <3>1 DEF Addresses
    <3>8. QED
      BY <2>3, <3>5, <3>6, <3>7 DEF EveryAddressMeasured, Resolved, Dns
  <2>6. QED
    BY <2>2, <2>3, <2>4, <2>5 DEF Finalized, MeasurementIsComplete
<1>4. QED
  BY <1>1, <1>2, <1>3

-----------------------------------------------------------------------------
(* The theorems.                                                           *)

\* The measurement starts with the lookups of the first step alone in the
\* wait group.
LEMMA InitIInv ==
  ASSUME Init
  PROVE  IInv
<1>1. TypeOK
  <2>1. url \in [Depths -> Urls \cup Starts \cup {NoUrl}]
    BY DEF Init
  <2>2. selector \in [Depths -> [at : {"off", "idle", "collect", "over"}, reqs : Seq(Flows)]]
    BY DEF Init
  <2>3. flow \in [Flows -> FlowStates] /\ answer \in [Flows -> {"none", "yes", "no"}]
    BY DEF Init, FlowStates
  <2>4. requests \in Seq([flow : Flows, outcome : {"page", "error", "redirect"}])
    BY DEF Init
  <2>5. /\ resolvers \in [Depths -> {"off", "started", "lookup", "received", "resolved", "done"}]
        /\ udp \in [Depths -> {"off", "lookup", "sent", "late", "done"}]
    BY DEF Init
  <2>6. cancelled \in BOOLEAN /\ slow \in BOOLEAN /\ world \in Worlds
    BY DEF Init
  <2>7. /\ main = "wait" /\ control = "off" /\ left \in Int
        /\ unmade \subseteq Depths /\ asked \subseteq Flows
    BY MaxRedirectsAssumption DEF Init
  <2>8. QED
    BY <2>1, <2>2, <2>3, <2>4, <2>5, <2>6, <2>7 DEF TypeOK
<1>2. Counted
  <2>1. ResolversIn = {0} /\ FlowsIn = {} /\ LateIn = {} /\ ControlIn = 0
    BY DepthsAreNaturals DEF Init, ResolversIn, FlowsIn, Busy, LateIn, ControlIn
  <2>2. Cardinality(ResolversIn) = 1 /\ Cardinality(FlowsIn) = 0 /\ Cardinality(LateIn) = 0
    BY <2>1, FS_EmptySet, FS_Singleton
  <2>3. QED
    BY <2>1, <2>2 DEF Init, Counted
<1>3. JoinIsComplete /\ Finalized /\ MeasurementIsComplete
  BY DEF Init, JoinIsComplete, Finalized, MeasurementIsComplete, SomebodyFetches,
         EveryAddressMeasured
<1>4. Chain
  <2>1. ~ Ended /\ Len(requests) = 0
    BY DEF Init, Ended
  <2>2. QED
    BY <2>1, DepthsAreNaturals, MaxRedirectsAssumption DEF Init, Chain
<1>5. StepsStart /\ Collected /\ Granted
  BY FlowParts DEF Init, StepsStart, Collected, Granted
<1>6. PriorityRespected /\ RequestsMade /\ Addresses
  BY DepthsAreNaturals DEF Init, PriorityRespected, RequestsMade, Addresses
<1>7. RequestsInOrder
  BY MaxRedirectsAssumption DEF Init, RequestsInOrder
<1>8. Asked
  BY FlowParts DEF Init, Asked
<1>9. QED
  BY <1>1, <1>2, <1>3, <1>4, <1>5, <1>6, <1>7, <1>8 DEF IInv

\* The inductive invariant of the measurement.
THEOREM Invariance == Spec => []IInv
<1>1. Init => IInv
  BY InitIInv
<1>2. IInv /\ [Next]_vars => IInv'
  BY TypeInv, CountedInv, JoinInv, ChainInv, StepsStartInv, CollectedInv, GrantedInv,
     PriorityInv, RequestsInv, AskedInv, AddressesInv, FinalizedInv DEF IInv
<1>3. QED
  BY <1>1, <1>2, PTL DEF Spec

\* When Measurer.Run goes on after the wait group, every task that writes test
\* keys is over, except for the waiting for late DNS replies, however many
\* addresses the resolvers return and redirects are followed.
THEOREM JoinIsCompleteHolds == Spec => []JoinIsComplete
<1>1. IInv => JoinIsComplete
  BY DEF IInv
<1>2. QED
  BY <1>1, Invariance, PTL

\* The requests that the analysis takes in order are one per step of the chain
\* of redirects, the last step first, and no more than may be followed.
THEOREM RequestsInOrderHolds == Spec => []RequestsInOrder
<1>1. IInv => RequestsInOrder
  BY DEF IInv
<1>2. QED
  BY <1>1, Invariance, PTL

\* The priority selector grants the highest priority whenever it holds a request
\* of that, and otherwise the request that it received first, whatever the
\* priorities of the others are.
THEOREM PriorityRespectedHolds == Spec => []PriorityRespected
<1>1. IInv => PriorityRespected
  BY DEF IInv
<1>2. QED
  BY <1>1, Invariance, PTL

\* A finalized measurement has measured every address of the first step and
\* has fetched every step that a connection asked to fetch.
THEOREM MeasurementIsCompleteHolds == Spec => []MeasurementIsComplete
<1>1. IInv => MeasurementIsComplete
  BY DEF IInv
<1>2. QED
  BY <1>1, Invariance, PTL
=============================================================================
