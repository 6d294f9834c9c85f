-------------------------- MODULE WebConnectivity --------------------------
(***************************************************************************)
(* A measurement of Web Connectivity LTE: Measurer.Run starts the DNS      *)
(* lookups and waits on a wait group; the lookups fan out into one flow    *)
(* per address, the flows that reach the server ask a priority selector    *)
(* for permission to fetch the page, a fetch that is redirected starts the *)
(* lookups of the next step, and the control flow, which asks the test     *)
(* helper, adds flows for the addresses that only the helper knows.        *)
(*                                                                         *)
(* A flow is <<d, a, fetching>>: the depth in the chain of redirects, the  *)
(* address, and whether it has a selector.  A flow without one (TLS        *)
(* measured on the side of an http URL) stops once it is connected.        *)
(***************************************************************************)
EXTENDS Integers, Sequences, FiniteSets

CONSTANTS
    Addrs,         \* IP addresses
    Urls,          \* the URLs of redirects, as [domain, https, port]: port is "a custom port"
    Starts,        \* the URLs a measurement may be given
    Worlds,        \* what the resolvers may answer, see WorldsAssumption
    MaxRedirects   \* redirects that may be followed (10 in the code)

ASSUME WorldsAssumption ==
    \A w \in Worlds :
        /\ w.th \in SUBSET Addrs /\ w.helpers \in BOOLEAN
        /\ \A u \in Urls \cup Starts : w.dns[u.domain] \in [system : SUBSET Addrs,
                                                         udp : SUBSET Addrs,
                                                         https : SUBSET Addrs]

ASSUME MaxRedirectsAssumption == MaxRedirects \in Nat

ASSUME AddrsAssumption == IsFiniteSet(Addrs)

Depths == 0 .. MaxRedirects

Flows == Depths \X Addrs \X BOOLEAN

VARIABLES
    world,       \* the answers of the resolvers and of the test helper
    url,         \* url[d]: the URL at depth d
    main,        \* Measurer.Run: "wait", "joined", then how it returned
    counter,     \* the counter of the wait group
    resolvers,   \* resolvers[d]: the DNSResolvers task at depth d
    udp,         \* udp[d]: its goroutine for DNS over UDP
    cached,      \* the domains in the DNS cache
    selector,    \* selector[d] = [at, reqs]: the priority selector
    flow,        \* flow[f]: where the flow f is
    answer,      \* answer[f]: the buffered channel of its request
    control,     \* the control flow
    left,        \* NumRedirects
    requests,    \* TestKeys.Requests, most recent first
    unmade,      \* the depths where newHTTPRequest failed
    cancelled,   \* the context was cancelled
    slow,        \* history: a timer beat a peer that was ready
    asked        \* history: the flows that got as far as asking to fetch

vars == <<world, url, main, counter, resolvers, udp, cached, selector, flow, answer, control,
          left, requests, unmade, cancelled, slow, asked>>

NoUrl == [domain |-> "none", https |-> FALSE, port |-> FALSE]

Init ==
    /\ world \in Worlds
    /\ \E u \in Starts : url = [d \in Depths |-> IF d = 0 THEN u ELSE NoUrl]
    /\ main = "wait"
    /\ counter = 1
    /\ resolvers = [d \in Depths |-> IF d = 0 THEN "started" ELSE "off"]
    /\ udp = [d \in Depths |-> "off"]
    /\ cached = {}
    /\ selector = [d \in Depths |-> [at |-> "off", reqs |-> << >>]]
    /\ flow = [f \in Flows |-> "off"]
    /\ answer = [f \in Flows |-> "none"]
    /\ control = "off"
    /\ left = MaxRedirects
    /\ requests = << >>
    /\ unmade = {}
    /\ cancelled = FALSE
    /\ slow = FALSE
    /\ asked = {}

Dns(d) == world.dns[url[d].domain]

Resolved(d) == Dns(d).system \cup Dns(d).udp \cup Dns(d).https

\* The flows that startCleartextFlows and startSecureFlows start: http URLs
\* are fetched in cleartext, with TLS on the side unless the port is custom.
FlowsFor(d, addrs) ==
    {<<d, a, TRUE>> : a \in addrs} \cup
    IF url[d].https \/ url[d].port THEN {} ELSE {<<d, a, FALSE>> : a \in addrs}

StartFlows(fs) == flow' = [f \in Flows |-> IF f \in fs THEN "connect" ELSE flow[f]]

-----------------------------------------------------------------------------
(* DNSResolvers.Run.                                                       *)

UseCache(d) ==
    /\ resolvers[d] = "started"
    /\ \/ /\ url[d].domain \in cached
          /\ resolvers' = [resolvers EXCEPT ![d] = "resolved"]
          /\ UNCHANGED udp
       \/ /\ url[d].domain \notin cached
          /\ resolvers' = [resolvers EXCEPT ![d] = "lookup"]
          /\ udp' = [udp EXCEPT ![d] = "lookup"]
    /\ UNCHANGED <<world, url, main, counter, cached, selector, flow, answer, control, left,
                   requests, unmade, cancelled, slow, asked>>

\* lookupHostUDP hands over its addresses...
ReceiveUDP(d) ==
    /\ resolvers[d] = "lookup"
    /\ udp[d] = "lookup"
    /\ resolvers' = [resolvers EXCEPT ![d] = "received"]
    /\ udp' = [udp EXCEPT ![d] = "sent"]
    /\ UNCHANGED <<world, url, main, counter, cached, selector, flow, answer, control, left,
                   requests, unmade, cancelled, slow, asked>>

\* ...and only then enters the wait group, to wait for late replies.
AwaitLateReplies(d) ==
    /\ udp[d] = "sent"
    /\ udp' = [udp EXCEPT ![d] = "late"]
    /\ counter' = counter + 1
    /\ UNCHANGED <<world, url, main, resolvers, cached, selector, flow, answer, control, left,
                   requests, unmade, cancelled, slow, asked>>

WaitForLateReplies(d) ==
    /\ udp[d] = "late"
    /\ udp' = [udp EXCEPT ![d] = "done"]
    /\ counter' = counter - 1
    /\ UNCHANGED <<world, url, main, resolvers, cached, selector, flow, answer, control, left,
                   requests, unmade, cancelled, slow, asked>>

\* The other lookups, which have nothing to do after they have sent.
FinishLookup(d) ==
    /\ resolvers[d] = "received"
    /\ resolvers' = [resolvers EXCEPT ![d] = "resolved"]
    /\ cached' = cached \cup {url[d].domain}
    /\ UNCHANGED <<world, url, main, counter, udp, selector, flow, answer, control, left,
                   requests, unmade, cancelled, slow, asked>>

\* The control flow is for the first step only.
ControlWanted(d) == d = 0 /\ world.helpers

FanOut(d) ==
    LET fs == FlowsFor(d, Resolved(d)) IN
    /\ resolvers[d] = "resolved"
    /\ resolvers' = [resolvers EXCEPT ![d] = "done"]
    /\ selector' = [selector EXCEPT ![d].at = "idle"]
    /\ StartFlows(fs)
    /\ control' = IF ControlWanted(d) THEN "started" ELSE control
    /\ counter' = counter + Cardinality(fs) + (IF ControlWanted(d) THEN 1 ELSE 0) - 1
    /\ UNCHANGED <<world, url, main, udp, cached, answer, left, requests, unmade, cancelled, slow,
                   asked>>

-----------------------------------------------------------------------------
(* Control.Run.                                                            *)

\* Mutant: the addresses that only the helper knows are not measured.
ControlAnswers_NoExtra ==
    /\ control = "started"
    /\ control' = "answered"
    /\ counter' = counter - 1
    /\ UNCHANGED <<world, url, main, resolvers, udp, cached, selector, flow, answer, left,
                   requests, unmade, cancelled, slow, asked>>

ControlAnswers ==
    LET fs == FlowsFor(0, world.th \ Resolved(0)) IN
    /\ control = "started"
    /\ control' = "answered"
    /\ StartFlows(fs)
    /\ counter' = counter + Cardinality(fs) - 1
    /\ UNCHANGED <<world, url, main, resolvers, udp, cached, selector, answer, left, requests,
                   unmade, cancelled, slow, asked>>

ControlFails ==
    /\ control = "started"
    /\ control' = "failed"
    /\ counter' = counter - 1
    /\ UNCHANGED <<world, url, main, resolvers, udp, cached, selector, flow, answer, left,
                   requests, unmade, cancelled, slow, asked>>

-----------------------------------------------------------------------------
(* The priority selector.                                                  *)

\* A request is of the highest priority when its address comes from the best
\* of the resolvers that returned any.
IsHighestPriority(f) ==
    LET best == CASE Dns(f[1]).system # {} -> Dns(f[1]).system
                  [] Dns(f[1]).system = {} /\ Dns(f[1]).udp # {} -> Dns(f[1]).udp
                  [] Dns(f[1]).system = {} /\ Dns(f[1]).udp = {} /\ Dns(f[1]).https # {} ->
                        Dns(f[1]).https
                  [] OTHER -> Addrs
    IN f[2] \in best

\* Mutant: first come, first served.
FindHighestPriority_First(reqs) == reqs[1]

FindHighestPriority(reqs) ==
    LET high == {i \in DOMAIN reqs : IsHighestPriority(reqs[i])}
    IN IF high = {} THEN reqs[1] ELSE reqs[CHOOSE i \in high : \A j \in high : i <= j]

\* permissionToFetch sends its request, and selector receives it.
Ask(f) ==
    LET d == f[1] IN
    /\ flow[f] = "ask"
    /\ flow' = [flow EXCEPT ![f] = "asked"]
    /\ \/ /\ selector[d].at = "idle" /\ IsHighestPriority(f)
          /\ selector' = [selector EXCEPT ![d].at = "over"]
          /\ answer' = [answer EXCEPT ![f] = "yes"]
       \/ /\ selector[d].at = "idle" /\ ~ IsHighestPriority(f)
          /\ selector' = [selector EXCEPT ![d] = [at |-> "collect", reqs |-> <<f>>]]
          /\ UNCHANGED answer
       \/ /\ selector[d].at = "collect"
          /\ selector' = [selector EXCEPT ![d].reqs = Append(@, f)]
          /\ UNCHANGED answer
    /\ UNCHANGED <<world, url, main, counter, resolvers, udp, cached, control, left, requests,
                   unmade, cancelled, slow, asked>>

\* The time to collect requests is over: one is granted, the others are not.
Expire(d) ==
    LET reqs == selector[d].reqs
        best == FindHighestPriority(reqs)
        collected == {reqs[i] : i \in DOMAIN reqs} IN
    /\ selector[d].at = "collect"
    /\ selector' = [selector EXCEPT ![d].at = "over"]
    /\ answer' = [f \in Flows |-> CASE f = best -> "yes"
                                    [] f \in collected \ {best} -> "no"
                                    [] OTHER -> answer[f]]
    /\ UNCHANGED <<world, url, main, counter, resolvers, udp, cached, flow, control, left,
                   requests, unmade, cancelled, slow, asked>>

Returned == main \in {"finalized", "unsubmitted", "failed"}

\* Mutant: the selector has a timeout of its own.
StopSelector_Timeout(d) ==
    /\ selector[d].at \in {"idle", "collect"}
    /\ selector' = [selector EXCEPT ![d].at = "over"]
    /\ UNCHANGED <<world, url, main, counter, resolvers, udp, cached, flow, answer, control, left,
                   requests, unmade, cancelled, slow, asked>>

\* Mutant: Run does not cancel the context when it returns.
StopSelector_NoCancel(d) ==
    /\ cancelled
    /\ StopSelector_Timeout(d)

\* The context ends: Run cancels it when it returns.
StopSelector(d) ==
    /\ selector[d].at \in {"idle", "collect"}
    /\ cancelled \/ Returned
    /\ selector' = [selector EXCEPT ![d].at = "over"]
    /\ UNCHANGED <<world, url, main, counter, resolvers, udp, cached, flow, answer, control, left,
                   requests, unmade, cancelled, slow, asked>>

-----------------------------------------------------------------------------
(* CleartextFlow.Run and SecureFlow.Run.                                   *)

EndFlow(f) ==
    /\ flow' = [flow EXCEPT ![f] = "done"]
    /\ counter' = counter - 1

\* The address is refused, or connect or the handshake fails, or the flow is
\* one that does not fetch.
StopFlow(f) ==
    /\ flow[f] = "connect"
    /\ EndFlow(f)
    /\ UNCHANGED <<world, url, main, resolvers, udp, cached, selector, answer, control, left,
                   requests, unmade, cancelled, slow, asked>>

Connect(f) ==
    /\ flow[f] = "connect"
    /\ f[3]
    /\ flow' = [flow EXCEPT ![f] = "ask"]
    /\ asked' = asked \cup {f}
    /\ UNCHANGED <<world, url, main, counter, resolvers, udp, cached, selector, answer, control,
                   left, requests, unmade, cancelled, slow>>

\* The 10 ms to send pass: always so when nobody receives any more.
SendTimeout(f) ==
    /\ flow[f] = "ask"
    /\ EndFlow(f)
    /\ slow' = (slow \/ selector[f[1]].at # "over")
    /\ UNCHANGED <<world, url, main, resolvers, udp, cached, selector, answer, control, left,
                   requests, unmade, cancelled, asked>>

\* The second to receive passes: always so when the selector has left with
\* the context and without an answer.
ReceiveTimeout(f) ==
    /\ flow[f] = "asked"
    /\ EndFlow(f)
    /\ slow' = (slow \/ answer[f] # "none" \/ selector[f[1]].at # "over")
    /\ UNCHANGED <<world, url, main, resolvers, udp, cached, selector, answer, control, left,
                   requests, unmade, cancelled, asked>>

NotPermitted(f) ==
    /\ flow[f] = "asked"
    /\ answer[f] = "no"
    /\ EndFlow(f)
    /\ UNCHANGED <<world, url, main, resolvers, udp, cached, selector, answer, control, left,
                   requests, unmade, cancelled, slow, asked>>

Permitted(f) ==
    /\ flow[f] = "asked"
    /\ answer[f] = "yes"
    /\ flow' = [flow EXCEPT ![f] = "fetch"]
    /\ UNCHANGED <<world, url, main, counter, resolvers, udp, cached, selector, answer, control,
                   left, requests, unmade, cancelled, slow, asked>>

\* Mutant: the requests are in the order of the fetches.
PrependRequests_Append(f, outcome) == requests' = Append(requests, [flow |-> f, outcome |-> outcome])

PrependRequests(f, outcome) == requests' = <<[flow |-> f, outcome |-> outcome]>> \o requests

\* newHTTPRequest does not like the URL.
CannotRequest(f) ==
    /\ flow[f] = "fetch"
    /\ unmade' = unmade \cup {f[1]}
    /\ EndFlow(f)
    /\ UNCHANGED <<world, url, main, resolvers, udp, cached, selector, answer, control, left,
                   requests, cancelled, slow, asked>>

\* The transaction ends with a page, or with an error: of the network, of a
\* redirect that does not make sense, or of one too many.
Fetch(f) ==
    /\ flow[f] = "fetch"
    /\ \/ PrependRequests(f, "page") /\ UNCHANGED left
       \/ PrependRequests(f, "error") /\ UNCHANGED left
       \/ left <= 0 /\ PrependRequests(f, "error") /\ left' = left - 1
    /\ EndFlow(f)
    /\ UNCHANGED <<world, url, main, resolvers, udp, cached, selector, answer, control, unmade,
                   cancelled, slow, asked>>

\* Mutant: the next step starts outside of the wait group.
FollowRedirect_NoAdd(f, u) ==
    LET d == f[1] + 1 IN
    /\ flow[f] = "fetch"
    /\ left > 0
    /\ left' = left - 1
    /\ PrependRequests(f, "redirect")
    /\ url' = [url EXCEPT ![d] = u]
    /\ resolvers' = [resolvers EXCEPT ![d] = "started"]
    /\ EndFlow(f)
    /\ UNCHANGED <<world, main, udp, cached, selector, answer, control, unmade, cancelled, slow,
                   asked>>

\* CanFollowOneMoreRedirect, then maybeFollowRedirects starts the next step
\* before the flow leaves the wait group.
FollowRedirect(f, u) ==
    LET d == f[1] + 1 IN
    /\ flow[f] = "fetch"
    /\ left > 0
    /\ left' = left - 1
    /\ PrependRequests(f, "redirect")
    /\ url' = [url EXCEPT ![d] = u]
    /\ resolvers' = [resolvers EXCEPT ![d] = "started"]
    /\ flow' = [flow EXCEPT ![f] = "done"]
    /\ UNCHANGED <<world, main, counter, udp, cached, selector, answer, control, unmade,
                   cancelled, slow, asked>>

-----------------------------------------------------------------------------
(* Measurer.Run.                                                           *)

Join ==
    /\ main = "wait"
    /\ counter = 0
    /\ main' = "joined"
    /\ UNCHANGED <<world, url, counter, resolvers, udp, cached, selector, flow, answer, control,
                   left, requests, unmade, cancelled, slow, asked>>

\* The results of a cancelled measurement are not trusted; those of a URL that
\* cannot be requested are finalized, and Run then returns the error.
Return ==
    /\ main = "joined"
    /\ main' = CASE cancelled -> "failed"
                 [] ~ cancelled /\ 0 \in unmade -> "unsubmitted"
                 [] OTHER -> "finalized"
    /\ UNCHANGED <<world, url, counter, resolvers, udp, cached, selector, flow, answer, control,
                   left, requests, unmade, cancelled, slow, asked>>

Cancel ==
    /\ ~ cancelled
    /\ ~ Returned
    /\ cancelled' = TRUE
    /\ UNCHANGED <<world, url, main, counter, resolvers, udp, cached, selector, flow, answer,
                   control, left, requests, unmade, slow, asked>>

ResolversStep(d) ==
    \/ UseCache(d) \/ ReceiveUDP(d) \/ AwaitLateReplies(d) \/ WaitForLateReplies(d)
    \/ FinishLookup(d) \/ FanOut(d)

SelectorStep(d) == Expire(d) \/ StopSelector(d)

FlowStep(f) ==
    \/ Connect(f) \/ StopFlow(f) \/ Ask(f) \/ SendTimeout(f) \/ ReceiveTimeout(f)
    \/ NotPermitted(f) \/ Permitted(f) \/ CannotRequest(f) \/ Fetch(f)
    \/ \E u \in Urls : FollowRedirect(f, u)

ControlStep == ControlAnswers \/ ControlFails

RunStep == Join \/ Return

Next ==
    \/ \E d \in Depths : ResolversStep(d) \/ SelectorStep(d)
    \/ \E f \in Flows : FlowStep(f)
    \/ ControlStep
    \/ RunStep
    \/ Cancel

\* Every goroutine keeps going: each operation it waits for has a timeout.
Fairness ==
    /\ \A d \in Depths : WF_vars(ResolversStep(d)) /\ WF_vars(SelectorStep(d))
    /\ \A f \in Flows : WF_vars(FlowStep(f))
    /\ WF_vars(ControlStep)
    /\ WF_vars(RunStep)

Spec == Init /\ [][Next]_vars /\ Fairness

-----------------------------------------------------------------------------
(* Properties.                                                             *)

Busy(f) == flow[f] \notin {"off", "done"}

\* When the wait group lets Run go on, every task that writes test keys is
\* over, except for the waiting for late DNS replies: a task always starts the
\* next one before it leaves the group, through redirects and control flow.
JoinIsComplete ==
    main # "wait" =>
        /\ \A d \in Depths : resolvers[d] \in {"off", "done"}
        /\ \A f \in Flows : ~ Busy(f)
        /\ control # "started"

\* The requests are one per step of the chain of redirects, the last step
\* first, as the analysis takes them: no step is fetched twice whatever
\* connections race for it, the order survives the concurrency, and the chain
\* is no longer than the redirects that may be followed.
RequestsInOrder ==
    /\ Len(requests) <= MaxRedirects + 1
    /\ \A i \in DOMAIN requests :
          /\ requests[i].flow[1] = Len(requests) - i
          /\ i > 1 => requests[i].outcome = "redirect"

\* The permission to fetch a page goes to a connection of the highest
\* priority, if one asked before the time to collect requests was over, and
\* otherwise to the one that asked first: no race between the first request,
\* the later ones and the timer changes that. Only the highest class is told
\* apart. Among the others the first to ask wins, which is not the order
\* system, UDP, DoH, test helper that the selector is documented to follow.
PriorityRespected ==
    \A f \in Flows :
        answer[f] = "yes" =>
            LET reqs == selector[f[1]].reqs IN
            \/ IsHighestPriority(f)
            \/ /\ reqs # << >> /\ f = reqs[1]
               /\ \A i \in DOMAIN reqs : ~ IsHighestPriority(reqs[i])

\* A finalized measurement has a fetch for every step where some connection
\* got as far as asking for one, even if it came last, from the test helper:
\* permission is always given to somebody who is still there to use it,
\* unless a timer beat a goroutine that was ready or a redirect is to a URL
\* that cannot be requested.
SomebodyFetches ==
    main = "finalized" /\ ~ slow =>
        \A f \in asked :
            f[1] \in unmade \/ \E i \in DOMAIN requests : requests[i].flow[1] = f[1]

\* A finalized measurement has measured every address of the first step that
\* any resolver returned, and every one of the test helper's if it answered.
EveryAddressMeasured ==
    main = "finalized" =>
        /\ \A a \in Resolved(0) : flow[<<0, a, TRUE>>] = "done"
        /\ control = "answered" => \A a \in world.th : flow[<<0, a, TRUE>>] = "done"
        /\ world.helpers <=> control # "off"

\* A finalized measurement is complete.
MeasurementIsComplete == SomebodyFetches /\ EveryAddressMeasured

Quiet ==
    /\ Returned
    /\ \A d \in Depths : selector[d].at \in {"off", "over"} /\ udp[d] \in {"off", "done"}
    /\ \A f \in Flows : ~ Busy(f)

\* Run returns, and in the end no goroutine is left behind: nobody waits for
\* a permission that never comes, and the selectors nobody asks stop.
RunReturns == <>Quiet
=============================================================================
