---------------------------- MODULE WebAnalysis ----------------------------
(***************************************************************************)
(* The analysis of a Web Connectivity LTE measurement: the lookups and     *)
(* connections of the probe arrive in any order, the test helper measures  *)
(* the same site, and Finalize turns the events into observations, cross   *)
(* references them with the control and computes the verdict of the        *)
(* classic engine (blocking, accessible) and the flags of the extended     *)
(* one.  The events are state; the analysis is a pure function of them.    *)
(*                                                                         *)
(* A missing value (optional.None) is "none" and the absence of failure    *)
(* (the empty string) is "ok".                                             *)
(***************************************************************************)
EXTENDS Integers, Sequences

CONSTANTS
    Addrs,      \* IP addresses: public ones and
    Loopback,   \* those that neither the probe nor the helper connects to
    IPv6,       \* those that need IPv6
    Asn,        \* Asn[a]: the autonomous system of a
    Lookups,    \* the lookups of a step, as <<engine, query type>>
    Answers,    \* Answers[name][l]: what the lookup l of a domain may return
    Reactions,  \* Reactions[fetch]: what a connection of the probe may come to
    Helpers,    \* what the test helper may see: http is "none" if it is unreachable
    Targets,    \* where a redirect may lead
    FailureOrder  \* the failures of netxlite, in the order of their names; "ok" is the empty string

\* What an operation may come to.
Failures == {FailureOrder[i] : i \in DOMAIN FailureOrder}

ASSUME FailuresAssumption ==
    /\ FailureOrder \in Seq(STRING \ {"none"})
    /\ FailureOrder # << >> /\ FailureOrder[1] = "ok"
    /\ \A i, j \in DOMAIN FailureOrder : FailureOrder[i] = FailureOrder[j] => i = j

ASSUME AddrsAssumption == Loopback \subseteq Addrs /\ IPv6 \subseteq Addrs /\ Asn \in [Addrs -> Nat]

ASSUME AnswersAssumption ==
    \A name \in {"x"} \cup {t.domain : t \in Targets} : \A l \in Lookups :
        Answers[name][l] \subseteq [failure : Failures, addrs : SUBSET Addrs]

\* Only a response may be final.
ASSUME ReactionsAssumption ==
    \A fetch \in BOOLEAN : \A r \in Reactions[fetch] :
        /\ r \in [tcp : Failures, tls : Failures \cup {"none"}, http : Failures \cup {"none"},
                  final : BOOLEAN, diff : [{"status", "body", "headers", "title"} -> STRING]]
        /\ r.final => r.http = "ok"

VARIABLES
    https,      \* the input is an https URL
    helper,     \* what the test helper saw of the site
    target,     \* where the site redirected the probe: NoTarget at first
    queries,    \* TestKeys.Queries
    conns,      \* TCPConnect, TLSHandshakes and Requests, in the order of the transactions
    finalized   \* Finalize was called

vars == <<https, helper, target, queries, conns, finalized>>

NoTarget == [domain |-> "none", https |-> FALSE]

Init ==
    /\ https \in BOOLEAN
    /\ helper \in Helpers
    /\ target = NoTarget
    /\ queries = << >>
    /\ conns = << >>
    /\ finalized = FALSE

Depth == IF target = NoTarget THEN 0 ELSE 1

\* The first step is about the domain of the input.
Domain(d) == IF d = 0 THEN "x" ELSE target.domain

Secure(d) == IF d = 0 THEN https ELSE target.https

InStep(s, d) == {i \in DOMAIN s : s[i].depth = d}

-----------------------------------------------------------------------------
(* The test helper.                                                        *)

\* dnsMapFailure: an empty answer is not a failure.
DnsMapFailure(failure) ==
    CASE failure \in {"ok", "dns_no_answer"} -> "ok"
      [] failure = "dns_nxdomain_error" -> "dns_name_error"
      [] failure \in {"dns_refused_error", "dns_server_misbehaving", "dns_temporary_failure",
                      "dns_non_recoverable_failure"} -> "dns_server_failure"
      [] OTHER -> "unknown_error"

ResolvedByProbe == UNION {queries[i].addrs : i \in InStep(queries, 0)}

\* newIPInfo, ipInfoToEndpoints and tcpTLSDo: the addresses that either side
\* resolved, on port 443 and, for http, on port 80.
ThTcp(a, port) ==
    IF \/ helper.http = "none" \/ a \in Loopback
       \/ a \notin ResolvedByProbe \cup helper.addrs
       \/ (port = 80 /\ https)
    THEN "none"
    ELSE IF a \in helper.unreachable THEN "generic_timeout_error" ELSE "ok"

\* A handshake needs a connection, and is about the domain of the input.
ThTls(a, port, sni) ==
    IF port = 443 /\ sni = "x" /\ ThTcp(a, port) = "ok" THEN helper.tls ELSE "none"

-----------------------------------------------------------------------------
(* The events.                                                             *)

\* The cache answers for the domain of the first step.
LookupsDone(d) ==
    \/ (d = 1 /\ Domain(1) = Domain(0))
    \/ \A l \in Lookups : \E i \in InStep(queries, d) : <<queries[i].engine, queries[i].qtype>> = l

AddressesOf(d) ==
    LET here == IF d = 1 /\ Domain(1) = Domain(0) THEN 0 ELSE d
    IN UNION {queries[i].addrs : i \in InStep(queries, here)}

AppendQueries(l, ans) ==
    /\ ~ finalized
    /\ ~ LookupsDone(Depth)
    /\ \A i \in InStep(queries, Depth) : <<queries[i].engine, queries[i].qtype>> # l
    /\ queries' = Append(queries, [depth |-> Depth, engine |-> l[1], qtype |-> l[2],
                                   failure |-> ans.failure, addrs |-> ans.addrs])
    /\ UNCHANGED <<https, helper, target, conns, finalized>>

\* The connections still to make: to the addresses of the resolvers and, at
\* first, to those that only the helper knows; to fetch the page and, for an
\* http page, to check port 443.
Wanted(d, a, fetch) ==
    /\ a \in AddressesOf(d) \/ (d = 0 /\ a \in helper.addrs)
    /\ a \notin Loopback
    /\ fetch \/ ~ Secure(d)
    /\ \A i \in InStep(conns, d) : conns[i].addr # a \/ conns[i].fetch # fetch

\* Which transaction comes next: the addresses of the resolvers, in any order,
\* are all for fetching first and then, in the same order, for checking.
MayStart(d, a, fetch) ==
    /\ Wanted(d, a, fetch)
    /\ fetch \/ \A i \in InStep(conns, d) :
                   conns[i].fetch /\ Wanted(d, conns[i].addr, FALSE) =>
                   \E j \in InStep(conns, d) : j <= i /\ conns[j].fetch /\ conns[j].addr = a
    /\ \A b \in AddressesOf(d) \ {a} :
          ~ Wanted(d, b, TRUE) \/ (fetch /\ a \in AddressesOf(d))
    /\ a \in AddressesOf(d) \/ \A b \in AddressesOf(d) : ~ Wanted(d, b, FALSE)

\* A reaction of the site says how far the connection gets, and why it stops:
\* [tcp, tls, http, final, diff].  At most one connection of a step fetches:
\* it may be none, if the request cannot be made.
AppendConn(a, fetch) ==
    LET d == Depth IN
    /\ ~ finalized
    /\ LookupsDone(d)
    /\ MayStart(d, a, fetch)
    /\ \E r \in Reactions[fetch] :
          /\ (r.tls # "none") <=> (r.tcp = "ok" /\ (Secure(d) \/ ~ fetch))
          /\ r.http # "none" => /\ fetch /\ r.tcp = "ok" /\ r.tls \in {"none", "ok"}
                                /\ \A i \in InStep(conns, d) : conns[i].http = "none"
          /\ conns' = Append(conns, [depth |-> d, addr |-> a, fetch |-> fetch,
                                     tcp |-> r.tcp, tls |-> r.tls, http |-> r.http,
                                     final |-> r.final, diff |-> r.diff])
    /\ UNCHANGED <<https, helper, target, queries, finalized>>

Complete(d) == LookupsDone(d) /\ \A a \in Addrs, fetch \in BOOLEAN : ~ Wanted(d, a, fetch)

\* A response that is not final and is a redirect: one is followed.
FollowRedirect ==
    /\ ~ finalized
    /\ target = NoTarget
    /\ Complete(0)
    /\ \E i \in DOMAIN conns : conns[i].http = "ok" /\ ~ conns[i].final
    /\ target' \in Targets
    /\ UNCHANGED <<https, helper, queries, conns, finalized>>

Finalize ==
    /\ ~ finalized
    /\ Complete(Depth)
    /\ finalized' = TRUE
    /\ UNCHANGED <<https, helper, target, queries, conns>>

Next ==
    \/ \E l \in Lookups : \E ans \in Answers[Domain(Depth)][l] : AppendQueries(l, ans)
    \/ \E a \in Addrs, fetch \in BOOLEAN : AppendConn(a, fetch)
    \/ FollowRedirect
    \/ Finalize

Spec == Init /\ [][Next]_vars

-----------------------------------------------------------------------------
(* The observations.                                                       *)

HasControl == helper.http # "none"

\* The lookups of the domain of the input have a control.
ControlDNSLookupFailure(q) ==
    IF HasControl /\ Domain(q.depth) = "x" THEN DnsMapFailure(helper.dns) ELSE "none"

\* ingestDNSLookupFailures, ingestDNSLookupSuccesses, controlXrefDNSQueries.
DNSObservation(i) ==
    LET q == queries[i] IN
    [depth |-> q.depth, engine |-> q.engine, qtype |-> q.qtype, failure |-> q.failure,
     addrs |-> q.addrs, type |-> 0, id |-> i, final |-> FALSE, http |-> "none", tls |-> "none",
     own |-> ControlDNSLookupFailure(q)]

DNSObservations == {DNSObservation(i) : i \in DOMAIN queries}

\* knownIPAddresses keeps the first lookup that resolved an address.
FirstLookup(a) ==
    LET found == {i \in DOMAIN queries : a \in queries[i].addrs}
    IN IF found = {} THEN 0 ELSE CHOOSE i \in found : \A j \in found : i <= j

\* controlMatchDNSLookupResults: an address no lookup knows is the helper's.
IPAddressOrigin(a) ==
    CASE FirstLookup(a) # 0 -> "dns"
      [] FirstLookup(a) = 0 /\ a \in helper.addrs -> "th"
      [] OTHER -> "none"

\* IngestTCPConnectEvents, IngestTLSHandshakeEvents, IngestHTTPRoundTripEvents:
\* an observation is about the last operation of its transaction, and has the
\* control of that operation.
EndpointObservation(i) ==
    LET c == conns[i]
        port == IF c.fetch /\ ~ Secure(c.depth) THEN 80 ELSE 443
        type == CASE c.http # "none" -> 3 [] c.http = "none" /\ c.tls # "none" -> 2 [] OTHER -> 1
    IN [depth |-> c.depth, addr |-> c.addr, fetch |-> c.fetch, tcp |-> c.tcp, tls |-> c.tls,
        http |-> c.http, final |-> c.final, diff |-> c.diff, type |-> type, id |-> i,
        failure |-> CASE type = 3 -> c.http [] type = 2 -> c.tls [] type = 1 -> c.tcp,
        ctcp |-> ThTcp(c.addr, port),
        ctls |-> IF c.tls = "none" THEN "none" ELSE ThTls(c.addr, port, Domain(c.depth)),
        own |-> CASE type = 3 -> helper.http
                  [] type = 2 -> ThTls(c.addr, port, Domain(c.depth))
                  [] type = 1 -> ThTcp(c.addr, port)]

EndpointObservations == {EndpointObservation(i) : i \in DOMAIN conns}

\* Mutant: an address belongs to the resolver that answered first.
ClassicFilter_FirstLookup ==
    {o \in DNSObservations : o.engine = "getaddrinfo"} \cup
    {o \in EndpointObservations :
        /\ o.fetch
        /\ CASE IPAddressOrigin(o.addr) = "th" -> FALSE
             [] IPAddressOrigin(o.addr) = "dns" -> queries[FirstLookup(o.addr)].engine = "getaddrinfo"
             [] OTHER -> TRUE}

\* ClassicFilter: what the system resolver would have led to.
ClassicFilter ==
    LET system == {o \in DNSObservations : o.engine = "getaddrinfo"} IN
    system \cup
    {o \in EndpointObservations :
        /\ o.fetch
        /\ CASE IPAddressOrigin(o.addr) = "th" -> FALSE
             [] IPAddressOrigin(o.addr) = "dns" -> \E q \in system : o.addr \in q.addrs
             [] OTHER -> TRUE}

-----------------------------------------------------------------------------
(* The metrics of minipipeline.WebAnalysis, about sets of observations.    *)

DnsOf(obs) == {o \in obs : o.type = 0}

EndpointsOf(obs) == {o \in obs : o.type # 0}

Failed(failure) == failure \notin {"none", "ok"}

\* The A and AAAA lookups are one transaction, of which only the first event
\* that failed and the first that succeeded are considered.
Considered(dns) ==
    {o \in dns : ~ \E p \in dns : /\ p.depth = o.depth /\ p.engine = o.engine /\ p.id < o.id
                                  /\ (p.failure = "ok") <=> (o.failure = "ok")}

DNSLookupSuccess(obs) == {o \in Considered(DnsOf(obs)) : o.depth = 0 /\ o.failure = "ok"}

\* ControlDNSResolvedAddrs is there when the control did not fail.
Comparable(o) == o.own = "ok"

\* The addresses, or the networks they are in, intersect.
DNSDiffCommon(measurement, control) ==
    \/ measurement \cap control # {}
    \/ ({Asn[a] : a \in measurement} \cap {Asn[a] : a \in control}) \ {0} # {}

DNSLookupSuccessWithValidAddressClassic(obs) ==
    {o \in DNSLookupSuccess(obs) : Comparable(o) /\ DNSDiffCommon(o.addrs, helper.addrs)}

DNSLookupSuccessWithInvalidAddressesClassic(obs) ==
    {o \in DNSLookupSuccess(obs) : Comparable(o) /\ ~ DNSDiffCommon(o.addrs, helper.addrs)}

\* A handshake vouches for the lookup its address is known from.
DNSLookupSuccessWithInvalidAddresses(obs) ==
    {o \in DNSLookupSuccessWithInvalidAddressesClassic(obs) :
        ~ \E e \in EndpointsOf(obs) :
            /\ e.tls = "ok"
            /\ FirstLookup(e.addr) # 0
            /\ queries[FirstLookup(e.addr)].depth = o.depth
            /\ queries[FirstLookup(e.addr)].engine = o.engine}

\* What a DNS-over-HTTPS failure or a missing AAAA record says is not about
\* the site; it still hides a later failure of the same transaction.
FailuresOfSite(obs) ==
    {o \in Considered(DnsOf(obs)) :
        /\ Failed(o.failure)
        /\ o.engine # "doh"
        /\ ~ (o.qtype = "AAAA" /\ o.failure = "dns_no_answer")}

\* For historical reasons the helper reports no answer as no address.
NoAnswerExpected(o) == o.failure = "dns_no_answer" /\ o.own = "ok" /\ helper.addrs = {}

DNSLookupExpectedFailure(obs) ==
    {o \in FailuresOfSite(obs) : o.depth = 0 /\ (Failed(o.own) \/ NoAnswerExpected(o))}

DNSLookupUnexpectedFailure(obs) ==
    {o \in FailuresOfSite(obs) : o.depth = 0 /\ o.own = "ok" /\ ~ NoAnswerExpected(o)}

DNSLookupUnexplainedFailure(obs) == {o \in FailuresOfSite(obs) : o.depth # 0}

SeemsMisconfiguredIPv6(o) ==
    o.tcp \in {"host_unreachable", "network_unreachable"} /\ o.addr \in IPv6

\* A failure of the first step is unexpected when the control did better; a
\* later one has no control.
TCPConnectUnexpectedFailure(obs) ==
    {o \in EndpointsOf(obs) :
        o.depth = 0 /\ Failed(o.tcp) /\ o.ctcp = "ok" /\ ~ SeemsMisconfiguredIPv6(o)}

TCPConnectUnexplainedFailure(obs) ==
    {o \in EndpointsOf(obs) : o.depth # 0 /\ Failed(o.tcp) /\ ~ SeemsMisconfiguredIPv6(o)}

TLSHandshakeUnexpectedFailure(obs) ==
    {o \in EndpointsOf(obs) : o.depth = 0 /\ Failed(o.tls) /\ o.ctls = "ok"}

TLSHandshakeUnexplainedFailure(obs) ==
    {o \in EndpointsOf(obs) : o.depth # 0 /\ Failed(o.tls)}

\* The control of a round trip is the page, whatever the step.
HTTPRoundTripUnexpectedFailure(obs) ==
    {o \in EndpointsOf(obs) : Failed(o.http) /\ helper.http = "ok"}

FinalResponses(obs) == {o \in EndpointsOf(obs) : o.http = "ok" /\ o.final}

-----------------------------------------------------------------------------
(* The classic engine.                                                     *)

\* analysisHTTPDiffAlgorithm: without the control's page nothing matches.
HTTPDiff(o) ==
    ~ /\ helper.http = "ok"
      /\ o.diff.status = "match"
      /\ \E what \in {"body", "headers", "title"} : o.diff[what] = "match"

DNSConsistency ==
    LET obs == ClassicFilter
        invalid == DNSLookupSuccessWithInvalidAddressesClassic(obs)
    IN CASE /\ DNSLookupUnexpectedFailure(obs) = {} /\ invalid = {}
            /\ \/ DNSLookupSuccessWithValidAddressClassic(obs) # {}
               \/ DNSLookupExpectedFailure(obs) # {} -> "consistent"
         [] \/ invalid # {} \/ DNSLookupUnexpectedFailure(obs) # {}
            \/ (DNSLookupSuccess(obs) # {} /\ HasControl /\ helper.addrs = {}) -> "inconsistent"
         [] OTHER -> "none"

Accessible == [blocking |-> "false", accessible |-> "true"]

\* setBlockingString, setBlockingNil, setWebsiteDown: inconsistent DNS is
\* blamed first.
OrBlameDNS(verdict) ==
    IF DNSConsistency = "inconsistent" THEN [blocking |-> "dns", accessible |-> "false"]
    ELSE verdict

SetBlockingString(value) == OrBlameDNS([blocking |-> value, accessible |-> "false"])

SetBlockingNil == OrBlameDNS([blocking |-> "nil", accessible |-> "none"])

SetWebsiteDown == OrBlameDNS([blocking |-> "false", accessible |-> "false"])

OnlyLoopback(addrs) == addrs # {} /\ addrs \subseteq Loopback

\* A failure without a control of its own is blocking if the control fetched,
\* or tried to fetch, the page; one that the control shares is not blocking.
FailureVerdict(o) ==
    CASE o.own = "none" /\ helper.http # "none" ->
            SetBlockingString(IF o.type = 0 THEN "dns" ELSE "http-failure")
      [] o.own = "none" /\ helper.http = "none" -> IF o.type = 0 THEN Accessible ELSE SetBlockingNil
      [] Failed(o.own) \/ (o.type = 0 /\ NoAnswerExpected(o)) -> SetWebsiteDown
      [] OTHER -> SetBlockingString(
                      CASE o.type = 0 -> "dns" [] o.type = 1 -> "tcp_ip" [] OTHER -> "http-failure")

\* Mutant: without a control the page is compared with an empty one.
FinalVerdict_AlwaysCompares(o) ==
    IF o.tls = "ok" THEN Accessible
    ELSE IF HTTPDiff(o) THEN SetBlockingString("http-diff") ELSE Accessible

\* A page over TLS is the right one; another is compared with the control's.
FinalVerdict(o) ==
    IF o.tls = "ok" THEN Accessible
    ELSE IF ~ HasControl THEN SetBlockingNil
    ELSE IF HTTPDiff(o) THEN SetBlockingString("http-diff") ELSE Accessible

\* The probe only sees addresses it may not connect to.
LoopbackOnly(o) == o.type = 0 /\ o.failure = "ok" /\ o.own = "ok" /\ OnlyLoopback(o.addrs)

Decides(o) == Failed(o.failure) \/ o.final \/ LoopbackOnly(o)

\* The failures are compared by name.
Rank(failure) == CHOOSE i \in DOMAIN FailureOrder : FailureOrder[i] = failure

\* Mutant: simpler operations first.
SortKey_Simplest(o) == <<- o.depth, o.type, Rank(o.failure), - o.id>>

\* NewLinearWebAnalysis: by depth and type, both descending, then by failure,
\* then by descending transaction.
SortKey(o) == <<- o.depth, - o.type, Rank(o.failure), - o.id>>

Before(o, p) ==
    \E i \in 1 .. 4 : /\ SortKey(o)[i] < SortKey(p)[i]
                      /\ \A j \in 1 .. i - 1 : SortKey(o)[j] = SortKey(p)[j]

VerdictOf(o) ==
    CASE o.final -> FinalVerdict(o)
      [] ~ o.final /\ Failed(o.failure) -> FailureVerdict(o)
      [] OTHER -> IF OnlyLoopback(helper.addrs) THEN SetWebsiteDown ELSE SetBlockingString("dns")

\* analysisClassicComputeBlockingAccessible: the first that decides.
Classic ==
    LET deciding == {o \in ClassicFilter : Decides(o)}
    IN IF deciding = {} THEN [blocking |-> "nil", accessible |-> "none"]
       ELSE VerdictOf(CHOOSE o \in deciding : \A p \in deciding \ {o} : Before(o, p))

-----------------------------------------------------------------------------
(* The extended engine.                                                    *)

AllObservations == DNSObservations \cup EndpointObservations

When(flag, set) == IF set # {} THEN {flag} ELSE {}

\* analysisExtDNS and analysisExtEndpointFailure: what the control shows to be
\* unexpected.
UnexpectedFlags ==
    LET obs == AllObservations IN
    UNION {When("dns", DNSLookupUnexpectedFailure(obs)),
           When("dns", DNSLookupSuccessWithInvalidAddresses(obs)),
           When("tcp_ip", TCPConnectUnexpectedFailure(obs)),
           When("tls", TLSHandshakeUnexpectedFailure(obs)),
           When("http", HTTPRoundTripUnexpectedFailure(obs))}

\* analysisExtRedirectErrors: failures after a redirect, when the control
\* fetched the page and the probe did not.
RedirectFlags ==
    LET obs == AllObservations IN
    IF FinalResponses(obs) # {} \/ helper.http # "ok" THEN {}
    ELSE UNION {When("dns", DNSLookupUnexplainedFailure(obs)),
                When("tcp_ip", TCPConnectUnexplainedFailure(obs)),
                When("tls", TLSHandshakeUnexplainedFailure(obs))}

\* analysisExtHTTPFinalResponse: a page over TLS is the right one.
FinalFlags ==
    UNION {IF o.tls = "ok" THEN {"success"}
           ELSE IF ~ HasControl THEN {}
           ELSE IF HTTPDiff(o) THEN {"http-diff"} ELSE {"success"} :
           o \in FinalResponses(AllObservations)}

BlockingFlags == UnexpectedFlags \cup RedirectFlags \cup FinalFlags

-----------------------------------------------------------------------------
(* Properties.                                                             *)

\* The verdict accuses somebody.
Blocked == Classic.blocking \notin {"nil", "false"}

\* When the test helper is unreachable there is nothing to compare with, and
\* neither engine accuses anybody: not for failures at any step, nor for the
\* addresses, nor for a page fetched in the clear.
NoAccusationWithoutControl ==
    finalized /\ ~ HasControl => ~ Blocked /\ BlockingFlags \subseteq {"success"}

\* When the helper answered, the site is said to be accessible exactly when an
\* address of the system resolver led to a final page that came over TLS or
\* resembles the helper's: failures of other addresses, at this step or an
\* earlier one, and inconsistent answers do not change that, and nothing else
\* makes it so.
AccessibleIsWitnessed ==
    finalized /\ HasControl =>
        (Classic = Accessible <=> \E o \in FinalResponses(ClassicFilter) : o.tls = "ok" \/ ~ HTTPDiff(o))
=============================================================================
