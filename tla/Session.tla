------------------------------- MODULE Session -------------------------------
(***************************************************************************)
(* internal/engine/session.go: concurrent calls of the methods of one      *)
(* Session.  The probe service and the probe's location are looked up by   *)
(* the first method that needs them, under the mutex of the session, and   *)
(* memoised; then all share them.  Close releases what NewSession made.    *)
(*                                                                         *)
(* A method is the sequence of the stages it goes through.  What the       *)
(* network requests carry is abstracted: they succeed or they fail.  The   *)
(* registration that newOrchestraClient performs is in ProbeServices.      *)
(***************************************************************************)
EXTENDS Integers, FiniteSets, SequencesExt

CONSTANTS
  Services,     \* getAvailableProbeServices: a sequence of OOAPIService
  Callers,      \* goroutines that call a method of the session
  Closers,      \* goroutines that call Close afterwards
  MaxDuration,  \* bound: how long it takes to try a service
  None          \* a nil pointer

ASSUME SessionAssumption ==
  /\ Services \in Seq([Address : STRING, Type : {"https", "cloudfront", "onion"}])
  /\ MaxDuration \in Nat \ {0}
  /\ None \notin Callers \cup Closers

VARIABLES
  mu,          \* who holds the mutex, or None
  selected,    \* selectedProbeService and availableTestHelpers: a Candidate
  location,    \* whether the location is known
  method,      \* the method each goroutine has called
  todo,        \* the stages that each goroutine has still to go through
  done,        \* whether the context of each goroutine is done
  candidates,  \* TryAll: the candidates tried so far by each goroutine
  result,      \* what each method has returned
  resources,   \* what NewSession has acquired and nobody has released
  life,        \* whether there is a session, and whether it is closed
  closing,     \* closeOnce: who runs doClose, or None
  closed,      \* the goroutines for which Close has returned
  doomed,      \* history: the context was done before the method was called
  attempted    \* history: the goroutine has tried to use the network

lookups == <<selected, location>>
calls == <<method, todo, candidates, result>>
lifecycle == <<resources, life, closing, closed>>
history == <<doomed, attempted>>
vars == <<mu, lookups, calls, done, lifecycle, history>>

-----------------------------------------------------------------------------
(* probeservices/benchselect.go                                            *)

OfType(in, types) ==
  LET out[i \in 0..Len(in)] ==
        IF i = 0 THEN << >>
        ELSE IF in[i].Type \in types THEN Append(out[i - 1], in[i]) ELSE out[i - 1]
  IN out[Len(in)]

OnlyHTTPS(in) == OfType(in, {"https"})
SortServices(in) ==
  OfType(in, {"https"}) \o OfType(in, {"cloudfront"}) \o OfType(in, {"onion"})
OnlyFallbacks(in) == OfType(SortServices(in), {"cloudfront", "onion"})

Works(candidate) == candidate # None /\ ~candidate.Err
Found(out) == \E i \in DOMAIN out : Works(out[i])

\* Mutant: the fallbacks are tried in any case
TryAll_Always(out) ==
  SubSeq(SortServices(Services), Len(out) + 1, Len(Services))

\* TryAll: the services still to try after those in out.  The first fallback
\* that works ends the search.
TryAll(out) ==
  LET https == OnlyHTTPS(Services)
      all == https \o OnlyFallbacks(Services)
  IN SubSeq(all, Len(out) + 1, IF Found(out) THEN Len(https) ELSE Len(all))

\* Mutant: the slowest service
SelectBest_Slowest(out) ==
  LET selectedOf[i \in 0..Len(out)] ==
        IF i = 0 THEN None
        ELSE IF out[i].Err THEN selectedOf[i - 1]
        ELSE IF selectedOf[i - 1] = None \/ selectedOf[i - 1].Duration < out[i].Duration
        THEN out[i] ELSE selectedOf[i - 1]
  IN selectedOf[Len(out)]

\* SelectBest: what is selected among the first i candidates
SelectBest(out) ==
  LET selectedOf[i \in 0..Len(out)] ==
        IF i = 0 THEN None
        ELSE IF out[i].Err THEN selectedOf[i - 1]
        ELSE IF selectedOf[i - 1] = None \/ selectedOf[i - 1].Duration > out[i].Duration
        THEN out[i] ELSE selectedOf[i - 1]
  IN selectedOf[Len(out)]

Candidate ==
  [Service : Range(Services), Err : BOOLEAN, Duration : 0..MaxDuration]

ASSUME NilAssumption == None \notin Candidate

-----------------------------------------------------------------------------
(* The methods, and the stages they go through.                            *)

\* Mutant: a done context is not noticed before the backends are looked up
newProbeServicesClient_NoCheck == <<"backends", "context", "location">>

MaybeLookupLocation == <<"context", "location">>
newProbeServicesClient == <<"context", "backends">> \o MaybeLookupLocation

CheckIn ==
  MaybeLookupLocation \o newProbeServicesClient \o <<"read", "request">>

FetchTorTargets == newProbeServicesClient \o <<"request">>

\* Mutant: locks before the location, which locks too
FetchOpenVPNConfig_LocksEarlier ==
  newProbeServicesClient \o <<"request", "lock">> \o MaybeLookupLocation
    \o <<"request", "unlock">>

\* "We cannot lock earlier because newOrchestraClient and MaybeLookupLocation
\* both lock the mutex"
FetchOpenVPNConfig ==
  newProbeServicesClient \o <<"request">> \o MaybeLookupLocation
    \o <<"lock", "request", "unlock">>

\* Mutant: the location is looked up after the measurement is made
MeasureWithContext_Late == <<"read", "run">> \o MaybeLookupLocation \o <<"read">>

\* Makes a measurement with the location, runs the experiment, and scrubs the
\* IP address of the probe from the measurement
MeasureWithContext == MaybeLookupLocation \o <<"read", "run", "read">>

Stages(m) == CASE m = "CheckIn"            -> CheckIn
               [] m = "FetchTorTargets"    -> FetchTorTargets
               [] m = "FetchOpenVPNConfig" -> FetchOpenVPNConfig
               [] m = "MeasureWithContext" -> MeasureWithContext

Methods ==
  {"CheckIn", "FetchTorTargets", "FetchOpenVPNConfig", "MeasureWithContext"}

-----------------------------------------------------------------------------
Init ==
  /\ mu = None
  /\ selected = None
  /\ location = FALSE
  /\ method \in [Callers -> Methods]
  /\ todo = [c \in Callers |-> << >>]
  /\ done = [c \in Callers |-> FALSE]
  /\ candidates = [c \in Callers |-> << >>]
  /\ result = [c \in Callers |-> "none"]
  /\ resources = {}
  /\ life = "none"
  /\ closing = None
  /\ closed = {}
  /\ doomed = [c \in Callers |-> FALSE]
  /\ attempted = [c \in Callers |-> FALSE]

At(c, stage) == todo[c] # << >> /\ Head(todo[c]) = stage
Advance(c) == todo' = [todo EXCEPT ![c] = Tail(@)] /\ UNCHANGED result
Fail(c) ==
  /\ todo' = [todo EXCEPT ![c] = << >>]
  /\ result' = [result EXCEPT ![c] = "error"]
Attempt(c) == attempted' = [attempted EXCEPT ![c] = TRUE]

Begin(c) ==
  /\ life = "open"
  /\ result[c] = "none"
  /\ result' = [result EXCEPT ![c] = "running"]
  /\ todo' = [todo EXCEPT ![c] = Stages(method[c])]
  /\ doomed' = [doomed EXCEPT ![c] = done[c]]
  /\ UNCHANGED <<mu, lookups, method, candidates, done, lifecycle, attempted>>

Cancel(c) ==
  /\ ~done[c]
  /\ result[c] \in {"none", "running"}
  /\ done' = [done EXCEPT ![c] = TRUE]
  /\ UNCHANGED <<mu, lookups, calls, lifecycle, history>>

Return(c) ==
  /\ result[c] = "running"
  /\ todo[c] = << >>
  /\ result' = [result EXCEPT ![c] = "ok"]
  /\ UNCHANGED <<mu, lookups, method, todo, candidates, done, lifecycle, history>>

\* "This function will fail IMMEDIATELY if given a cancelled context"
CheckContext(c) ==
  /\ At(c, "context")
  /\ IF done[c] THEN Fail(c) ELSE Advance(c)
  /\ UNCHANGED <<mu, lookups, method, candidates, done, lifecycle, history>>

\* A getter that reads the location under the mutex
Read(c) ==
  /\ At(c, "read")
  /\ mu = None
  /\ Advance(c)
  /\ UNCHANGED <<mu, lookups, method, candidates, done, lifecycle, history>>

\* What is deferred until the method returns: unlocking the mutex
Unlocked(c) == IF mu = c THEN None ELSE mu

\* A request to the backend, or those of newOrchestraClient
Request(c) ==
  /\ At(c, "request")
  /\ Attempt(c)
  /\ \/ ~done[c] /\ Advance(c) /\ UNCHANGED mu
     \/ Fail(c) /\ mu' = Unlocked(c)
  /\ UNCHANGED <<lookups, method, candidates, done, lifecycle, doomed>>

\* The experiment decides what to do when its context is done
Run(c) ==
  /\ At(c, "run")
  /\ Attempt(c)
  /\ Advance(c) \/ Fail(c)
  /\ UNCHANGED <<mu, lookups, method, candidates, done, lifecycle, doomed>>

Lock(c) ==
  /\ At(c, "lock")
  /\ mu = None
  /\ mu' = c
  /\ Advance(c)
  /\ UNCHANGED <<lookups, method, candidates, done, lifecycle, history>>

Unlock(c) ==
  /\ At(c, "unlock")
  /\ mu' = Unlocked(c)
  /\ Advance(c)
  /\ UNCHANGED <<lookups, method, candidates, done, lifecycle, history>>

-----------------------------------------------------------------------------
(* MaybeLookupBackendsContext.                                             *)

BackendsKnown(c) ==
  /\ At(c, "backends")
  /\ mu = None
  /\ selected # None
  /\ Advance(c)
  /\ UNCHANGED <<mu, lookups, method, candidates, done, lifecycle, history>>

\* Mutant: the mutex is not held while the services are being tried
LookupBackends_Unlocked(c) ==
  /\ At(c, "backends")
  /\ mu = None
  /\ selected = None
  /\ todo' = [todo EXCEPT ![c] = <<"try">> \o Tail(@)]
  /\ UNCHANGED <<mu, lookups, method, candidates, result, done, lifecycle, history>>

LookupBackends(c) ==
  /\ At(c, "backends")
  /\ mu = None
  /\ selected = None
  /\ mu' = c
  /\ todo' = [todo EXCEPT ![c] = <<"try">> \o Tail(@)]
  /\ UNCHANGED <<lookups, method, candidates, result, done, lifecycle, history>>

\* Candidate.try: NewClient refuses the types that are not supported, and a
\* request fails once the context is done.  How long a failure took is not
\* recorded: nothing reads it.
Try(c) ==
  /\ At(c, "try")
  /\ TryAll(candidates[c]) # << >>
  /\ LET svc == Head(TryAll(candidates[c]))
         Tried(err, d) ==
           candidates' = [candidates EXCEPT ![c] = Append(@,
             [Service |-> svc, Err |-> err, Duration |-> d])]
     IN \/ svc.Type = "onion" /\ Tried(TRUE, 0) /\ UNCHANGED attempted
        \/ svc.Type # "onion" /\ Attempt(c) /\ Tried(TRUE, 0)
        \/ /\ svc.Type # "onion" /\ Attempt(c)
           /\ ~done[c]
           /\ \E d \in 1..MaxDuration : Tried(FALSE, d)
  /\ UNCHANGED <<mu, lookups, method, todo, result, done, lifecycle, doomed>>

\* The candidates are kept, as a history, by the call that selects one of them
SelectBackend(c) ==
  /\ At(c, "try")
  /\ TryAll(candidates[c]) = << >>
  /\ mu' = Unlocked(c)
  /\ selected' = SelectBest(candidates[c])
  /\ IF selected' = None
     THEN Fail(c) /\ candidates' = [candidates EXCEPT ![c] = << >>]
     ELSE Advance(c) /\ UNCHANGED candidates
  /\ UNCHANGED <<location, method, done, lifecycle, history>>

-----------------------------------------------------------------------------
(* MaybeLookupLocationContext, after the check of the context.             *)

LocationKnown(c) ==
  /\ At(c, "location")
  /\ mu = None
  /\ location
  /\ Advance(c)
  /\ UNCHANGED <<mu, lookups, method, candidates, done, lifecycle, history>>

LookupLocation(c) ==
  /\ At(c, "location")
  /\ mu = None
  /\ ~location
  /\ mu' = c
  /\ todo' = [todo EXCEPT ![c] = <<"locate">> \o Tail(@)]
  /\ UNCHANGED <<lookups, method, candidates, result, done, lifecycle, history>>

\* enginelocate: the IP address, the ASN and the country are needed.  Failing
\* to know the resolver is not an error.
Locate(c) ==
  /\ At(c, "locate")
  /\ Attempt(c)
  /\ mu' = Unlocked(c)
  /\ \/ ~done[c] /\ location' = TRUE /\ Advance(c)
     \/ Fail(c) /\ UNCHANGED location
  /\ UNCHANGED <<selected, method, candidates, done, lifecycle, doomed>>

-----------------------------------------------------------------------------
(* NewSession and Close.                                                   *)

\* The configuration, the temporary directory or the tunnel may be wrong, in
\* which case there is no session.  The directory is not removed.
NewSession ==
  /\ life = "none"
  /\ \/ life' = "failed" /\ resources' \in {{}, {"tempDir"}}
     \/ /\ life' = "open"
        /\ \E proxy \in {{}, {"tunnel"}} :
             resources' = {"tempDir", "resolver", "network"} \cup proxy
  /\ UNCHANGED <<mu, lookups, calls, done, closing, closed, history>>

\* The methods must have returned: a session cannot be used after Close
Close(k) ==
  /\ life = "open"
  /\ \A c \in Callers : result[c] # "running"
  /\ life' = "closing"
  /\ closing' = k
  /\ UNCHANGED <<mu, lookups, calls, done, resources, closed, history>>

\* doClose, one resource at a time
doClose(k) ==
  /\ closing = k
  /\ resources # {}
  /\ LET order == <<"network", "resolver", "tunnel", "tempDir">>
     IN resources' = resources \
          {Head(SelectSeq(order, LAMBDA r : r \in resources))}
  /\ UNCHANGED <<mu, lookups, calls, done, life, closing, closed, history>>

CloseDone(k) ==
  /\ closing = k
  /\ resources = {}
  /\ life' = "closed"
  /\ closing' = None
  /\ closed' = closed \cup {k}
  /\ UNCHANGED <<mu, lookups, calls, done, resources, history>>

\* Mutant: a second Close does not wait for the first
CloseAgain_NoWait(k) ==
  /\ life \in {"closing", "closed"}
  /\ closing # k
  /\ k \notin closed
  /\ closed' = closed \cup {k}
  /\ UNCHANGED <<mu, lookups, calls, done, resources, life, closing, history>>

\* sync.Once: another Close returns after the first has ended
CloseAgain(k) ==
  /\ life = "closed"
  /\ k \notin closed
  /\ closed' = closed \cup {k}
  /\ UNCHANGED <<mu, lookups, calls, done, resources, life, closing, history>>

-----------------------------------------------------------------------------
Step(c) ==
  \/ Return(c) \/ CheckContext(c) \/ Read(c) \/ Request(c) \/ Run(c)
  \/ Lock(c) \/ Unlock(c)
  \/ BackendsKnown(c) \/ LookupBackends(c) \/ Try(c) \/ SelectBackend(c)
  \/ LocationKnown(c) \/ LookupLocation(c) \/ Locate(c)

Next ==
  \/ NewSession
  \/ \E c \in Callers : Begin(c) \/ Cancel(c) \/ Step(c)
  \/ \E k \in Closers : Close(k) \/ doClose(k) \/ CloseDone(k) \/ CloseAgain(k)

Spec == Init /\ [][Next]_vars

\* The network requests have timeouts, so that every stage ends
FairSpec == Spec /\ \A c \in Callers : WF_vars(Step(c))

-----------------------------------------------------------------------------
\* The values that the variables may have; the mutex is never left with a
\* method that has returned.
TypeOK ==
  /\ mu \in Callers \cup {None}
  /\ selected \in Candidate \cup {None}
  /\ location \in BOOLEAN
  /\ \A c \in Callers : Len(candidates[c]) <= Len(Services)
  /\ result \in [Callers -> {"none", "running", "ok", "error"}]
  /\ resources \subseteq {"tempDir", "resolver", "network", "tunnel"}
  /\ closed \subseteq Closers
  /\ mu # None => result[mu] = "running"

\* The service that the session uses (session.go:745-761) is the fastest of
\* those that worked, and a fallback is used only if no https service worked:
\* however the calls interleave, all https services were tried by one of them.
BestIsSelected ==
  selected # None =>
    \E c \in Callers :
      LET out == Range(candidates[c])
      IN /\ selected \in out
         /\ Works(selected)
         /\ \A e \in out : Works(e) => selected.Duration <= e.Duration
         /\ \A s \in Range(OnlyHTTPS(Services)) :
              \E e \in out : /\ e.Service = s
                             /\ selected.Service.Type # "https" => e.Err

\* TryAll (benchselect.go:108-128) contacts a fallback only after every https
\* service and every fallback before it have failed, and the cloudfronted
\* ones before the others.
FallbackIsLastResort ==
  \A c \in Callers :
    \A i \in DOMAIN candidates[c] :
      candidates[c][i].Service.Type # "https" =>
        /\ \A j \in 1..(i - 1) : candidates[c][j].Err
        /\ i > Len(OnlyHTTPS(Services))
        /\ \A j \in 1..(i - 1) :
             candidates[c][j].Service.Type = "onion" =>
               candidates[c][i].Service.Type = "onion"

\* The probe service of the session is the one TryAll and SelectBest promise.
RightServiceSelected == BestIsSelected /\ FallbackIsLastResort

\* The backends are looked up until it works once: all methods of a session
\* talk to the same probe service and see the same test helpers, although
\* several may find that none is selected and look it up.
BackendNeverChanges == [][selected # None => selected' = selected]_vars

\* When a method reads the location (to label a measurement, to remove the IP
\* address of the probe from it, to check in) it is known, and not the default
\* that would remove nothing (experiment.go:193-274, session.go:275-311).
LocationIsKnown == \A c \in Callers : At(c, "read") => location

\* A method called with a context that is already done does not use the
\* network, even if some of the functions it calls do not check the context
\* ("will fail IMMEDIATELY", session.go:449 and 786).
CancelledDoesNothing == \A c \in Callers : doomed[c] => ~attempted[c]

\* The steps of each method come in the order that the others rely upon.
StepsInOrder == LocationIsKnown /\ CancelledDoesNothing

\* After Close has returned, for whoever called it, the stats are saved, the
\* tunnel is stopped and the temporary directory is removed (session.go:342-357).
CloseIsComplete == closed # {} => resources = {}

\* Every method returns: nobody waits for a mutex that is not released, in
\* particular when a method that holds it fails or locks it twice.
MethodsReturn ==
  \A c \in Callers : result[c] = "running" ~> result[c] \in {"ok", "error"}
=============================================================================
