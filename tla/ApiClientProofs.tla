-------------------------- MODULE ApiClientProofs --------------------------
(***************************************************************************)
(* Theorems about the two parts of a call to the OONI API: how the call is *)
(* made (Overlapped, for any number of endpoints) and with which           *)
(* credentials (ProbeServices, for any number of clients).                 *)
(*                                                                         *)
(* That Map returns one result for each endpoint is a counting argument:   *)
(* the results it has are of different endpoints (Distinct), all of them   *)
(* spawned (Born), so that n results can only be all of them.              *)
(* That a failure is genuine needs to know why the context is done: Map    *)
(* cancels it only when it has a success (WhyCancelled).                   *)
(*                                                                         *)
(* That the state file is consistent is not inductive: what will be        *)
(* written is in the hands of the clients, which took it from the file     *)
(* earlier.  The inductive invariant says what a client knows at each      *)
(* step: while it registers, an empty State and a password that is its     *)
(* own; while it logs in, the State of a registered account; and to whom   *)
(* the reply it is about to save belongs.                                  *)
(***************************************************************************)
EXTENDS Overlapped, ProbeServices, FiniteSetTheorems, WellFoundedInduction, TLAPS

-----------------------------------------------------------------------------
(* Overlapped.                                                             *)

\* Goroutines are spawned in the order of the endpoints.
Born == \A e \in 1..MaxEndpoints : call[e] # "unborn" => e <= idx

\* A result is of a goroutine that has joined, and the other way around.
Joined ==
  /\ \A i \in DOMAIN results : call[results[i].Index] = "joined"
  /\ \A e \in 1..MaxEndpoints : call[e] = "joined" =>
       \E i \in DOMAIN results : results[i].Index = e

\* No endpoint has two results.
Distinct ==
  \A i, j \in DOMAIN results : results[i].Index = results[j].Index => i = j

\* Map returns when it has enough results.
Returned == map = "returned" => Len(results) >= n

\* Until Map returns, the context is done because it was cancelled from the
\* outside or because there is a success; only then calls are cancelled.
WhyCancelled ==
  /\ (map # "returned" /\ ctx = "map") => Successes # {}
  /\ \A i \in DOMAIN results :
       results[i].Err = "canceled" => ctx = "outside" \/ Successes # {}
  /\ map # "returned" => \A e \in 1..MaxEndpoints :
       call[e] = "canceled" => ctx = "outside" \/ Successes # {}

\* Run fails when there is no success.
FailedWithout == ret = Failed => map = "returned" /\ Successes = {}

MapInv == /\ TypeOK /\ Born /\ Joined /\ Distinct /\ Returned
        /\ WhyCancelled /\ FailedWithout

-----------------------------------------------------------------------------
\* An element of a sequence over a set is in the set.
LEMMA ElementOfSeq ==
  ASSUME NEW S, NEW s \in Seq(S), NEW i \in DOMAIN s
  PROVE  s[i] \in S
OBVIOUS

\* The invariant holds when Map begins.
LEMMA MapInit == Init => MapInv
BY EndpointsAssumption
   DEF Init, MapInv, TypeOK, Born, Joined, Distinct, Returned, WhyCancelled,
       FailedWithout, Successes, CallStates, RunFuncResults, Pending, Failed, Result

\* What is known of a result.
LEMMA ResultType ==
  ASSUME TypeOK, NEW i \in DOMAIN results
  PROVE  /\ results[i] \in Result
         /\ results[i].Index \in 1..MaxEndpoints
         /\ results[i].Err \in RunFuncResults
<1>1. results \in Seq(Result)
  BY DEF TypeOK
<1>2. results[i] \in Result
  BY <1>1, ElementOfSeq, Zenon
<1> QED BY <1>2 DEF Result

\* A set of naturals that is not empty has a smallest element.
LEMMA Smallest ==
  ASSUME NEW S \in SUBSET Nat, S # {}
  PROVE  \E i \in S : \A j \in S : i <= j
<1>1. PICK i \in S : \A j \in S : ~(<<j, i>> \in OpToRel(<, Nat))
  BY NatLessThanWellFounded, WFMin
<1>2. \A j \in S : <<j, i>> \in OpToRel(<, Nat) <=> j < i
  BY DEF OpToRel
<1>3. \A j \in S : ~(j < i)
  BY <1>1, <1>2, Zenon
<1>4. S \subseteq Nat
  OBVIOUS
<1> QED BY <1>3, <1>4

\* OverlappedReduce fails only without a success, and otherwise gives the index
\* of a result.
LEMMA ReduceFails ==
  ASSUME TypeOK
  PROVE  /\ OverlappedReduce = Failed <=> Successes = {}
         /\ Successes # {} =>
              \E i \in DOMAIN results : OverlappedReduce = results[i].Index
<1>1. CASE Successes = {}
  BY <1>1 DEF OverlappedReduce
<1>2. CASE Successes # {}
  <2>1. Successes \subseteq Nat
    BY DEF Successes, TypeOK
  <2>2. \E i \in Successes : \A j \in Successes : i <= j
    BY <1>2, <2>1, Smallest
  <2>3. PICK i \in Successes : OverlappedReduce = results[i].Index
    BY <1>2, <2>2 DEF OverlappedReduce
  <2>4. results[i].Index \in 1..MaxEndpoints
    BY ResultType DEF Successes
  <2>5. OverlappedReduce # Failed
    BY <2>3, <2>4, EndpointsAssumption DEF Failed
  <2> QED BY <1>2, <2>3, <2>5 DEF Successes
<1> QED BY <1>1, <1>2

\* The results that Map has are at most one for each endpoint, and n of them are
\* of all the endpoints.
LEMMA Counting ==
  ASSUME MapInv
  PROVE  /\ Len(results) <= n
         /\ Len(results) = n => {results[i].Index : i \in DOMAIN results} = Endpoints
<1> DEFINE f == [i \in 1..Len(results) |-> results[i].Index]
<1>1. /\ n \in Nat /\ Len(results) \in Nat /\ DOMAIN results = 1..Len(results)
      /\ idx \in 0..n
  BY EndpointsAssumption DEF MapInv, TypeOK
<1>2. \A i \in 1..Len(results) : results[i].Index \in 1..n
  <2> TAKE i \in 1..Len(results)
  <2>1. results[i].Index \in 1..MaxEndpoints
    BY <1>1, ResultType DEF MapInv
  <2>2. call[results[i].Index] = "joined"
    BY <1>1 DEF MapInv, Joined
  <2> QED BY <1>1, <2>1, <2>2, EndpointsAssumption DEF MapInv, Born
<1>3. f \in Injection(1..Len(results), 1..n)
  <2>1. f \in [1..Len(results) -> 1..n]
    BY <1>2
  <2>2. \A i, j \in 1..Len(results) : f[i] = f[j] => i = j
    BY <1>1 DEF MapInv, Distinct
  <2> QED BY <2>1, <2>2 DEF Injection, IsInjective
<1>4. /\ IsFiniteSet(1..n) /\ Cardinality(1..n) = n
      /\ Cardinality(1..Len(results)) = Len(results)
  <2>1. \A k \in Nat : IsFiniteSet(1..k) /\ Cardinality(1..k) = k
    <3> TAKE k \in Nat
    <3>1. IsFiniteSet(1..k) /\ Cardinality(1..k) = IF 1 > k THEN 0 ELSE k - 1 + 1
      BY FS_Interval
    <3> QED BY <3>1
  <2> QED BY <1>1, <2>1
<1>5. /\ Len(results) <= n
      /\ Len(results) = n <=> f \in Surjection(1..Len(results), 1..n)
  BY <1>3, <1>4, FS_Injection
<1>6. ASSUME f \in Surjection(1..Len(results), 1..n)
      PROVE  {results[i].Index : i \in DOMAIN results} = Endpoints
  BY <1>1, <1>2, <1>6 DEF Surjection, Endpoints
<1> QED BY <1>5, <1>6

-----------------------------------------------------------------------------
\* Every step of Map, of a goroutine and of the context preserves it.
LEMMA MapNext == MapInv /\ [Next]_vars => MapInv'
<1> SUFFICES ASSUME MapInv, [Next]_vars PROVE MapInv'
  OBVIOUS
<1> USE EndpointsAssumption
<1>0. TypeOK
  BY DEF MapInv
<1>1. CASE Iterate
  <2>1. TypeOK'
    <3>1. CASE idx < n
      BY <1>0, <1>1, <3>1 DEF Iterate, TypeOK, CallStates
    <3>2. CASE ~(idx < n)
      BY <1>0, <1>1, <3>2 DEF Iterate, TypeOK
    <3> QED BY <3>1, <3>2
  <2>2. Born'
    BY <1>1 DEF Iterate, MapInv, TypeOK, Born
  <2>3. Joined'
    <3>1. idx < n => call[idx + 1] = "unborn"
      BY DEF MapInv, TypeOK, Born
    <3>2. \A e \in 1..MaxEndpoints : call'[e] = "joined" <=> call[e] = "joined"
      BY <1>1, <3>1 DEF Iterate, MapInv, TypeOK
    <3> QED BY <1>1, <3>2, <1>0, ResultType DEF Iterate, MapInv, Joined
  <2>4. Distinct' /\ Returned' /\ FailedWithout'
    BY <1>1 DEF Iterate, MapInv, Distinct, Returned, FailedWithout, Successes
  <2>5. WhyCancelled'
    <3>1. \A e \in 1..MaxEndpoints : call'[e] = "canceled" => call[e] = "canceled"
      BY <1>1 DEF Iterate, MapInv, TypeOK
    <3> QED BY <1>1, <3>1 DEF Iterate, MapInv, WhyCancelled, Successes
  <2> QED BY <2>1, <2>2, <2>3, <2>4, <2>5 DEF MapInv
<1>2. CASE RunReturns
  <2>1. Len(results) = n
    BY <1>2, Counting DEF RunReturns, MapInv, TypeOK
  <2>2. Successes # {} => OverlappedReduce \in 1..n
    <3>1. ASSUME NEW i \in DOMAIN results PROVE results[i].Index \in 1..n
      BY <2>1, Counting DEF Endpoints
    <3> QED BY <1>0, <3>1, ReduceFails
  <2>3. TypeOK'
    <3>1. ret' \in Pending..n
      <4>1. Successes = {} => ret' = 0
        BY <1>2, <1>0, ReduceFails DEF RunReturns, Failed
      <4>2. Successes # {} => ret' \in 1..n
        BY <1>2, <2>2 DEF RunReturns
      <4> QED BY <1>0, <4>1, <4>2 DEF TypeOK, Pending
    <3>2. ctx' \in {"live", "map", "outside"}
      BY <1>2, <1>0 DEF RunReturns, TypeOK, Cancelled
    <3> QED BY <1>2, <1>0, <3>1, <3>2 DEF RunReturns, TypeOK
  <2>4. Born' /\ Joined' /\ Distinct' /\ Returned'
    BY <1>2 DEF RunReturns, MapInv, Born, Joined, Distinct, Returned
  <2>5. WhyCancelled'
    BY <1>2 DEF RunReturns, MapInv, WhyCancelled, Successes, Cancelled, ctxDone
  <2>6. FailedWithout'
    BY <1>2, <1>0, ReduceFails DEF RunReturns, FailedWithout, Successes
  <2> QED BY <2>3, <2>4, <2>5, <2>6 DEF MapInv
<1>3. ASSUME NEW e \in Endpoints, ReceiveResult(e) PROVE MapInv'
  <2> DEFINE r == [Index |-> e, Err |-> call[e]]
  <2>1. /\ e \in 1..MaxEndpoints /\ r \in Result
        /\ results \in Seq(Result) /\ results' = Append(results, r)
    BY <1>3 DEF ReceiveResult, MapInv, TypeOK, Endpoints, Result
  <2>2. /\ Len(results') = Len(results) + 1
        /\ DOMAIN results' = 1..(Len(results) + 1)
        /\ DOMAIN results = 1..Len(results) /\ Len(results) \in Nat
        /\ \A i \in DOMAIN results : results'[i] = results[i]
        /\ results'[Len(results) + 1] = r
    BY <2>1
  <2>3. TypeOK'
    <3>1. results' \in Seq(Result)
      BY <2>1
    <3> QED BY <1>3, <3>1
            DEF ReceiveResult, MapInv, TypeOK, CallStates, RunFuncResults, Cancelled,
                ctxDone
  <2>4. Born' /\ Returned'
    BY <1>3 DEF ReceiveResult, MapInv, TypeOK, Born, Returned, RunFuncResults
  <2>5. Joined'
    <3>1. \A i \in DOMAIN results : call'[results[i].Index] = "joined"
      BY <1>3, <1>0, ResultType DEF ReceiveResult, MapInv, TypeOK, Joined
    <3>2. call'[e] = "joined"
      BY <1>3, <2>1 DEF ReceiveResult, MapInv, TypeOK
    <3>3. \A d \in 1..MaxEndpoints : d # e => call'[d] = call[d]
      BY <1>3, <2>1 DEF ReceiveResult, MapInv, TypeOK
    <3>4. \A i \in DOMAIN results' : call'[results'[i].Index] = "joined"
      BY <2>2, <3>1, <3>2
    <3>5. ASSUME NEW d \in 1..MaxEndpoints, call'[d] = "joined"
          PROVE  \E i \in DOMAIN results' : results'[i].Index = d
      BY <2>2, <3>3, <3>5 DEF MapInv, Joined
    <3> QED BY <3>4, <3>5 DEF Joined
  <2>6. Distinct'
    <3>1. \A i \in DOMAIN results : results[i].Index # e
      BY <1>3 DEF ReceiveResult, MapInv, Joined, RunFuncResults
    <3> QED BY <2>2, <3>1 DEF MapInv, Distinct
  <2>7. Successes # {} => Successes' # {}
    BY <2>2 DEF Successes
  <2>8. call[e] = "value" => Successes' # {}
    BY <2>2 DEF Successes
  <2>9. WhyCancelled'
    <3>1. ctx' = ctx \/ Successes' # {}
      BY <1>3, <2>8 DEF ReceiveResult
    <3>2. \A d \in 1..MaxEndpoints : call'[d] = "canceled" => call[d] = "canceled"
      BY <1>3 DEF ReceiveResult, MapInv, TypeOK
    <3>3. map # "returned" /\ map' # "returned"
      BY <1>3 DEF ReceiveResult
    <3>4. ASSUME NEW i \in DOMAIN results', results'[i].Err = "canceled"
          PROVE  ctx' = "outside" \/ Successes' # {}
      BY <2>1, <2>2, <2>7, <3>1, <3>3, <3>4 DEF MapInv, WhyCancelled
    <3> QED BY <2>7, <3>1, <3>2, <3>3, <3>4 DEF MapInv, WhyCancelled
  <2>10. FailedWithout'
    BY <1>3 DEF ReceiveResult, MapInv, FailedWithout
  <2> QED BY <2>3, <2>4, <2>5, <2>6, <2>9, <2>10 DEF MapInv
<1>4. CASE TickerTicks
  BY <1>4 DEF TickerTicks, MapInv, TypeOK, Born, Joined, Distinct, Returned,
              WhyCancelled, FailedWithout, Successes
<1>5. ASSUME NEW e \in Endpoints, transact(e) PROVE MapInv'
  <2>1. PICK r \in (IF ctxDone THEN RunFuncResults ELSE {"value", "error"}) :
          call' = [call EXCEPT ![e] = r]
    BY <1>5 DEF transact
  <2>2. r \in RunFuncResults /\ (r = "canceled" => ctxDone) /\ e \in 1..MaxEndpoints
    BY <2>1 DEF RunFuncResults, Endpoints, MapInv, TypeOK
  <2>3. TypeOK'
    BY <1>5, <2>1, <2>2 DEF transact, MapInv, TypeOK, CallStates
  <2>4. Born'
    BY <1>5, <2>1, <2>2 DEF transact, MapInv, TypeOK, Born
  <2>5. Joined'
    <3>1. \A d \in 1..MaxEndpoints : call'[d] = "joined" <=> call[d] = "joined"
      BY <1>5, <2>1, <2>2 DEF transact, MapInv, TypeOK, RunFuncResults
    <3> QED BY <1>5, <1>0, <3>1, ResultType DEF transact, MapInv, Joined
  <2>6. Distinct' /\ Returned' /\ FailedWithout'
    BY <1>5 DEF transact, MapInv, Distinct, Returned, FailedWithout, Successes
  <2>7. WhyCancelled'
    <3>1. \A d \in 1..MaxEndpoints :
            call'[d] = "canceled" => call[d] = "canceled" \/ ctxDone
      BY <2>1, <2>2 DEF MapInv, TypeOK
    <3>2. map # "returned" /\ ctxDone => ctx = "outside" \/ Successes # {}
      BY DEF MapInv, TypeOK, WhyCancelled, ctxDone
    <3> QED BY <1>5, <3>1, <3>2 DEF transact, MapInv, WhyCancelled, Successes
  <2> QED BY <2>3, <2>4, <2>5, <2>6, <2>7 DEF MapInv
<1>6. CASE ContextExpires
  BY <1>6 DEF ContextExpires, MapInv, TypeOK, Born, Joined, Distinct, Returned,
              WhyCancelled, FailedWithout, Successes, ctxDone
<1>7. CASE UNCHANGED vars
  BY <1>7 DEF vars, MapInv, TypeOK, Born, Joined, Distinct, Returned,
              WhyCancelled, FailedWithout, Successes
<1> QED
  BY <1>1, <1>2, <1>3, <1>4, <1>5, <1>6, <1>7 DEF Next, Map, Done

\* The invariant of Map and of its goroutines.
THEOREM MapInvariance == Spec => []MapInv
<1>1. Init => MapInv
  BY MapInit
<1>2. MapInv /\ [Next]_vars => MapInv'
  BY MapNext
<1> QED BY <1>1, <1>2, PTL DEF Spec

\* For any number of endpoints, every reachable state of Map and of its
\* goroutines is well typed: no goroutine is spawned for an endpoint that does
\* not exist (overlapped.go:155-165).
THEOREM MapTypes == Spec => []TypeOK
<1>1. MapInv => TypeOK
  BY DEF MapInv
<1> QED BY <1>1, MapInvariance, PTL

\* For any number of endpoints, when Map returns it has exactly one result for
\* each of them and no goroutine is left that nobody receives from
\* (overlapped.go:155-190).
THEOREM OneResultPerEndpoint == Spec => []ResultPerEndpoint
<1>1. MapInv => ResultPerEndpoint
  <2> SUFFICES ASSUME MapInv, map = "returned" PROVE
        /\ Len(results) = n
        /\ {results[i].Index : i \in DOMAIN results} = Endpoints
        /\ \A e \in Endpoints : call[e] = "joined"
    BY DEF ResultPerEndpoint
  <2>1. Len(results) = n
    BY Counting, EndpointsAssumption DEF MapInv, TypeOK, Returned
  <2>2. {results[i].Index : i \in DOMAIN results} = Endpoints
    BY <2>1, Counting
  <2>3. \A e \in Endpoints : call[e] = "joined"
    BY <2>2 DEF MapInv, Joined
  <2> QED BY <2>1, <2>2, <2>3
<1> QED BY <1>1, MapInvariance, PTL

\* For any number of endpoints, Run fails only if every call failed by itself or
\* was cancelled from the outside: the cancellation that Map performs after a
\* success never turns a run that could succeed into a failure
\* (overlapped.go:167-180 and 192-221).
THEOREM FailuresAreGenuine == Spec => []FailureIsGenuine
<1>1. MapInv => FailureIsGenuine
  <2> SUFFICES ASSUME MapInv, ret = Failed, NEW i \in DOMAIN results
               PROVE  \/ results[i].Err = "error"
                      \/ results[i].Err = "canceled" /\ ctx = "outside"
    BY DEF FailureIsGenuine
  <2>1. results[i].Err \in RunFuncResults
    BY ResultType DEF MapInv
  <2>2. Successes = {}
    BY DEF MapInv, FailedWithout
  <2>3. results[i].Err # "value"
    BY <2>2 DEF Successes
  <2> QED BY <2>1, <2>2, <2>3 DEF MapInv, WhyCancelled, RunFuncResults
<1> QED BY <1>1, MapInvariance, PTL

-----------------------------------------------------------------------------
(* ProbeServices.                                                          *)

\* A State with a new password and nothing else
Unregistered(s) == s.ClientID = 0 /\ s.Token = 0 /\ s.Password # 0

\* What client c has in its hands
Knows(c) ==
  /\ pc[c] = "register" => Unregistered(state[c])
  /\ pc[c] = "save_account" =>
       /\ Unregistered(state[c])
       /\ reply[c] \in 1..Len(accounts)
       /\ accounts[reply[c]] = state[c].Password
  /\ pc[c] = "login_request" => Consistent(state[c]) /\ Credentials(state[c])
  /\ pc[c] = "save_token" =>
       /\ Consistent(state[c])
       /\ Credentials(state[c])
       /\ reply[c] \in 1..Len(tokens)
       /\ tokens[reply[c]] = state[c].ClientID
  /\ pc[c] = "fetched" => Consistent(state[c])

\* The types of the variables, with a bound on the passwords if there is one
Typed ==
  /\ file \in State
  /\ accounts \in Seq(Nat \ {0})
  /\ tokens \in Seq(Nat \ {0})
  /\ late \subseteq 1..Len(tokens)
  /\ passwords \in Nat /\ (MaxAccounts \in Nat => passwords <= MaxAccounts)
  /\ pc \in [Clients -> Steps]
  /\ state \in [Clients -> State]
  /\ reply \in [Clients -> Nat]
  /\ excuse \in [Clients -> BOOLEAN]

ClientInv == Typed /\ Consistent(file) /\ \A c \in Clients : Knows(c)

\* What client c may count upon as long as nothing excuses it
Expects(c) ==
  /\ pc[c] = "login" => Credentials(file)
  /\ pc[c] = "save_token" => reply[c] \notin late
  /\ pc[c] = "fetch" => Credentials(file) /\ Auth(file)
  /\ pc[c] \notin {"ErrNotRegistered", "ErrNotLoggedIn"}

Explained == \A c \in Clients : ~excuse[c] => Expects(c)

-----------------------------------------------------------------------------
Backends == Seq(Nat \ {0})

\* The empty State belongs to no account.
LEMMA EmptyMatches ==
  ASSUME NEW accs \in Backends, NEW toks \in Backends
  PROVE  Empty \in State /\ Matches(Empty, accs, toks)
BY DEF Empty, State, Matches

\* A State that matches the backend and has no credentials is an empty one:
\* there is neither a client ID without a password nor a token without a
\* client ID.
LEMMA NoCredentials ==
  ASSUME NEW accs \in Backends, NEW toks \in Backends,
         NEW s \in State, Matches(s, accs, toks), ~Credentials(s)
  PROVE  s.ClientID = 0 /\ s.Token = 0
<1>1. s.ClientID = 0
  BY DEF Matches, Credentials, Backends, State
<1>2. s.Token = 0
  BY <1>1 DEF Matches, Backends, State
<1> QED BY <1>1, <1>2

\* The backend forgets neither accounts nor tokens: a State that matches it
\* still does when it creates one more of them.
LEMMA BackendGrows ==
  ASSUME NEW accs \in Backends, NEW toks \in Backends,
         NEW s \in State, Matches(s, accs, toks), NEW x \in Nat \ {0}
  PROVE  Matches(s, Append(accs, x), toks) /\ Matches(s, accs, Append(toks, x))
BY DEF Matches, Backends, State

-----------------------------------------------------------------------------
(* The inductive invariant.                                                *)

\* Nothing has happened yet, and the file is empty.
LEMMA ClientInit == AuthInit => ClientInv
<1> SUFFICES ASSUME AuthInit PROVE ClientInv
  OBVIOUS
<1>1. accounts \in Backends /\ tokens \in Backends
  BY DEF AuthInit, Backends
<1>2. Typed
  <2>1. file \in State /\ state \in [Clients -> State]
    BY DEF AuthInit, Empty, State
  <2>2. pc \in [Clients -> Steps]
    BY DEF AuthInit, Idle, Steps
  <2>3. reply \in [Clients -> Nat] /\ excuse \in [Clients -> BOOLEAN]
    BY DEF AuthInit
  <2>4. late \subseteq 1..Len(tokens)
    BY DEF AuthInit
  <2>5. passwords \in Nat /\ (MaxAccounts \in Nat => passwords <= MaxAccounts)
    BY DEF AuthInit
  <2> QED BY <1>1, <2>1, <2>2, <2>3, <2>4, <2>5 DEF Typed, Backends
<1>3. Consistent(file)
  BY <1>1, EmptyMatches DEF AuthInit, Consistent
<1>4. \A c \in Clients : Knows(c)
  BY DEF AuthInit, Knows
<1> QED BY <1>2, <1>3, <1>4 DEF ClientInv

\* Each step of a client, and the passing of time, preserve the invariant.
LEMMA ClientNext == ClientInv /\ [AuthNext]_authVars => ClientInv'
<1> SUFFICES ASSUME ClientInv, [AuthNext]_authVars PROVE ClientInv'
  OBVIOUS
<1> USE DEF Backends
<1>1. ASSUME NEW c \in Clients, NEW s \in {file, Empty}, MaybeRegister(c, s)
      PROVE  ClientInv'
  <2>1. s \in State /\ Matches(s, accounts, tokens)
    BY EmptyMatches DEF ClientInv, Typed, Consistent
  <2>2. s.ClientID = 0 /\ s.Token = 0
    BY <1>1, <2>1, NoCredentials DEF ClientInv, Typed, MaybeRegister
  <2>3. passwords' \in Nat \ {0}
    BY <1>1 DEF MaybeRegister, ClientInv, Typed
  <2>4. Typed'
    <3>1. [s EXCEPT !.Password = passwords'] \in State
      BY <2>1, <2>3 DEF State
    <3>2. state' \in [Clients -> State] /\ pc' \in [Clients -> Steps]
      BY <1>1, <3>1 DEF MaybeRegister, ClientInv, Typed, Goto, Steps
    <3>3. excuse' \in [Clients -> BOOLEAN]
      BY <1>1 DEF MaybeRegister, ClientInv, Typed
    <3>4. passwords' \in Nat /\ (MaxAccounts \in Nat => passwords' <= MaxAccounts)
      BY <1>1 DEF MaybeRegister, ClientInv, Typed
    <3> QED BY <1>1, <3>2, <3>3, <3>4 DEF MaybeRegister, ClientInv, Typed, backend
  <2>5. Consistent(file)'
    BY <1>1 DEF MaybeRegister, ClientInv, Consistent, backend
  <2>6. ASSUME NEW d \in Clients PROVE Knows(d)'
    <3>1. CASE d = c
      <4>1. Unregistered(state'[c]) /\ pc'[c] = "register"
        BY <1>1, <2>1, <2>2, <2>3
           DEF MaybeRegister, ClientInv, Typed, State, Unregistered, Goto
      <4> QED BY <4>1, <3>1 DEF Knows
    <3>2. CASE d # c
      BY <1>1, <3>2
         DEF MaybeRegister, ClientInv, Typed, Knows, Goto, backend, Consistent
    <3> QED BY <3>1, <3>2
  <2> QED BY <2>4, <2>5, <2>6 DEF ClientInv
<1>2. ASSUME NEW c \in Clients, AlreadyRegistered(c)
      PROVE  ClientInv'
  <2>1. Typed'
    BY <1>2 DEF AlreadyRegistered, ClientInv, Typed, Goto, Steps, backend
  <2>2. Consistent(file)'
    BY <1>2 DEF AlreadyRegistered, ClientInv, Consistent, backend
  <2>3. \A d \in Clients : Knows(d)'
    BY <1>2 DEF AlreadyRegistered, ClientInv, Typed, Knows, Goto, backend, Consistent
  <2> QED BY <2>1, <2>2, <2>3 DEF ClientInv
<1>3. ASSUME NEW c \in Clients, Register(c)
      PROVE  ClientInv'
  <2> DEFINE p == state[c].Password
  <2>1. p \in Nat \ {0} /\ Unregistered(state[c])
    BY <1>3 DEF Register, ClientInv, Typed, State, Knows, Unregistered
  <2>2. /\ accounts' = Append(accounts, p)
        /\ UNCHANGED <<file, tokens, late, passwords, state, excuse>>
    BY <1>3 DEF Register
  <2>3. /\ accounts' \in Backends
        /\ Len(accounts') = Len(accounts) + 1
        /\ accounts'[Len(accounts')] = p
        /\ \A i \in 1..Len(accounts) : accounts'[i] = accounts[i]
    BY <2>1, <2>2 DEF ClientInv, Typed
  <2>4. ASSUME NEW s \in State, Matches(s, accounts, tokens)
        PROVE  Matches(s, accounts', tokens')
    BY <2>1, <2>2, <2>4, BackendGrows DEF ClientInv, Typed
  <2>5. Typed'
    <3>1. Len(accounts') \in Nat
      BY <2>3
    <3>2. reply' \in [Clients -> Nat]
      BY <1>3, <3>1 DEF Register, ClientInv, Typed
    <3>3. pc' \in [Clients -> Steps]
      BY <1>3 DEF Register, ClientInv, Typed, Goto, Idle, Steps
    <3> QED BY <2>2, <2>3, <3>2, <3>3 DEF ClientInv, Typed
  <2>6. Consistent(file)'
    BY <2>2, <2>4 DEF ClientInv, Typed, Consistent
  <2>7. ASSUME NEW d \in Clients PROVE Knows(d)'
    <3>1. CASE d = c
      <4>1. \/ pc'[c] = "save_account" /\ reply'[c] = Len(accounts')
            \/ pc'[c] = "failed"
        BY <1>3 DEF Register, ClientInv, Typed, Goto
      <4>2. Len(accounts') \in 1..Len(accounts')
        BY <2>3 DEF ClientInv, Typed
      <4> QED BY <3>1, <4>1, <4>2, <2>1, <2>2, <2>3 DEF Knows, Unregistered
    <3>2. CASE d # c
      <4>1. pc'[d] = pc[d] /\ reply'[d] = reply[d] /\ state'[d] = state[d]
        BY <1>3, <2>2, <3>2 DEF Register, ClientInv, Typed, Goto
      <4>2. Consistent(state[d]) => Matches(state'[d], accounts', tokens')
        BY <2>4, <4>1 DEF ClientInv, Typed, Consistent
      <4> QED BY <4>1, <4>2, <2>2, <2>3 DEF ClientInv, Typed, Knows, Consistent
    <3> QED BY <3>1, <3>2
  <2> QED BY <2>5, <2>6, <2>7 DEF ClientInv
<1>4. ASSUME NEW c \in Clients, RequestFails(c)
      PROVE  ClientInv'
  <2>1. Typed'
    BY <1>4 DEF RequestFails, ClientInv, Typed, Goto, Idle, Steps, backend
  <2>2. Consistent(file)'
    BY <1>4 DEF RequestFails, ClientInv, Consistent, backend
  <2>3. \A d \in Clients : Knows(d)'
    BY <1>4 DEF RequestFails, ClientInv, Typed, Knows, Goto, backend, Consistent
  <2> QED BY <2>1, <2>2, <2>3 DEF ClientInv
<1>5. ASSUME NEW c \in Clients, SaveAccount(c)
      PROVE  ClientInv'
  <2> DEFINE s == [state[c] EXCEPT !.ClientID = reply[c]]
  <2>1. s \in State /\ Matches(s, accounts, tokens)
    BY <1>5 DEF SaveAccount, ClientInv, Typed, State, Knows, Unregistered, Matches
  <2>2. /\ file' \in {s, file, Empty}
        /\ excuse' \in [Clients -> BOOLEAN]
        /\ pc' = [pc EXCEPT ![c] = pc'[c]]
        /\ pc'[c] \in {"login", "failed"}
        /\ UNCHANGED <<accounts, tokens, late, passwords, state, reply>>
    BY <1>5 DEF SaveAccount, SetOK, SetFails, Goto, ClientInv, Typed, backend
  <2> HIDE DEF s
  <2>3. file' \in State /\ Matches(file', accounts', tokens')
    BY <2>1, <2>2, EmptyMatches DEF ClientInv, Typed, Consistent
  <2>4. Typed'
    BY <2>2, <2>3 DEF ClientInv, Typed, Idle, Steps
  <2>5. \A d \in Clients : Knows(d)'
    BY <2>2 DEF ClientInv, Typed, Knows, Consistent
  <2> QED BY <2>3, <2>4, <2>5 DEF ClientInv, Consistent
<1>6. ASSUME NEW c \in Clients, NEW s \in {file, Empty}, MaybeLogin(c, s)
      PROVE  ClientInv'
  <2>1. s \in State /\ Matches(s, accounts, tokens)
    BY EmptyMatches DEF ClientInv, Typed, Consistent
  <2>2. /\ excuse' \in [Clients -> BOOLEAN]
        /\ state' = [state EXCEPT ![c] = s]
        /\ pc' = [pc EXCEPT ![c] = pc'[c]]
        /\ pc'[c] \in {"fetch", "login_request", "ErrNotRegistered"}
        /\ pc'[c] = "login_request" => Credentials(s)
        /\ UNCHANGED <<file, accounts, tokens, late, passwords, reply>>
    BY <1>6 DEF MaybeLogin, Get, Goto, ClientInv, Typed, backend
  <2>3. Typed'
    BY <2>1, <2>2 DEF ClientInv, Typed, Idle, Steps
  <2>4. Consistent(file)'
    BY <2>2 DEF ClientInv, Consistent
  <2>5. ASSUME NEW d \in Clients PROVE Knows(d)'
    <3>1. CASE d = c
      BY <2>1, <2>2, <3>1 DEF ClientInv, Typed, Knows, Consistent, Credentials
    <3>2. CASE d # c
      BY <2>2, <3>2 DEF ClientInv, Typed, Knows, Consistent
    <3> QED BY <3>1, <3>2
  <2> QED BY <2>3, <2>4, <2>5 DEF ClientInv
<1>7. ASSUME NEW c \in Clients, Login(c)
      PROVE  ClientInv'
  <2> DEFINE id == state[c].ClientID
  <2>1. id \in Nat \ {0} /\ Consistent(state[c]) /\ Credentials(state[c])
    BY <1>7 DEF Login, ClientInv, Typed, State, Knows, Credentials
  <2>2. /\ tokens' = Append(tokens, id)
        /\ reply' = [reply EXCEPT ![c] = Len(tokens')]
        /\ pc' = [pc EXCEPT ![c] = "save_token"]
        /\ UNCHANGED <<file, accounts, late, passwords, state, excuse>>
    BY <1>7 DEF Login, Goto
  <2>3. /\ tokens' \in Backends
        /\ Len(tokens) \in Nat
        /\ Len(tokens') = Len(tokens) + 1
        /\ tokens'[Len(tokens')] = id
        /\ \A i \in 1..Len(tokens) : tokens'[i] = tokens[i]
    BY <2>1, <2>2 DEF ClientInv, Typed
  <2>4. ASSUME NEW s \in State, Matches(s, accounts, tokens)
        PROVE  Matches(s, accounts', tokens')
    BY <2>1, <2>2, <2>4, BackendGrows DEF ClientInv, Typed
  <2>5. Typed'
    <3>1. reply' \in [Clients -> Nat] /\ pc' \in [Clients -> Steps]
      BY <2>2, <2>3 DEF ClientInv, Typed, Steps
    <3>2. late' \subseteq 1..Len(tokens')
      BY <2>2, <2>3 DEF ClientInv, Typed
    <3> QED BY <2>2, <2>3, <3>1, <3>2 DEF ClientInv, Typed
  <2>6. Consistent(file)'
    BY <2>2, <2>4 DEF ClientInv, Typed, Consistent
  <2>7. ASSUME NEW d \in Clients PROVE Knows(d)'
    <3>1. CASE d = c
      <4>1. /\ pc'[c] = "save_token"
            /\ reply'[c] \in 1..Len(tokens')
            /\ tokens'[reply'[c]] = state'[c].ClientID
        BY <2>2, <2>3 DEF ClientInv, Typed
      <4>2. Matches(state'[c], accounts', tokens')
        BY <2>1, <2>2, <2>4 DEF ClientInv, Typed, Consistent
      <4> QED BY <2>1, <2>2, <3>1, <4>1, <4>2 DEF Knows, Consistent, Credentials
    <3>2. CASE d # c
      <4>1. pc'[d] = pc[d] /\ reply'[d] = reply[d] /\ state'[d] = state[d]
        BY <2>2, <3>2 DEF ClientInv, Typed
      <4>2. Consistent(state[d]) => Matches(state'[d], accounts', tokens')
        BY <2>4, <4>1 DEF ClientInv, Typed, Consistent
      <4> QED BY <4>1, <4>2, <2>2, <2>3
              DEF ClientInv, Typed, Knows, Consistent, Unregistered, Credentials
    <3> QED BY <3>1, <3>2
  <2> QED BY <2>5, <2>6, <2>7 DEF ClientInv
<1>8. ASSUME NEW c \in Clients, SaveToken(c)
      PROVE  ClientInv'
  <2> DEFINE s == [state[c] EXCEPT !.Token = reply[c]]
  <2>1. s \in State /\ Matches(s, accounts, tokens)
    BY <1>8 DEF SaveToken, ClientInv, Typed, State, Knows, Consistent, Matches
  <2>2. /\ file' \in {s, file, Empty}
        /\ excuse' \in [Clients -> BOOLEAN]
        /\ pc' = [pc EXCEPT ![c] = pc'[c]]
        /\ pc'[c] \in {"fetch", "failed"}
        /\ UNCHANGED <<accounts, tokens, late, passwords, state, reply>>
    BY <1>8 DEF SaveToken, SetOK, SetFails, Goto, ClientInv, Typed, backend
  <2> HIDE DEF s
  <2>3. file' \in State /\ Matches(file', accounts', tokens')
    BY <2>1, <2>2, EmptyMatches DEF ClientInv, Typed, Consistent
  <2>4. Typed'
    BY <2>2, <2>3 DEF ClientInv, Typed, Idle, Steps
  <2>5. \A d \in Clients : Knows(d)'
    BY <2>2 DEF ClientInv, Typed, Knows, Consistent
  <2> QED BY <2>3, <2>4, <2>5 DEF ClientInv, Consistent
<1>9. ASSUME NEW c \in Clients, NEW s \in {file, Empty}, GetCredsAndAuth(c, s)
      PROVE  ClientInv'
  <2>1. s \in State /\ Matches(s, accounts, tokens)
    BY EmptyMatches DEF ClientInv, Typed, Consistent
  <2>2. /\ excuse' \in [Clients -> BOOLEAN]
        /\ state' = [state EXCEPT ![c] = s]
        /\ pc' = [pc EXCEPT ![c] = pc'[c]]
        /\ pc'[c] \in {"fetched", "ErrNotLoggedIn", "ErrNotRegistered"}
        /\ UNCHANGED <<file, accounts, tokens, late, passwords, reply>>
    BY <1>9 DEF GetCredsAndAuth, Get, Goto, ClientInv, Typed, backend
  <2>3. Typed'
    BY <2>1, <2>2 DEF ClientInv, Typed, Idle, Steps
  <2>4. Consistent(file)'
    BY <2>2 DEF ClientInv, Consistent
  <2>5. ASSUME NEW d \in Clients PROVE Knows(d)'
    <3>1. CASE d = c
      BY <2>1, <2>2, <3>1 DEF ClientInv, Typed, Knows, Consistent
    <3>2. CASE d # c
      BY <2>2, <3>2 DEF ClientInv, Typed, Knows, Consistent
    <3> QED BY <3>1, <3>2
  <2> QED BY <2>3, <2>4, <2>5 DEF ClientInv
<1>10. ASSUME NEW t \in 1..MaxTokens, Expire(t)
       PROVE  ClientInv'
  <2>1. Typed'
    BY <1>10 DEF Expire, ClientInv, Typed, backend
  <2>2. Consistent(file)' /\ \A d \in Clients : Knows(d)'
    BY <1>10 DEF Expire, ClientInv, Knows, Consistent, backend
  <2> QED BY <2>1, <2>2 DEF ClientInv
<1>11. CASE UNCHANGED authVars
  BY <1>11 DEF authVars, backend, ClientInv, Typed, Consistent, Knows
<1> QED BY <1>1, <1>2, <1>3, <1>4, <1>5, <1>6, <1>7, <1>8, <1>9, <1>10, <1>11
        DEF AuthNext

-----------------------------------------------------------------------------
(* The theorems.                                                           *)

\* In every reachable state each client has in its hands what the step it is
\* at needs, and the file is consistent.
THEOREM ClientInvariance == AuthSpec => []ClientInv
BY ClientInit, ClientNext, PTL DEF AuthSpec

\* The state of the clients, of the file and of the backend is well formed;
\* in particular the backend never issues a token to an empty client ID.
THEOREM ClientTypes == AuthSpec => []AuthTypeOK
<1>1. ClientInv => AuthTypeOK
  BY BoundsAssumption DEF ClientInv, Typed, AuthTypeOK
<1> QED BY <1>1, ClientInvariance, PTL

\* For any number of clients, in any order, and whatever fails, the state file
\* never mixes two accounts, and no client sends credentials or a token that
\* do not belong together, although no lock covers its Get and its Set.
THEOREM FileNeverMixesAccounts == AuthSpec => []StateFileConsistent
<1>1. ClientInv => StateFileConsistent
  BY DEF ClientInv, Knows, StateFileConsistent
<1> QED BY <1>1, ClientInvariance, PTL

\* A client that writes an older State never erases the credentials in the
\* file: they are lost only when a write fails.
THEOREM RegistrationIsKept == AuthSpec => RegistrationSticks
<1> DEFINE Kept == Credentials(file) /\ ~Credentials(file') =>
             \E c \in Clients : /\ pc[c] \in {"save_account", "save_token"}
                                /\ pc'[c] = "failed"
<1>1. ASSUME ClientInv, [AuthNext]_authVars PROVE Kept
  <2> SUFFICES ASSUME Credentials(file), ~Credentials(file') PROVE Kept
    OBVIOUS
  <2>1. file' # file
    OBVIOUS
  <2>2. PICK c \in Clients : SaveAccount(c) \/ SaveToken(c)
    BY <1>1, <2>1 DEF AuthNext, authVars, MaybeRegister, MaybeLogin, GetCredsAndAuth,
       AlreadyRegistered, Register, RequestFails, Login, Expire
  <2>3. CASE SaveAccount(c)
    <3>1. Credentials([state[c] EXCEPT !.ClientID = reply[c]])
      BY <1>1, <2>3 DEF SaveAccount, ClientInv, Typed, State, Knows, Unregistered,
         Credentials
    <3>2. pc'[c] = "failed"
      BY <1>1, <2>3, <3>1 DEF SaveAccount, SetOK, Goto, ClientInv, Typed
    <3> QED BY <2>3, <3>2 DEF SaveAccount
  <2>4. CASE SaveToken(c)
    <3>1. Credentials([state[c] EXCEPT !.Token = reply[c]])
      BY <1>1, <2>4 DEF SaveToken, ClientInv, Typed, State, Knows, Credentials
    <3>2. pc'[c] = "failed"
      BY <1>1, <2>4, <3>1 DEF SaveToken, SetOK, Goto, ClientInv, Typed
    <3> QED BY <2>4, <3>2 DEF SaveToken
  <2> QED BY <2>2, <2>3, <2>4
<1> QED BY <1>1, ClientInvariance, PTL DEF AuthSpec, RegistrationSticks

-----------------------------------------------------------------------------
(* Why a client may fail to be authenticated.                              *)

\* A client with no excuse finds what it expects at its next step.  What
\* another client writes gives it an excuse, so each action is about one c.
LEMMA NextExplained == ClientInv /\ Explained /\ [AuthNext]_authVars => Explained'
<1> SUFFICES ASSUME ClientInv, Explained, [AuthNext]_authVars,
                    NEW d \in Clients, ~excuse'[d]
             PROVE  Expects(d)'
  BY DEF Explained
<1> USE DEF Auth, Credentials
<1>1. ASSUME NEW c \in Clients, NEW s \in {file, Empty}, MaybeRegister(c, s)
      PROVE  Expects(d)'
  BY <1>1 DEF MaybeRegister, ClientInv, Typed, Explained, Expects, Goto
<1>2. ASSUME NEW c \in Clients, AlreadyRegistered(c)
      PROVE  Expects(d)'
  BY <1>2 DEF AlreadyRegistered, ClientInv, Typed, Explained, Expects, Goto
<1>3. ASSUME NEW c \in Clients, Register(c)
      PROVE  Expects(d)'
  BY <1>3 DEF Register, ClientInv, Typed, Explained, Expects, Goto
<1>4. ASSUME NEW c \in Clients, RequestFails(c)
      PROVE  Expects(d)'
  BY <1>4 DEF RequestFails, ClientInv, Typed, Explained, Expects, Goto
<1>5. ASSUME NEW c \in Clients, SaveAccount(c)
      PROVE  Expects(d)'
  <2>1. /\ d = c
        /\ file' = [state[c] EXCEPT !.ClientID = reply[c]]
        /\ pc'[c] = "login"
    BY <1>5 DEF SaveAccount, SetOK, SetFails, ClientInv, Typed, Goto
  <2>2. Credentials([state[c] EXCEPT !.ClientID = reply[c]])
    BY <1>5 DEF SaveAccount, ClientInv, Typed, State, Knows, Unregistered
  <2> QED BY <2>1, <2>2 DEF Expects
<1>6. ASSUME NEW c \in Clients, NEW s \in {file, Empty}, MaybeLogin(c, s)
      PROVE  Expects(d)'
  <2>1. CASE d = c
    <3>1. s = file /\ ~excuse[c]
      BY <1>6, <2>1 DEF MaybeLogin, Get, ClientInv, Typed
    <3>2. Credentials(s)
      BY <1>6, <3>1 DEF MaybeLogin, Explained, Expects
    <3> QED BY <1>6, <2>1, <3>1, <3>2 DEF MaybeLogin, ClientInv, Typed, Expects, Goto
  <2>2. CASE d # c
    BY <1>6, <2>2 DEF MaybeLogin, Get, ClientInv, Typed, Explained, Expects, Goto
  <2> QED BY <2>1, <2>2
<1>7. ASSUME NEW c \in Clients, Login(c)
      PROVE  Expects(d)'
  <2>1. tokens' = Append(tokens, state[c].ClientID) /\ Len(tokens') \notin late
    BY <1>7 DEF Login, ClientInv, Typed, State
  <2> QED BY <1>7, <2>1 DEF Login, ClientInv, Typed, Explained, Expects, Goto
<1>8. ASSUME NEW c \in Clients, SaveToken(c)
      PROVE  Expects(d)'
  <2>1. /\ d = c
        /\ ~excuse[c]
        /\ file' = [state[c] EXCEPT !.Token = reply[c]]
        /\ pc'[c] = "fetch"
        /\ late' = late
    BY <1>8 DEF SaveToken, SetOK, SetFails, ClientInv, Typed, Goto
  <2>2. Credentials([state[c] EXCEPT !.Token = reply[c]])
    BY <1>8 DEF SaveToken, ClientInv, Typed, State, Knows
  <2>3. reply[c] # 0 /\ reply[c] \notin late
    BY <1>8, <2>1 DEF SaveToken, ClientInv, Typed, Knows, Explained, Expects
  <2> QED BY <2>1, <2>2, <2>3 DEF ClientInv, Typed, State, Expects
<1>9. ASSUME NEW c \in Clients, NEW s \in {file, Empty}, GetCredsAndAuth(c, s)
      PROVE  Expects(d)'
  <2>1. CASE d = c
    <3>1. s = file /\ ~excuse[c]
      BY <1>9, <2>1 DEF GetCredsAndAuth, Get, ClientInv, Typed
    <3>2. Credentials(s) /\ Auth(s)
      BY <1>9, <3>1 DEF GetCredsAndAuth, Explained, Expects
    <3> QED BY <1>9, <2>1, <3>2 DEF GetCredsAndAuth, ClientInv, Typed, Expects, Goto
  <2>2. CASE d # c
    BY <1>9, <2>2 DEF GetCredsAndAuth, Get, ClientInv, Typed, Explained, Expects, Goto
  <2> QED BY <2>1, <2>2
<1>10. ASSUME NEW t \in 1..MaxTokens, Expire(t)
       PROVE  Expects(d)'
  BY <1>10 DEF Expire, Explained, Expects
<1>11. CASE UNCHANGED authVars
  BY <1>11 DEF authVars, Explained, Expects
<1> QED BY <1>1, <1>2, <1>3, <1>4, <1>5, <1>6, <1>7, <1>8, <1>9, <1>10, <1>11
        DEF AuthNext

\* For any number of clients: a client that registers and logs in is refused
\* as not registered or not logged in only if another client has written the
\* file meanwhile, the file could not be read or written, or the token expired.
THEOREM FailuresAreExplained == AuthSpec => []AuthFailureIsExplained
<1>1. AuthInit => Explained
  BY DEF AuthInit, Explained, Expects
<1>2. ClientInv /\ Explained => AuthFailureIsExplained
  BY DEF ClientInv, Typed, Explained, Expects, AuthFailureIsExplained
<1> QED BY <1>1, <1>2, NextExplained, ClientInvariance, PTL DEF AuthSpec
=============================================================================
