----------------------------- MODULE Overlapped -----------------------------
(***************************************************************************)
(* One call of Overlapped.Run (internal/httpclientx): Map starts the API   *)
(* call to each endpoint in a goroutine of its own, the next one when the  *)
(* previous has given a result or when the ticker ticks; the first success *)
(* cancels the context; Map returns when it has one result per endpoint.   *)
(* OverlappedReduce turns the results into a value or an error.            *)
(***************************************************************************)
EXTENDS Integers, Sequences, FiniteSets

CONSTANT MaxEndpoints   \* bound: how many endpoints the caller passes

ASSUME EndpointsAssumption == MaxEndpoints \in Nat

VARIABLES
  n,         \* len(epnts); the endpoints are 1..n
  map,       \* what Map is doing
  idx,       \* how many goroutines have been spawned
  ticking,   \* whether the ticker is ticking
  call,      \* what the goroutine of each endpoint is doing
  results,   \* the results collected so far
  ctx,       \* "live", or who cancelled the context first
  ret        \* what Run has returned: the index of an endpoint

vars == <<n, map, idx, ticking, call, results, ctx, ret>>

Endpoints == 1..n

\* What RunFunc may return: a value, an error of its own, or the error of the
\* context
RunFuncResults == {"value", "error", "canceled"}
CallStates == {"unborn", "running", "joined"} \cup RunFuncResults

Pending == -1   \* Run has not returned yet
Failed  == 0    \* Run has returned an error

Init ==
  /\ n \in 0..MaxEndpoints
  /\ map = "loop"
  /\ idx = 0
  /\ ticking = TRUE
  /\ call = [e \in 1..MaxEndpoints |-> "unborn"]
  /\ results = << >>
  /\ ctx = "live"
  /\ ret = Pending

ctxDone == ctx # "live"
Cancelled(who) == IF ctxDone THEN ctx ELSE who

-----------------------------------------------------------------------------
(* Map.                                                                    *)

\* Mutant: no goroutine is spawned once the context is done
Iterate_StopsWhenDone ==
  /\ map = "loop"
  /\ Len(results) < n
  /\ map' = "select"
  /\ IF idx < n /\ ~ctxDone
     THEN /\ idx' = idx + 1
          /\ call' = [call EXCEPT ![idx + 1] = "running"]
          /\ UNCHANGED ticking
     ELSE /\ ticking' = FALSE
          /\ UNCHANGED <<idx, call>>
  /\ UNCHANGED <<n, results, ctx, ret>>

\* The top of the loop: spawn the next goroutine, or stop the ticker
Iterate ==
  /\ map = "loop"
  /\ Len(results) < n
  /\ map' = "select"
  /\ IF idx < n
     THEN /\ idx' = idx + 1
          /\ call' = [call EXCEPT ![idx + 1] = "running"]
          /\ UNCHANGED ticking
     ELSE /\ ticking' = FALSE
          /\ UNCHANGED <<idx, call>>
  /\ UNCHANGED <<n, results, ctx, ret>>

\* Mutant: any result cancels the other calls
ReceiveResult_AlwaysCancels(e) ==
  /\ map = "select"
  /\ call[e] \in RunFuncResults
  /\ results' = Append(results, [Index |-> e, Err |-> call[e]])
  /\ call' = [call EXCEPT ![e] = "joined"]
  /\ ticking' = FALSE
  /\ ctx' = Cancelled("map")
  /\ map' = "loop"
  /\ UNCHANGED <<n, idx, ret>>

\* case res := <-output
ReceiveResult(e) ==
  /\ map = "select"
  /\ call[e] \in RunFuncResults
  /\ results' = Append(results, [Index |-> e, Err |-> call[e]])
  /\ call' = [call EXCEPT ![e] = "joined"]
  /\ IF call[e] = "value"
     THEN ticking' = FALSE /\ ctx' = Cancelled("map")
     ELSE UNCHANGED <<ticking, ctx>>
  /\ map' = "loop"
  /\ UNCHANGED <<n, idx, ret>>

\* case <-ticker.C
TickerTicks ==
  /\ map = "select"
  /\ ticking
  /\ map' = "loop"
  /\ UNCHANGED <<n, idx, ticking, call, results, ctx, ret>>

Successes == {i \in DOMAIN results : results[i].Err = "value"}

\* OverlappedReduce: the first success, or all the errors
OverlappedReduce ==
  IF Successes = {} THEN Failed
  ELSE LET first == CHOOSE i \in Successes : \A j \in Successes : i <= j
       IN  results[first].Index

\* Mutant: Map returns as soon as there is a success
RunReturns_Early ==
  /\ map = "loop"
  /\ Len(results) >= n \/ Successes # {}
  /\ map' = "returned"
  /\ ticking' = FALSE
  /\ ctx' = Cancelled("map")
  /\ ret' = OverlappedReduce
  /\ UNCHANGED <<n, idx, call, results>>

\* Map returns, running the deferred cancel and Stop, and Run reduces
RunReturns ==
  /\ map = "loop"
  /\ Len(results) >= n
  /\ map' = "returned"
  /\ ticking' = FALSE
  /\ ctx' = Cancelled("map")
  /\ ret' = OverlappedReduce
  /\ UNCHANGED <<n, idx, call, results>>

-----------------------------------------------------------------------------
(* The goroutines and the context.                                         *)

\* transact: RunFunc returns, and the goroutine is about to send the result.
\* RunFunc may fail because of the context once it is cancelled, unless it has
\* read the whole response by then.
transact(e) ==
  /\ call[e] = "running"
  /\ \E r \in IF ctxDone THEN RunFuncResults ELSE {"value", "error"} :
       call' = [call EXCEPT ![e] = r]
  /\ UNCHANGED <<n, map, idx, ticking, results, ctx, ret>>

\* The watchdog timeout expires, or the caller cancels its context
ContextExpires ==
  /\ map # "returned"
  /\ ~ctxDone
  /\ ctx' = "outside"
  /\ UNCHANGED <<n, map, idx, ticking, call, results, ret>>

-----------------------------------------------------------------------------

Map == Iterate \/ RunReturns \/ \E e \in Endpoints : ReceiveResult(e)

Done == map = "returned" /\ UNCHANGED vars

Next == \/ Map
        \/ TickerTicks
        \/ \E e \in Endpoints : transact(e)
        \/ ContextExpires
        \/ Done

Spec == Init /\ [][Next]_vars

\* The watchdog makes sure that the context expires, and RunFunc returns once it
\* has.  Nothing is assumed of RunFunc before that, nor of the ticker.
FairSpec == /\ Spec
            /\ WF_vars(Map)
            /\ WF_vars(ContextExpires)
            /\ \A e \in 1..MaxEndpoints : WF_vars(ctxDone /\ transact(e))

-----------------------------------------------------------------------------
(* Properties.                                                             *)

Result == [Index : 1..MaxEndpoints, Err : RunFuncResults]

\* The values that the variables may have.
TypeOK ==
  /\ n \in 0..MaxEndpoints
  /\ map \in {"loop", "select", "returned"}
  /\ idx \in 0..n
  /\ ticking \in BOOLEAN
  /\ call \in [1..MaxEndpoints -> CallStates]
  /\ results \in Seq(Result)
  /\ ctx \in {"live", "map", "outside"}
  /\ ret \in Pending..n

\* Map returns exactly one result per endpoint and leaves no goroutine behind:
\* a goroutine that nobody receives from would be stuck forever.
ResultPerEndpoint ==
  map = "returned" =>
    /\ Len(results) = n
    /\ {results[i].Index : i \in DOMAIN results} = Endpoints
    /\ \A e \in Endpoints : call[e] = "joined"

\* Run fails only if every call failed; and if neither the watchdog nor the
\* caller cancelled the context, every call failed by itself, because Map only
\* cancels the context when it already has a success.
FailureIsGenuine ==
  ret = Failed =>
    \A i \in DOMAIN results :
      \/ results[i].Err = "error"
      \/ results[i].Err = "canceled" /\ ctx = "outside"

\* Run returns, however long RunFunc takes and even if the ticker never ticks.
RunTerminates == <>(map = "returned")
=============================================================================
