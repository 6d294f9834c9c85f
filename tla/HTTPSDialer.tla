---------------------------- MODULE HTTPSDialer ----------------------------
(***************************************************************************)
(* One call of httpsDialer.DialTLSContext (internal/enginenetx).           *)
(*                                                                         *)
(* The parent goroutine spawns a fixed set of workers.  The workers range  *)
(* over the emitter channel, try one tactic at a time and post either a    *)
(* TLS connection or an error on the collector channel; a worker whose     *)
(* range loop ends posts on the joiner channel.  The parent cancels the    *)
(* shared context at the first connection and returns when every worker    *)
(* has joined.  All the channels are unbuffered, so sending and receiving  *)
(* is a single step of the model.                                          *)
(*                                                                         *)
(* A tactic is its position in the emission order: the emitter never emits *)
(* the same tactic twice (filterOnlyKeepUniqueTactics) and numbers tactics *)
(* consecutively (filterAssignInitialDelays).  A connection is named by    *)
(* the tactic that opened it.                                              *)
(***************************************************************************)
EXTENDS Integers, Sequences, FiniteSets, Functions

CONSTANTS
  Workers,        \* the goroutines (16 in the code)
  MaxTactics,     \* bound: the most tactics the policy emits
  MaxLookupTime   \* bound: seconds spent before the first tactic is tried

\* The parent needs at least one worker; the workers are finitely many.
ASSUME WorkersAssumption == IsFiniteSet(Workers) /\ Workers # {}

ASSUME BoundsAssumption == MaxTactics \in Nat /\ MaxLookupTime \in Nat

VARIABLES
  parent,     \* what DialTLSContext is doing
  next,       \* the next tactic that the emitter sends
  closed,     \* whether the emitter channel is closed
  pc,         \* what each worker is doing
  cur,        \* the tactic each worker is working on
  conn,       \* the network connection opened by each tactic
  cause,      \* history: why the network operation of a tactic failed
  events,     \* what the events handler was told about each tactic
  connv,      \* connections collected by the parent
  errorv,     \* errors collected by the parent (the tactic that failed)
  numJoined,  \* how many workers have joined
  ctx,        \* "live", or who cancelled the shared context first
  now,        \* the clock, in seconds
  t0,         \* httpsDialerWorkerZeroTime
  emittedAt,  \* history: when the first tactic reached a worker
  retConn,    \* the connection that DialTLSContext has returned
  retErr      \* the error that DialTLSContext has returned

parentVars == <<parent, connv, errorv, numJoined, retConn, retErr>>
emitterVars == <<next, closed, emittedAt>>
workerVars == <<pc, cur>>
netVars == <<conn, cause>>
clockVars == <<now, t0>>
vars == <<parentVars, emitterVars, workerVars, netVars, clockVars, events, ctx>>

Tactics == 1..MaxTactics
NoTactic == 0
NoTime == -1

ParentStates == {"start", "collect", "returned"}
WorkerStates == {"unborn", "range", "waitready", "timer", "starting",
                 "connect", "connectError", "handshake", "handshakeError",
                 "verify", "postConn", "postError", "join", "done"}
ConnStates == {"none", "open", "closed"}
Causes == {"none", "network", "cancelled"}
Events == {"starting", "tcpError", "tcpInterrupt", "tlsError",
           "tlsInterrupt", "verifyError", "success"}
Failures == {"badEndpoint", "joinedErrors", "errDNSNoAnswer"}

-----------------------------------------------------------------------------
(* Happy eyeballs delay, in seconds, of the tactic with the given index.   *)

happyEyeballsDelay(idx) ==
  CASE idx <= 0 -> 0
    [] idx = 1  -> 1
    [] idx \in 2..4 -> 2^(idx - 1)
    [] OTHER    -> 8 * (idx - 3)

\* The index of the first tactic is zero
InitialDelay(t) == happyEyeballsDelay(t - 1)

-----------------------------------------------------------------------------

Init ==
  /\ parent = "start"
  /\ next = 1
  /\ closed = FALSE
  /\ pc = [w \in Workers |-> "unborn"]
  /\ cur = [w \in Workers |-> NoTactic]
  /\ conn = [t \in Tactics |-> "none"]
  /\ cause = [t \in Tactics |-> "none"]
  /\ events = [t \in Tactics |-> << >>]
  /\ connv = << >>
  /\ errorv = << >>
  /\ numJoined = 0
  /\ ctx = "live"
  /\ now = 0
  /\ t0 = NoTime
  /\ emittedAt = NoTime
  /\ retConn = NoTactic
  /\ retErr = "pending"

ctxDone == ctx # "live"

\* Calling the cancel function; only the first cancellation has an effect
Cancelled(who) == IF ctxDone THEN ctx ELSE who

-----------------------------------------------------------------------------
(* The parent goroutine.                                                   *)

\* net.SplitHostPort fails: return before creating any goroutine
BadEndpoint ==
  /\ parent = "start"
  /\ parent' = "returned"
  /\ retErr' = "badEndpoint"
  /\ UNCHANGED <<emitterVars, workerVars, netVars, clockVars, events, connv,
                 errorv, numJoined, ctx, retConn>>

\* Mutant: the zero time is taken when the dial starts, before the DNS lookup
Spawn_EagerZeroTime ==
  /\ parent = "start"
  /\ parent' = "collect"
  /\ pc' = [w \in Workers |-> "range"]
  /\ t0' = now
  /\ UNCHANGED <<emitterVars, netVars, now, cur, events, connv,
                 errorv, numJoined, ctx, retConn, retErr>>

\* Start the policy and the workers
Spawn ==
  /\ parent = "start"
  /\ parent' = "collect"
  /\ pc' = [w \in Workers |-> "range"]
  /\ UNCHANGED <<emitterVars, netVars, clockVars, cur, events, connv,
                 errorv, numJoined, ctx, retConn, retErr>>

\* <-joiner
ReceiveJoin(w) ==
  /\ parent = "collect"
  /\ numJoined < Cardinality(Workers)
  /\ pc[w] = "join"
  /\ pc' = [pc EXCEPT ![w] = "done"]
  /\ numJoined' = numJoined + 1
  /\ UNCHANGED <<emitterVars, netVars, clockVars, parent, cur, events,
                 connv, errorv, ctx, retConn, retErr>>

\* Mutant: an error cancels the other attempts, like a connection
ReceiveError_Cancels(w) ==
  /\ parent = "collect"
  /\ numJoined < Cardinality(Workers)
  /\ pc[w] = "postError"
  /\ errorv' = Append(errorv, cur[w])
  /\ ctx' = Cancelled("dialer")
  /\ pc' = [pc EXCEPT ![w] = "range"]
  /\ cur' = [cur EXCEPT ![w] = NoTactic]
  /\ UNCHANGED <<emitterVars, netVars, clockVars, parent, events, connv,
                 numJoined, retConn, retErr>>

\* <-collector, when the worker failed
ReceiveError(w) ==
  /\ parent = "collect"
  /\ numJoined < Cardinality(Workers)
  /\ pc[w] = "postError"
  /\ errorv' = Append(errorv, cur[w])
  /\ pc' = [pc EXCEPT ![w] = "range"]
  /\ cur' = [cur EXCEPT ![w] = NoTactic]
  /\ UNCHANGED <<emitterVars, netVars, clockVars, parent, events, connv,
                 numJoined, ctx, retConn, retErr>>

\* <-collector, when the worker has a connection: cancel the other attempts
ReceiveConn(w) ==
  /\ parent = "collect"
  /\ numJoined < Cardinality(Workers)
  /\ pc[w] = "postConn"
  /\ connv' = Append(connv, cur[w])
  /\ ctx' = Cancelled("dialer")
  /\ pc' = [pc EXCEPT ![w] = "range"]
  /\ cur' = [cur EXCEPT ![w] = NoTactic]
  /\ UNCHANGED <<emitterVars, netVars, clockVars, parent, events,
                 errorv, numJoined, retConn, retErr>>

\* Mutant: the connections that lost the race are not closed
ReduceResult_KeepsLosers ==
  /\ retConn' = IF connv # << >> THEN connv[1] ELSE NoTactic
  /\ retErr' = IF connv # << >> THEN "nil"
               ELSE IF errorv # << >> THEN "joinedErrors"
               ELSE "errDNSNoAnswer"
  /\ UNCHANGED conn

\* httpsDialerReduceResult: the first connection wins, the others are closed
ReduceResult ==
  /\ retConn' = IF connv # << >> THEN connv[1] ELSE NoTactic
  /\ retErr' = IF connv # << >> THEN "nil"
               ELSE IF errorv # << >> THEN "joinedErrors"
               ELSE "errDNSNoAnswer"
  /\ conn' = [t \in Tactics |->
                IF \E i \in 2..Len(connv) : connv[i] = t
                THEN "closed" ELSE conn[t]]

\* Mutant: return at the first connection, without waiting for the workers
Return_Early ==
  /\ parent = "collect"
  /\ numJoined = Cardinality(Workers) \/ connv # << >>
  /\ parent' = "returned"
  /\ ReduceResult
  /\ ctx' = Cancelled("dialer")
  /\ UNCHANGED <<emitterVars, workerVars, clockVars, cause, events,
                 connv, errorv, numJoined>>

\* Every worker has joined; the deferred cancel runs on return
Return ==
  /\ parent = "collect"
  /\ numJoined = Cardinality(Workers)
  /\ parent' = "returned"
  /\ ReduceResult
  /\ ctx' = Cancelled("dialer")
  /\ UNCHANGED <<emitterVars, workerVars, clockVars, cause, events,
                 connv, errorv, numJoined>>

-----------------------------------------------------------------------------
(* The emitter: the policy's tactics, filtered and numbered.  How many     *)
(* tactics a policy produces is not known in advance.                      *)

Emit(w) ==
  /\ pc[w] = "range"
  /\ ~closed
  /\ next \in Tactics
  /\ cur' = [cur EXCEPT ![w] = next]
  /\ next' = next + 1
  /\ pc' = [pc EXCEPT ![w] = "waitready"]
  /\ emittedAt' = IF emittedAt = NoTime THEN now ELSE emittedAt
  /\ UNCHANGED <<parentVars, netVars, clockVars, closed, events, ctx>>

CloseEmitter ==
  /\ parent = "collect"
  /\ ~closed
  /\ closed' = TRUE
  /\ UNCHANGED <<parentVars, workerVars, netVars, clockVars, next,
                 events, ctx, emittedAt>>

-----------------------------------------------------------------------------
(* The worker goroutines.                                                  *)

\* The range loop of the worker ends when the emitter channel is closed
RangeEnds(w) ==
  /\ pc[w] = "range"
  /\ closed
  /\ pc' = [pc EXCEPT ![w] = "join"]
  /\ UNCHANGED <<parentVars, emitterVars, netVars, clockVars,
                 cur, events, ctx>>

\* t0.Get(): the first caller sets the zero time
ZeroTimeGet == IF t0 = NoTime THEN now ELSE t0

\* httpsDialerTacticWaitReady up to its select statement.  A tactic whose
\* deadline has passed is ready even when the context is already cancelled.
WaitReady(w) ==
  /\ pc[w] = "waitready"
  /\ t0' = ZeroTimeGet
  /\ pc' = [pc EXCEPT ![w] =
              IF t0' + InitialDelay(cur[w]) - now <= 0
              THEN "starting" ELSE "timer"]
  /\ UNCHANGED <<parentVars, emitterVars, netVars, cur, events, ctx, now>>

\* case <-timer.C
TimerFires(w) ==
  /\ pc[w] = "timer"
  /\ now >= t0 + InitialDelay(cur[w])
  /\ pc' = [pc EXCEPT ![w] = "starting"]
  /\ UNCHANGED <<parentVars, emitterVars, netVars, clockVars,
                 cur, events, ctx>>

\* Mutant: the wait for the happy-eyeballs delay ignores the context
TimerInterrupted_Never(w) == pc[w] = "timer" /\ UNCHANGED vars

\* case <-ctx.Done(): the handler is never told about this tactic
TimerInterrupted(w) ==
  /\ pc[w] = "timer"
  /\ ctxDone
  /\ cause' = [cause EXCEPT ![cur[w]] = "cancelled"]
  /\ pc' = [pc EXCEPT ![w] = "postError"]
  /\ UNCHANGED <<parentVars, emitterVars, clockVars, cur, conn, events, ctx>>

Notify(w, e) == events' = [events EXCEPT ![cur[w]] = Append(@, e)]

OnStarting(w) ==
  /\ pc[w] = "starting"
  /\ Notify(w, "starting")
  /\ pc' = [pc EXCEPT ![w] = "connect"]
  /\ UNCHANGED <<parentVars, emitterVars, netVars, clockVars, cur, ctx>>

\* A network operation fails by itself (its own timeouts included) or, once
\* the context is cancelled, because of the cancellation
FailureCauses == IF ctxDone THEN {"network", "cancelled"} ELSE {"network"}

\* dialer.DialContext returns
TCPConnectSucceeds(w) ==
  /\ pc[w] = "connect"
  /\ conn' = [conn EXCEPT ![cur[w]] = "open"]
  /\ pc' = [pc EXCEPT ![w] = "handshake"]
  /\ UNCHANGED <<parentVars, emitterVars, clockVars, cur, cause, events, ctx>>

TCPConnectFails(w) ==
  /\ pc[w] = "connect"
  /\ \E c \in FailureCauses : cause' = [cause EXCEPT ![cur[w]] = c]
  /\ pc' = [pc EXCEPT ![w] = "connectError"]
  /\ UNCHANGED <<parentVars, emitterVars, clockVars, cur, conn, events, ctx>>

\* Mutant: the callback does not look at the context
OnTCPConnectError_IgnoresContext(w) ==
  /\ pc[w] = "connectError"
  /\ Notify(w, "tcpError")
  /\ pc' = [pc EXCEPT ![w] = "postError"]
  /\ UNCHANGED <<parentVars, emitterVars, netVars, clockVars, cur, ctx>>

\* The handler looks at ctx.Err() after the operation has failed
OnTCPConnectError(w) ==
  /\ pc[w] = "connectError"
  /\ Notify(w, IF ctxDone THEN "tcpInterrupt" ELSE "tcpError")
  /\ pc' = [pc EXCEPT ![w] = "postError"]
  /\ UNCHANGED <<parentVars, emitterVars, netVars, clockVars, cur, ctx>>

\* thx.Handshake returns
TLSHandshakeSucceeds(w) ==
  /\ pc[w] = "handshake"
  /\ pc' = [pc EXCEPT ![w] = "verify"]
  /\ UNCHANGED <<parentVars, emitterVars, netVars, clockVars, cur, events, ctx>>

TLSHandshakeFails(w) ==
  /\ pc[w] = "handshake"
  /\ \E c \in FailureCauses : cause' = [cause EXCEPT ![cur[w]] = c]
  /\ pc' = [pc EXCEPT ![w] = "handshakeError"]
  /\ UNCHANGED <<parentVars, emitterVars, clockVars, cur, conn, events, ctx>>

\* Mutant: the TCP connection is left open when the handshake fails
OnTLSHandshakeError_NoClose(w) ==
  /\ pc[w] = "handshakeError"
  /\ Notify(w, IF ctxDone THEN "tlsInterrupt" ELSE "tlsError")
  /\ pc' = [pc EXCEPT ![w] = "postError"]
  /\ UNCHANGED <<parentVars, emitterVars, netVars, clockVars, cur, ctx>>

\* The handler's callback, then tcpConn.Close()
OnTLSHandshakeError(w) ==
  /\ pc[w] = "handshakeError"
  /\ Notify(w, IF ctxDone THEN "tlsInterrupt" ELSE "tlsError")
  /\ conn' = [conn EXCEPT ![cur[w]] = "closed"]
  /\ pc' = [pc EXCEPT ![w] = "postError"]
  /\ UNCHANGED <<parentVars, emitterVars, clockVars, cur, cause, ctx>>

\* httpsDialerVerifyCertificateChain, the handler's callback and, when the
\* verification fails, tlsConn.Close()
VerifySucceeds(w) ==
  /\ pc[w] = "verify"
  /\ Notify(w, "success")
  /\ pc' = [pc EXCEPT ![w] = "postConn"]
  /\ UNCHANGED <<parentVars, emitterVars, netVars, clockVars, cur, ctx>>

VerifyFails(w) ==
  /\ pc[w] = "verify"
  /\ Notify(w, "verifyError")
  /\ cause' = [cause EXCEPT ![cur[w]] = "network"]
  /\ conn' = [conn EXCEPT ![cur[w]] = "closed"]
  /\ pc' = [pc EXCEPT ![w] = "postError"]
  /\ UNCHANGED <<parentVars, emitterVars, clockVars, cur, ctx>>

-----------------------------------------------------------------------------
(* The environment.                                                        *)

\* The caller cancels the context it passed to DialTLSContext
CallerCancels ==
  /\ ~ctxDone
  /\ parent # "returned"
  /\ ctx' = "caller"
  /\ UNCHANGED <<parentVars, emitterVars, workerVars, netVars,
                 clockVars, events>>

\* Time passes: before the first attempt up to MaxLookupTime, and then until
\* the last tactic is ready, after which time makes no difference
Tick ==
  /\ parent = "collect"
  /\ now < IF t0 = NoTime THEN MaxLookupTime ELSE t0 + InitialDelay(MaxTactics)
  /\ now' = now + 1
  /\ UNCHANGED <<parentVars, emitterVars, workerVars, netVars,
                 events, ctx, t0>>

-----------------------------------------------------------------------------

Parent == \/ BadEndpoint
          \/ Spawn
          \/ Return
          \/ \E w \in Workers :
               ReceiveJoin(w) \/ ReceiveError(w) \/ ReceiveConn(w)

\* What a worker does on its own, between two uses of a channel
DialTLS(w) == \/ WaitReady(w) \/ TimerFires(w) \/ TimerInterrupted(w)
              \/ OnStarting(w)
              \/ TCPConnectSucceeds(w) \/ TCPConnectFails(w)
              \/ OnTCPConnectError(w)
              \/ TLSHandshakeSucceeds(w) \/ TLSHandshakeFails(w)
              \/ OnTLSHandshakeError(w)
              \/ VerifySucceeds(w) \/ VerifyFails(w)

Worker(w) == RangeEnds(w) \/ DialTLS(w)

Emitter == CloseEmitter \/ \E w \in Workers : Emit(w)

\* The dial is over and its caller has the result
Done == parent = "returned" /\ UNCHANGED vars

Next == \/ Parent
        \/ Emitter
        \/ \E w \in Workers : Worker(w)
        \/ CallerCancels
        \/ Tick
        \/ Done

Spec == Init /\ [][Next]_vars

\* The Go scheduler runs every runnable goroutine; network operations are
\* bounded by the timeouts of netxlite; a policy eventually closes its channel.
\* Time is only assumed to pass while the context is live: a cancelled dial
\* must finish without waiting for any timer.
Fairness == /\ WF_vars(Parent)
            /\ WF_vars(CloseEmitter)
            /\ \A w \in Workers : WF_vars(Worker(w))
            /\ WF_vars(~ctxDone /\ Tick)

FairSpec == Spec /\ Fairness

-----------------------------------------------------------------------------
(* Properties.                                                             *)

Emitted == 1..(next - 1)

\* The values that the variables may have.
TypeOK ==
  /\ parent \in ParentStates
  /\ next \in 1..(MaxTactics + 1)
  /\ closed \in BOOLEAN
  /\ pc \in [Workers -> WorkerStates]
  /\ cur \in [Workers -> Tactics \cup {NoTactic}]
  /\ conn \in [Tactics -> ConnStates]
  /\ cause \in [Tactics -> Causes]
  /\ events \in [Tactics -> Seq(Events)]
  /\ connv \in Seq(Tactics)
  /\ errorv \in Seq(Tactics)
  /\ numJoined \in 0..Cardinality(Workers)
  /\ ctx \in {"live", "dialer", "caller"}
  /\ now \in Nat
  /\ t0 \in Nat \cup {NoTime}
  /\ emittedAt \in Nat \cup {NoTime}
  /\ retConn \in Tactics \cup {NoTactic}
  /\ retErr \in {"pending", "nil"} \cup Failures

\* When DialTLSContext has returned, the only connection that is open is the
\* one given to the caller, which is open; with an error there is none.  The
\* losers of the race are closed whenever they finish: in the handshake, in
\* the verification, or after another worker has already won.
NoConnLeak ==
  parent = "returned" =>
    \A t \in Tactics : conn[t] = "open" <=> retConn = t

\* When DialTLSContext has returned, no goroutine that it started is left
\* (they would be stuck sending to a channel that nobody receives from), and
\* every emitted tactic has been collected exactly once, as a connection when
\* the events handler was told that it succeeded and as an error otherwise.
\* errDNSNoAnswer means that the policy did not produce any tactic.
EveryTacticAccounted ==
  (parent = "returned" /\ retErr # "badEndpoint") =>
    /\ \A w \in Workers : pc[w] = "done"
    /\ closed
    /\ Len(connv) + Len(errorv) = Cardinality(Emitted)
    /\ Range(connv) \cup Range(errorv) = Emitted
    /\ \A t \in Emitted :
         IF t \in Range(connv)
         THEN events[t] = <<"starting", "success">>
         ELSE \/ events[t] = << >> /\ cause[t] = "cancelled"
              \/ \E e \in Events \ {"starting", "success"} :
                   events[t] = <<"starting", e>>
    /\ retErr = "errDNSNoAnswer" <=> Emitted = {}

\* An attempt that was interrupted by the cancellation of the context is never
\* reported as the failure of its tactic (the contract of the methods of
\* httpsDialerEventsHandler that take a context).
InterruptIsNotFailure ==
  \A t \in Tactics :
    cause[t] = "cancelled" =>
      Range(events[t]) \cap {"tcpError", "tlsError", "verifyError"} = {}

\* The dialer cancels its own context only to stop the losers of the race: a
\* dial whose caller did not cancel fails only if every tactic was tried until
\* it failed by itself.
NoSelfInflictedFailure ==
  (retErr \in {"joinedErrors", "errDNSNoAnswer"} /\ ctx # "caller") =>
    \A t \in Emitted : cause[t] = "network" /\ Len(events[t]) = 2

\* The two sides of a cancellation: nobody is blamed for one, and the dialer
\* does not cause a failure by its own.
BlameIsDeserved == InterruptIsNotFailure /\ NoSelfInflictedFailure

\* A tactic is started no earlier than its happy-eyeballs delay after the
\* first tactic reached a worker, however slow the policy was in producing it
\* and whether or not the context has been cancelled in the meantime.
HappyEyeballs ==
  [][\A t \in Tactics :
       (events[t] = << >> /\ events'[t] # << >>) =>
         now >= emittedAt + InitialDelay(t)]_vars

\* DialTLSContext returns: no worker waits forever for the parent or the other
\* way around, and a cancelled dial returns without waiting for any timer.
DialReturns == <>(parent = "returned")

\* The dialer implements what its callers expect of a model.TLSDialer.
Abstract == INSTANCE TLSDialer WITH Conns <- Tactics
ImplementsTLSDialer == Abstract!Spec
=============================================================================
