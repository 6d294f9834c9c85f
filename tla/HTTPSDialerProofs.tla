------------------------- MODULE HTTPSDialerProofs -------------------------
(***************************************************************************)
(* Proofs about HTTPSDialer for every finite set of workers and every      *)
(* bound on the tactics, and about TacticPolicy for every interleaving     *)
(* factor, list of addresses and set of SNIs.                              *)
(*                                                                         *)
(* The first invariant, IInv, is about connections: who owns each of them  *)
(* until it is closed or returned.  No connection leaks, and the dialer    *)
(* implements TLSDialer, because of it.  The second one, Account, stands   *)
(* on the first and follows each tactic from the emitter to the parent:    *)
(* what the handler has been told about it at each point, that it is       *)
(* collected once, who cancelled the context and how long it has waited.   *)
(*                                                                         *)
(* The invariant of the policies, PolicyInv, follows the tactics through   *)
(* the channels: each that a mixer has received is at the place, Placed,   *)
(* that it has in the interleaving of its inputs, although these may not   *)
(* have sent everything yet.                                               *)
(***************************************************************************)
EXTENDS HTTPSDialer, TacticPolicy, FiniteSetTheorems, SequenceTheorems, TLAPS

\* The worker has a tactic and has not connected yet
Connecting == {"waitready", "timer", "starting", "connect"}
\* The worker has a tactic and an open connection
Owning == {"handshake", "handshakeError", "verify", "postConn"}
\* The worker has a tactic
Busy == Connecting \cup Owning \cup {"connectError", "postError"}

\* Each busy worker has an emitted tactic, which no one else has
TacticsOwned ==
  /\ \A w \in Workers : pc[w] \in Busy => cur[w] \in Tactics /\ cur[w] < next
  /\ \A v, w \in Workers :
       pc[v] \in Busy /\ pc[w] \in Busy /\ cur[v] = cur[w] => v = w

\* How far the connection of a tactic is follows from who has the tactic
ConnsOwned ==
  /\ \A t \in Tactics : t >= next => conn[t] = "none"
  /\ \A w \in Workers : pc[w] \in Connecting => conn[cur[w]] = "none"
  /\ \A w \in Workers : pc[w] \in Owning => conn[cur[w]] = "open"

\* While the dial is running, an open connection is either in the hands of a
\* worker or collected by the parent
OpenConnsHeld ==
  parent # "returned" =>
    \A t \in Tactics : conn[t] = "open" =>
      \/ \E w \in Workers : pc[w] \in Owning /\ cur[w] = t
      \/ \E i \in 1..Len(connv) : connv[i] = t

\* Collected connections are open, distinct and have left their worker
ConnsCollected ==
  /\ \A i \in 1..Len(connv) :
       /\ connv[i] < next
       /\ parent # "returned" => conn[connv[i]] = "open"
       /\ \A w \in Workers : pc[w] \in Busy => cur[w] # connv[i]
  /\ \A i, j \in 1..Len(connv) : connv[i] = connv[j] => i = j

\* The parent counts exactly the workers that are done
JoinsCounted == numJoined = Cardinality({w \in Workers : pc[w] = "done"})

\* The phases of the parent
Phases ==
  /\ parent = "start" =>
       /\ \A w \in Workers : pc[w] = "unborn"
       /\ connv = << >>
  /\ parent = "returned" =>
       \A w \in Workers : pc[w] \in {"unborn", "done"}
  /\ parent = "collect" => \A w \in Workers : pc[w] # "unborn"
  /\ retErr = "pending" <=> parent # "returned"
  /\ parent # "returned" => retConn = NoTactic

\* The inductive invariant
IInv == /\ TypeOK
        /\ TacticsOwned
        /\ ConnsOwned
        /\ OpenConnsHeld
        /\ ConnsCollected
        /\ JoinsCounted
        /\ Phases
        /\ NoConnLeak

-----------------------------------------------------------------------------
(* Type correctness.                                                       *)

\* A sequence that is not empty has a first element.
LEMMA NonEmptySeq ==
  ASSUME NEW S, NEW s \in Seq(S), s # << >>
  PROVE  Len(s) \in Nat /\ Len(s) >= 1 /\ s[1] \in S
  OBVIOUS

\* The elements of a sequence.
LEMMA SeqElement ==
  ASSUME NEW S, NEW s \in Seq(S), NEW i \in 1..Len(s)
  PROVE  s[i] \in S
  OBVIOUS

\* The number of workers is a natural number.
LEMMA WorkersFinite == Cardinality(Workers) \in Nat
  BY WorkersAssumption, FS_CardinalityType

\* Every step keeps the types of the variables: what the parent collects from a
\* worker is a tactic because a busy worker has one.
LEMMA TypeNext == TypeOK /\ TacticsOwned /\ [Next]_vars => TypeOK'
<1> SUFFICES ASSUME TypeOK, TacticsOwned, [Next]_vars PROVE TypeOK'
  OBVIOUS
<1> USE DEF TypeOK, ParentStates, WorkerStates, ConnStates, Causes, Events,
            Failures, Tactics, NoTactic, NoTime,
            parentVars, emitterVars, workerVars, netVars, clockVars
<1>1. ASSUME BadEndpoint
      PROVE  TypeOK'
  BY <1>1 DEF BadEndpoint
<1>2. ASSUME Spawn
      PROVE  TypeOK'
  BY <1>2 DEF Spawn
<1>3. ASSUME Return
      PROVE  TypeOK'
  <2>1. connv # << >> => connv[1] \in Tactics
    BY NonEmptySeq
  <2>2. /\ retConn' \in Tactics \cup {NoTactic}
        /\ retErr' \in {"pending", "nil"} \cup Failures
    BY <1>3, <2>1 DEF Return, ReduceResult
  <2>3. conn' \in [Tactics -> ConnStates]
    BY <1>3 DEF Return, ReduceResult
  <2>4. QED
    BY <1>3, <2>2, <2>3 DEF Return, Cancelled, ctxDone
<1>4. ASSUME NEW w \in Workers, ReceiveJoin(w)
      PROVE  TypeOK'
  BY <1>4, WorkersFinite, BoundsAssumption DEF ReceiveJoin
<1>5. ASSUME NEW w \in Workers, ReceiveError(w)
      PROVE  TypeOK'
  BY <1>5 DEF TacticsOwned, Busy, Owning, ReceiveError
<1>6. ASSUME NEW w \in Workers, ReceiveConn(w)
      PROVE  TypeOK'
  BY <1>6 DEF TacticsOwned, Busy, Owning, ReceiveConn, Cancelled, ctxDone
<1>7. ASSUME CloseEmitter
      PROVE  TypeOK'
  BY <1>7 DEF CloseEmitter
<1>8. ASSUME NEW w \in Workers, Emit(w)
      PROVE  TypeOK'
  BY <1>8, WorkersFinite, BoundsAssumption DEF Emit
<1>9. ASSUME NEW w \in Workers, RangeEnds(w)
      PROVE  TypeOK'
  BY <1>9 DEF RangeEnds
<1>10. ASSUME NEW w \in Workers, WaitReady(w)
      PROVE  TypeOK'
  BY <1>10 DEF WaitReady, ZeroTimeGet
<1>11. ASSUME NEW w \in Workers, TimerFires(w)
      PROVE  TypeOK'
  BY <1>11 DEF TimerFires
<1>12. ASSUME NEW w \in Workers, TimerInterrupted(w)
      PROVE  TypeOK'
  BY <1>12 DEF TimerInterrupted
<1>13. ASSUME NEW w \in Workers, OnStarting(w)
      PROVE  TypeOK'
  <2>1. cur[w] \in Tactics
    BY <1>13 DEF OnStarting, TacticsOwned, Busy, Owning, Connecting
  <2>2. \A e \in Events : Append(events[cur[w]], e) \in Seq(Events)
    BY <2>1
  <2>3. QED
    BY <1>13, <2>1, <2>2 DEF OnStarting, Notify
<1>14. ASSUME NEW w \in Workers, TCPConnectSucceeds(w)
      PROVE  TypeOK'
  BY <1>14 DEF TCPConnectSucceeds
<1>15. ASSUME NEW w \in Workers, TCPConnectFails(w)
      PROVE  TypeOK'
  BY <1>15 DEF TCPConnectFails, FailureCauses
<1>16. ASSUME NEW w \in Workers, OnTCPConnectError(w)
      PROVE  TypeOK'
  <2>1. cur[w] \in Tactics
    BY <1>16 DEF OnTCPConnectError, TacticsOwned, Busy, Owning, Connecting
  <2>2. \A e \in Events : Append(events[cur[w]], e) \in Seq(Events)
    BY <2>1
  <2>3. QED
    BY <1>16, <2>1, <2>2 DEF OnTCPConnectError, Notify
<1>17. ASSUME NEW w \in Workers, TLSHandshakeSucceeds(w)
      PROVE  TypeOK'
  BY <1>17 DEF TLSHandshakeSucceeds
<1>18. ASSUME NEW w \in Workers, TLSHandshakeFails(w)
      PROVE  TypeOK'
  BY <1>18 DEF TLSHandshakeFails, FailureCauses
<1>19. ASSUME NEW w \in Workers, OnTLSHandshakeError(w)
      PROVE  TypeOK'
  <2>1. cur[w] \in Tactics
    BY <1>19 DEF OnTLSHandshakeError, TacticsOwned, Busy, Owning, Connecting
  <2>2. \A e \in Events : Append(events[cur[w]], e) \in Seq(Events)
    BY <2>1
  <2>3. QED
    BY <1>19, <2>1, <2>2 DEF OnTLSHandshakeError, Notify
<1>20. ASSUME NEW w \in Workers, VerifySucceeds(w)
      PROVE  TypeOK'
  <2>1. cur[w] \in Tactics
    BY <1>20 DEF VerifySucceeds, TacticsOwned, Busy, Owning, Connecting
  <2>2. \A e \in Events : Append(events[cur[w]], e) \in Seq(Events)
    BY <2>1
  <2>3. QED
    BY <1>20, <2>1, <2>2 DEF VerifySucceeds, Notify
<1>21. ASSUME NEW w \in Workers, VerifyFails(w)
      PROVE  TypeOK'
  <2>1. cur[w] \in Tactics
    BY <1>21 DEF VerifyFails, TacticsOwned, Busy, Owning, Connecting
  <2>2. \A e \in Events : Append(events[cur[w]], e) \in Seq(Events)
    BY <2>1
  <2>3. QED
    BY <1>21, <2>1, <2>2 DEF VerifyFails, Notify
<1>22. ASSUME CallerCancels
      PROVE  TypeOK'
  BY <1>22 DEF CallerCancels
<1>23. ASSUME Tick
      PROVE  TypeOK'
  BY <1>23 DEF Tick
<1>24. CASE UNCHANGED vars
  BY <1>24 DEF vars
<1> HIDE DEF TypeOK
<1>25. QED
  BY <1>1, <1>2, <1>3, <1>4, <1>5, <1>6, <1>7, <1>8, <1>9, <1>10, <1>11,
     <1>12, <1>13, <1>14, <1>15, <1>16, <1>17, <1>18, <1>19, <1>20, <1>21,
     <1>22, <1>23, <1>24
  DEF Next, Parent, Emitter, Worker, DialTLS, Done

\* The initial state has the types of the variables.
LEMMA TypeInit == Init => TypeOK
<1> SUFFICES ASSUME Init PROVE TypeOK
  OBVIOUS
<1>1. next \in 1..(MaxTactics + 1) /\ numJoined \in 0..Cardinality(Workers)
  BY WorkersFinite, BoundsAssumption DEF Init
<1>2. << >> \in Seq(Tactics) /\ << >> \in Seq(Events)
  OBVIOUS
<1>3. QED
  BY <1>1, <1>2
  DEF Init, TypeOK, ParentStates, WorkerStates, ConnStates, Causes, Failures,
      NoTactic, NoTime

-----------------------------------------------------------------------------
(* The inductive invariant.                                                *)

\* When the parent has counted as many joins as there are workers, no worker is
\* left running.
LEMMA AllDone ==
  ASSUME JoinsCounted, numJoined = Cardinality(Workers)
  PROVE  \A w \in Workers : pc[w] = "done"
<1> DEFINE D == {w \in Workers : pc[w] = "done"}
<1>1. D \subseteq Workers
  OBVIOUS
<1>2. D = Workers
  BY <1>1, WorkersAssumption, FS_Subset DEF JoinsCounted
<1>3. QED
  BY <1>2

\* Every step keeps the invariant.
LEMMA InvNext == IInv /\ [Next]_vars => IInv'
<1> SUFFICES ASSUME IInv, [Next]_vars PROVE IInv'
  OBVIOUS
<1>1. /\ TypeOK /\ TacticsOwned /\ ConnsOwned /\ OpenConnsHeld
      /\ ConnsCollected /\ JoinsCounted /\ Phases /\ NoConnLeak
  BY DEF IInv
<1>2. TypeOK'
  BY <1>1, TypeNext
<1> USE <1>1, <1>2 DEF Connecting, Owning, Busy, NoTactic, Tactics,
        parentVars, emitterVars, workerVars, netVars, clockVars
<1>3. ASSUME BadEndpoint
      PROVE  IInv'
  <2> USE <1>3 DEF BadEndpoint
  <2>1. TacticsOwned'
    BY DEF TypeOK, TacticsOwned
  <2>2. ConnsOwned'
    BY DEF TypeOK, TacticsOwned, ConnsOwned
  <2>3. OpenConnsHeld'
    BY DEF TypeOK, TacticsOwned, OpenConnsHeld, Phases
  <2>4. ConnsCollected'
    BY DEF TypeOK, TacticsOwned, ConnsOwned, ConnsCollected
  <2>5. JoinsCounted'
    BY DEF TypeOK, JoinsCounted
  <2>6. Phases'
    BY DEF TypeOK, Phases
  <2>7. NoConnLeak'
    BY DEF TypeOK, Phases, OpenConnsHeld, NoConnLeak
  <2>8. QED
    BY <2>1, <2>2, <2>3, <2>4, <2>5, <2>6, <2>7 DEF IInv
<1>4. ASSUME Spawn
      PROVE  IInv'
  <2> USE <1>4 DEF Spawn
  <2>1. TacticsOwned'
    BY DEF TypeOK, TacticsOwned
  <2>2. ConnsOwned'
    BY DEF TypeOK, TacticsOwned, ConnsOwned
  <2>3. OpenConnsHeld'
    BY DEF TypeOK, TacticsOwned, OpenConnsHeld, Phases
  <2>4. ConnsCollected'
    BY DEF TypeOK, TacticsOwned, ConnsOwned, ConnsCollected
  <2>5. JoinsCounted'
    <3>1. {w \in Workers : pc'[w] = "done"} = {w \in Workers : pc[w] = "done"}
      BY DEF Phases
    <3>2. QED
      BY <3>1 DEF JoinsCounted
  <2>6. Phases'
    BY DEF TypeOK, Phases
  <2>7. NoConnLeak'
    BY DEF TypeOK, Phases, NoConnLeak
  <2>8. QED
    BY <2>1, <2>2, <2>3, <2>4, <2>5, <2>6, <2>7 DEF IInv
<1>5. ASSUME Return
      PROVE  IInv'
  <2> USE <1>5 DEF Return, ReduceResult
  <2>1. TacticsOwned'
    BY DEF TypeOK, TacticsOwned
  <2>2. ConnsOwned'
    BY AllDone DEF TypeOK, ConnsOwned, ConnsCollected
  <2>3. OpenConnsHeld'
    BY DEF TypeOK, TacticsOwned, OpenConnsHeld, Phases
  <2>4. ConnsCollected'
    BY DEF TypeOK, TacticsOwned, ConnsOwned, ConnsCollected
  <2>5. JoinsCounted'
    BY DEF TypeOK, JoinsCounted
  <2>6. Phases'
    BY AllDone DEF TypeOK, Phases
  <2>7. NoConnLeak'
    <3>1. \A t \in Tactics : conn[t] = "open" => \E j \in 1..Len(connv) : connv[j] = t
      BY AllDone DEF OpenConnsHeld, TypeOK
    <3>2. CASE connv = << >>
      BY <3>1, <3>2 DEF TypeOK, NoConnLeak
    <3>3. CASE connv # << >>
      <4>1. Len(connv) \in Nat /\ Len(connv) >= 1 /\ connv[1] \in Tactics
        BY <3>3, NonEmptySeq DEF TypeOK
      <4>2. conn[connv[1]] = "open"
        BY <4>1 DEF ConnsCollected
      <4>3. \A j \in 2..Len(connv) : connv[j] # connv[1]
        BY <4>1 DEF ConnsCollected
      <4>4. \A j \in 1..Len(connv) : j = 1 \/ j \in 2..Len(connv)
        BY <4>1
      <4>5. QED
        BY <3>1, <3>3, <4>1, <4>2, <4>3, <4>4 DEF TypeOK, NoConnLeak
    <3>4. QED
      BY <3>2, <3>3
  <2>8. QED
    BY <2>1, <2>2, <2>3, <2>4, <2>5, <2>6, <2>7 DEF IInv
<1>6. ASSUME NEW w \in Workers, ReceiveJoin(w)
      PROVE  IInv'
  <2> USE <1>6 DEF ReceiveJoin
  <2>1. TacticsOwned'
    BY DEF TypeOK, TacticsOwned
  <2>2. ConnsOwned'
    BY DEF TypeOK, TacticsOwned, ConnsOwned
  <2>3. OpenConnsHeld'
    BY DEF TypeOK, TacticsOwned, OpenConnsHeld, Phases
  <2>4. ConnsCollected'
    BY DEF TypeOK, TacticsOwned, ConnsOwned, ConnsCollected
  <2>5. JoinsCounted'
    <3>1. {v \in Workers : pc[v] = "done"} \cup {w} = {v \in Workers : pc'[v] = "done"}
      BY DEF TypeOK
    <3>2. IsFiniteSet({v \in Workers : pc[v] = "done"})
      BY WorkersAssumption, FS_Subset, SMT
    <3>3. w \notin {v \in Workers : pc[v] = "done"}
      OBVIOUS
    <3>4. QED
      BY <3>1, <3>2, <3>3, FS_AddElement DEF JoinsCounted
  <2>6. Phases'
    BY DEF TypeOK, Phases
  <2>7. NoConnLeak'
    BY DEF TypeOK, Phases, NoConnLeak
  <2>8. QED
    BY <2>1, <2>2, <2>3, <2>4, <2>5, <2>6, <2>7 DEF IInv
<1>7. ASSUME NEW w \in Workers, ReceiveError(w)
      PROVE  IInv'
  <2> USE <1>7 DEF ReceiveError
  <2>1. TacticsOwned'
    BY DEF TypeOK, TacticsOwned
  <2>2. ConnsOwned'
    BY DEF TypeOK, TacticsOwned, ConnsOwned
  <2>3. OpenConnsHeld'
    BY DEF TypeOK, TacticsOwned, OpenConnsHeld, Phases
  <2>4. ConnsCollected'
    BY DEF TypeOK, TacticsOwned, ConnsOwned, ConnsCollected
  <2>5. JoinsCounted'
    BY DEF TypeOK, JoinsCounted
  <2>6. Phases'
    BY DEF TypeOK, Phases
  <2>7. NoConnLeak'
    BY DEF TypeOK, Phases, NoConnLeak
  <2>8. QED
    BY <2>1, <2>2, <2>3, <2>4, <2>5, <2>6, <2>7 DEF IInv
<1>8. ASSUME NEW w \in Workers, ReceiveConn(w)
      PROVE  IInv'
  <2> USE <1>8 DEF ReceiveConn
  <2>1. TacticsOwned'
    BY DEF TypeOK, TacticsOwned
  <2>2. ConnsOwned'
    BY DEF TypeOK, TacticsOwned, ConnsOwned
  <2>3. OpenConnsHeld'
    <3>1. cur[w] \in Tactics
      BY DEF TacticsOwned
    <3>2. /\ Len(connv') = Len(connv) + 1
          /\ connv'[Len(connv) + 1] = cur[w]
          /\ \A i \in 1..Len(connv) : connv'[i] = connv[i]
          /\ Len(connv) \in Nat
      BY <3>1 DEF TypeOK
    <3>3. SUFFICES ASSUME NEW t \in Tactics, conn[t] = "open"
                   PROVE  \/ \E v \in Workers : pc'[v] \in Owning /\ cur'[v] = t
                          \/ \E i \in 1..Len(connv') : connv'[i] = t
      BY DEF OpenConnsHeld
    <3>4. CASE cur[w] = t
      BY <3>2, <3>4
    <3>5. CASE \E v \in Workers \ {w} : pc[v] \in Owning /\ cur[v] = t
      BY <3>5 DEF TypeOK
    <3>6. CASE \E i \in 1..Len(connv) : connv[i] = t
      BY <3>2, <3>6
    <3>7. QED
      BY <3>3, <3>4, <3>5, <3>6 DEF OpenConnsHeld
  <2>4. ConnsCollected'
    BY DEF TypeOK, TacticsOwned, ConnsOwned, ConnsCollected
  <2>5. JoinsCounted'
    BY DEF TypeOK, JoinsCounted
  <2>6. Phases'
    BY DEF TypeOK, Phases
  <2>7. NoConnLeak'
    BY DEF TypeOK, Phases, NoConnLeak
  <2>8. QED
    BY <2>1, <2>2, <2>3, <2>4, <2>5, <2>6, <2>7 DEF IInv
<1>9. ASSUME CloseEmitter
      PROVE  IInv'
  BY <1>9 DEF IInv, TypeOK, TacticsOwned, ConnsOwned, OpenConnsHeld,
     ConnsCollected, JoinsCounted, Phases, NoConnLeak, CloseEmitter
<1>10. ASSUME NEW w \in Workers, Emit(w)
      PROVE  IInv'
  <2> USE <1>10 DEF Emit
  <2>1. TacticsOwned'
    BY DEF TypeOK, TacticsOwned
  <2>2. ConnsOwned'
    BY DEF TypeOK, TacticsOwned, ConnsOwned
  <2>3. OpenConnsHeld'
    BY DEF TypeOK, TacticsOwned, OpenConnsHeld, Phases
  <2>4. ConnsCollected'
    <3>1. \A i \in 1..Len(connv) : connv[i] \in Int
      <4>1. \A i \in 1..Len(connv) : connv[i] \in 1..MaxTactics
        BY SeqElement DEF TypeOK
      <4>2. QED
        BY <4>1
    <3>2. \A i \in 1..Len(connv) : connv'[i] < next' /\ connv'[i] # next
      BY <3>1 DEF ConnsCollected, TypeOK
    <3>3. \A v \in Workers : pc'[v] \in Busy =>
            v = w \/ (pc[v] \in Busy /\ cur'[v] = cur[v])
      BY DEF TypeOK
    <3>4. cur'[w] = next
      BY DEF TypeOK
    <3>5. QED
      BY <3>2, <3>3, <3>4 DEF ConnsCollected
  <2>5. JoinsCounted'
    BY DEF TypeOK, JoinsCounted
  <2>6. Phases'
    BY DEF TypeOK, Phases
  <2>7. NoConnLeak'
    BY DEF TypeOK, Phases, NoConnLeak
  <2>8. QED
    BY <2>1, <2>2, <2>3, <2>4, <2>5, <2>6, <2>7 DEF IInv
<1>11. ASSUME NEW w \in Workers, RangeEnds(w)
      PROVE  IInv'
  <2> USE <1>11 DEF RangeEnds
  <2>1. TacticsOwned'
    BY DEF TypeOK, TacticsOwned
  <2>2. ConnsOwned'
    BY DEF TypeOK, TacticsOwned, ConnsOwned
  <2>3. OpenConnsHeld'
    BY DEF TypeOK, TacticsOwned, OpenConnsHeld, Phases
  <2>4. ConnsCollected'
    BY DEF TypeOK, TacticsOwned, ConnsOwned, ConnsCollected
  <2>5. JoinsCounted'
    BY DEF TypeOK, JoinsCounted
  <2>6. Phases'
    BY DEF TypeOK, Phases
  <2>7. NoConnLeak'
    BY DEF TypeOK, Phases, NoConnLeak
  <2>8. QED
    BY <2>1, <2>2, <2>3, <2>4, <2>5, <2>6, <2>7 DEF IInv
<1>12. ASSUME NEW w \in Workers, WaitReady(w)
      PROVE  IInv'
  <2> USE <1>12 DEF WaitReady
  <2>1. TacticsOwned'
    BY DEF TypeOK, TacticsOwned
  <2>2. ConnsOwned'
    BY DEF TypeOK, TacticsOwned, ConnsOwned
  <2>3. OpenConnsHeld'
    BY DEF TypeOK, TacticsOwned, OpenConnsHeld, Phases
  <2>4. ConnsCollected'
    BY DEF TypeOK, TacticsOwned, ConnsOwned, ConnsCollected
  <2>5. JoinsCounted'
    BY DEF TypeOK, JoinsCounted
  <2>6. Phases'
    BY DEF TypeOK, Phases
  <2>7. NoConnLeak'
    BY DEF TypeOK, Phases, NoConnLeak
  <2>8. QED
    BY <2>1, <2>2, <2>3, <2>4, <2>5, <2>6, <2>7 DEF IInv
<1>13. ASSUME NEW w \in Workers, TimerFires(w)
      PROVE  IInv'
  <2> USE <1>13 DEF TimerFires
  <2>1. TacticsOwned'
    BY DEF TypeOK, TacticsOwned
  <2>2. ConnsOwned'
    BY DEF TypeOK, TacticsOwned, ConnsOwned
  <2>3. OpenConnsHeld'
    BY DEF TypeOK, TacticsOwned, OpenConnsHeld, Phases
  <2>4. ConnsCollected'
    BY DEF TypeOK, TacticsOwned, ConnsOwned, ConnsCollected
  <2>5. JoinsCounted'
    BY DEF TypeOK, JoinsCounted
  <2>6. Phases'
    BY DEF TypeOK, Phases
  <2>7. NoConnLeak'
    BY DEF TypeOK, Phases, NoConnLeak
  <2>8. QED
    BY <2>1, <2>2, <2>3, <2>4, <2>5, <2>6, <2>7 DEF IInv
<1>14. ASSUME NEW w \in Workers, TimerInterrupted(w)
      PROVE  IInv'
  <2> USE <1>14 DEF TimerInterrupted
  <2>1. TacticsOwned'
    BY DEF TypeOK, TacticsOwned
  <2>2. ConnsOwned'
    BY DEF TypeOK, TacticsOwned, ConnsOwned
  <2>3. OpenConnsHeld'
    BY DEF TypeOK, TacticsOwned, OpenConnsHeld, Phases
  <2>4. ConnsCollected'
    BY DEF TypeOK, TacticsOwned, ConnsOwned, ConnsCollected
  <2>5. JoinsCounted'
    BY DEF TypeOK, JoinsCounted
  <2>6. Phases'
    BY DEF TypeOK, Phases
  <2>7. NoConnLeak'
    BY DEF TypeOK, Phases, NoConnLeak
  <2>8. QED
    BY <2>1, <2>2, <2>3, <2>4, <2>5, <2>6, <2>7 DEF IInv
<1>15. ASSUME NEW w \in Workers, OnStarting(w)
      PROVE  IInv'
  <2> USE <1>15 DEF OnStarting
  <2>1. TacticsOwned'
    BY DEF TypeOK, TacticsOwned
  <2>2. ConnsOwned'
    BY DEF TypeOK, TacticsOwned, ConnsOwned
  <2>3. OpenConnsHeld'
    BY DEF TypeOK, TacticsOwned, OpenConnsHeld, Phases
  <2>4. ConnsCollected'
    BY DEF TypeOK, TacticsOwned, ConnsOwned, ConnsCollected
  <2>5. JoinsCounted'
    BY DEF TypeOK, JoinsCounted
  <2>6. Phases'
    BY DEF TypeOK, Phases
  <2>7. NoConnLeak'
    BY DEF TypeOK, Phases, NoConnLeak
  <2>8. QED
    BY <2>1, <2>2, <2>3, <2>4, <2>5, <2>6, <2>7 DEF IInv
<1>16. ASSUME NEW w \in Workers, TCPConnectSucceeds(w)
      PROVE  IInv'
  <2> USE <1>16 DEF TCPConnectSucceeds
  <2>1. TacticsOwned'
    BY DEF TypeOK, TacticsOwned
  <2>2. ConnsOwned'
    BY DEF TypeOK, TacticsOwned, ConnsOwned
  <2>3. OpenConnsHeld'
    BY DEF TypeOK, TacticsOwned, OpenConnsHeld, Phases
  <2>4. ConnsCollected'
    BY DEF TypeOK, TacticsOwned, ConnsOwned, ConnsCollected
  <2>5. JoinsCounted'
    BY DEF TypeOK, JoinsCounted
  <2>6. Phases'
    BY DEF TypeOK, Phases
  <2>7. NoConnLeak'
    BY DEF TypeOK, Phases, NoConnLeak
  <2>8. QED
    BY <2>1, <2>2, <2>3, <2>4, <2>5, <2>6, <2>7 DEF IInv
<1>17. ASSUME NEW w \in Workers, TCPConnectFails(w)
      PROVE  IInv'
  <2> USE <1>17 DEF TCPConnectFails
  <2>1. TacticsOwned'
    BY DEF TypeOK, TacticsOwned
  <2>2. ConnsOwned'
    BY DEF TypeOK, TacticsOwned, ConnsOwned
  <2>3. OpenConnsHeld'
    BY DEF TypeOK, TacticsOwned, OpenConnsHeld, Phases
  <2>4. ConnsCollected'
    BY DEF TypeOK, TacticsOwned, ConnsOwned, ConnsCollected
  <2>5. JoinsCounted'
    BY DEF TypeOK, JoinsCounted
  <2>6. Phases'
    BY DEF TypeOK, Phases
  <2>7. NoConnLeak'
    BY DEF TypeOK, Phases, NoConnLeak
  <2>8. QED
    BY <2>1, <2>2, <2>3, <2>4, <2>5, <2>6, <2>7 DEF IInv
<1>18. ASSUME NEW w \in Workers, OnTCPConnectError(w)
      PROVE  IInv'
  <2> USE <1>18 DEF OnTCPConnectError
  <2>1. TacticsOwned'
    BY DEF TypeOK, TacticsOwned
  <2>2. ConnsOwned'
    BY DEF TypeOK, TacticsOwned, ConnsOwned
  <2>3. OpenConnsHeld'
    BY DEF TypeOK, TacticsOwned, OpenConnsHeld, Phases
  <2>4. ConnsCollected'
    BY DEF TypeOK, TacticsOwned, ConnsOwned, ConnsCollected
  <2>5. JoinsCounted'
    BY DEF TypeOK, JoinsCounted
  <2>6. Phases'
    BY DEF TypeOK, Phases
  <2>7. NoConnLeak'
    BY DEF TypeOK, Phases, NoConnLeak
  <2>8. QED
    BY <2>1, <2>2, <2>3, <2>4, <2>5, <2>6, <2>7 DEF IInv
<1>19. ASSUME NEW w \in Workers, TLSHandshakeSucceeds(w)
      PROVE  IInv'
  <2> USE <1>19 DEF TLSHandshakeSucceeds
  <2>1. TacticsOwned'
    BY DEF TypeOK, TacticsOwned
  <2>2. ConnsOwned'
    BY DEF TypeOK, TacticsOwned, ConnsOwned
  <2>3. OpenConnsHeld'
    BY DEF TypeOK, TacticsOwned, OpenConnsHeld, Phases
  <2>4. ConnsCollected'
    BY DEF TypeOK, TacticsOwned, ConnsOwned, ConnsCollected
  <2>5. JoinsCounted'
    BY DEF TypeOK, JoinsCounted
  <2>6. Phases'
    BY DEF TypeOK, Phases
  <2>7. NoConnLeak'
    BY DEF TypeOK, Phases, NoConnLeak
  <2>8. QED
    BY <2>1, <2>2, <2>3, <2>4, <2>5, <2>6, <2>7 DEF IInv
<1>20. ASSUME NEW w \in Workers, TLSHandshakeFails(w)
      PROVE  IInv'
  <2> USE <1>20 DEF TLSHandshakeFails
  <2>1. TacticsOwned'
    BY DEF TypeOK, TacticsOwned
  <2>2. ConnsOwned'
    BY DEF TypeOK, TacticsOwned, ConnsOwned
  <2>3. OpenConnsHeld'
    BY DEF TypeOK, TacticsOwned, OpenConnsHeld, Phases
  <2>4. ConnsCollected'
    BY DEF TypeOK, TacticsOwned, ConnsOwned, ConnsCollected
  <2>5. JoinsCounted'
    BY DEF TypeOK, JoinsCounted
  <2>6. Phases'
    BY DEF TypeOK, Phases
  <2>7. NoConnLeak'
    BY DEF TypeOK, Phases, NoConnLeak
  <2>8. QED
    BY <2>1, <2>2, <2>3, <2>4, <2>5, <2>6, <2>7 DEF IInv
<1>21. ASSUME NEW w \in Workers, OnTLSHandshakeError(w)
      PROVE  IInv'
  <2> USE <1>21 DEF OnTLSHandshakeError
  <2>1. TacticsOwned'
    BY DEF TypeOK, TacticsOwned
  <2>2. ConnsOwned'
    BY DEF TypeOK, TacticsOwned, ConnsOwned
  <2>3. OpenConnsHeld'
    BY DEF TypeOK, TacticsOwned, OpenConnsHeld, Phases
  <2>4. ConnsCollected'
    BY DEF TypeOK, TacticsOwned, ConnsOwned, ConnsCollected
  <2>5. JoinsCounted'
    BY DEF TypeOK, JoinsCounted
  <2>6. Phases'
    BY DEF TypeOK, Phases
  <2>7. NoConnLeak'
    BY DEF TypeOK, Phases, NoConnLeak
  <2>8. QED
    BY <2>1, <2>2, <2>3, <2>4, <2>5, <2>6, <2>7 DEF IInv
<1>22. ASSUME NEW w \in Workers, VerifySucceeds(w)
      PROVE  IInv'
  <2> USE <1>22 DEF VerifySucceeds
  <2>1. TacticsOwned'
    BY DEF TypeOK, TacticsOwned
  <2>2. ConnsOwned'
    BY DEF TypeOK, TacticsOwned, ConnsOwned
  <2>3. OpenConnsHeld'
    BY DEF TypeOK, TacticsOwned, OpenConnsHeld, Phases
  <2>4. ConnsCollected'
    BY DEF TypeOK, TacticsOwned, ConnsOwned, ConnsCollected
  <2>5. JoinsCounted'
    BY DEF TypeOK, JoinsCounted
  <2>6. Phases'
    BY DEF TypeOK, Phases
  <2>7. NoConnLeak'
    BY DEF TypeOK, Phases, NoConnLeak
  <2>8. QED
    BY <2>1, <2>2, <2>3, <2>4, <2>5, <2>6, <2>7 DEF IInv
<1>23. ASSUME NEW w \in Workers, VerifyFails(w)
      PROVE  IInv'
  <2> USE <1>23 DEF VerifyFails
  <2>1. TacticsOwned'
    BY DEF TypeOK, TacticsOwned
  <2>2. ConnsOwned'
    BY DEF TypeOK, TacticsOwned, ConnsOwned
  <2>3. OpenConnsHeld'
    BY DEF TypeOK, TacticsOwned, OpenConnsHeld, Phases
  <2>4. ConnsCollected'
    BY DEF TypeOK, TacticsOwned, ConnsOwned, ConnsCollected
  <2>5. JoinsCounted'
    BY DEF TypeOK, JoinsCounted
  <2>6. Phases'
    BY DEF TypeOK, Phases
  <2>7. NoConnLeak'
    BY DEF TypeOK, Phases, NoConnLeak
  <2>8. QED
    BY <2>1, <2>2, <2>3, <2>4, <2>5, <2>6, <2>7 DEF IInv
<1>24. ASSUME CallerCancels
      PROVE  IInv'
  BY <1>24 DEF IInv, TypeOK, TacticsOwned, ConnsOwned, OpenConnsHeld,
     ConnsCollected, JoinsCounted, Phases, NoConnLeak, CallerCancels
<1>25. ASSUME Tick
      PROVE  IInv'
  BY <1>25 DEF IInv, TypeOK, TacticsOwned, ConnsOwned, OpenConnsHeld,
     ConnsCollected, JoinsCounted, Phases, NoConnLeak, Tick
<1>26. CASE UNCHANGED vars
  BY <1>26 DEF vars, IInv, TypeOK, TacticsOwned, ConnsOwned, OpenConnsHeld,
     ConnsCollected, JoinsCounted, Phases, NoConnLeak
<1>27. QED
  BY <1>3, <1>4, <1>5, <1>6, <1>7, <1>8, <1>9, <1>10, <1>11, <1>12, <1>13,
     <1>14, <1>15, <1>16, <1>17, <1>18, <1>19, <1>20, <1>21, <1>22, <1>23,
     <1>24, <1>25, <1>26
  DEF Next, Parent, Emitter, Worker, DialTLS, Done

\* The initial states satisfy the invariant.
LEMMA InvInit == Init => IInv
<1> SUFFICES ASSUME Init PROVE IInv
  OBVIOUS
<1> USE DEF Init, Connecting, Owning, Busy, NoTactic, Tactics
<1>1. TypeOK
  BY TypeInit
<1>2. JoinsCounted
  <2>1. {w \in Workers : pc[w] = "done"} = {}
    OBVIOUS
  <2>2. QED
    BY <2>1, FS_EmptySet DEF JoinsCounted
<1>3. TacticsOwned /\ ConnsOwned /\ OpenConnsHeld /\ ConnsCollected
  BY DEF TacticsOwned, ConnsOwned, OpenConnsHeld, ConnsCollected
<1>4. Phases /\ NoConnLeak
  BY DEF Phases, NoConnLeak
<1>5. QED
  BY <1>1, <1>2, <1>3, <1>4 DEF IInv

\* The invariant holds in every reachable state.
THEOREM Invariance == Spec => []IInv
  BY InvInit, InvNext, PTL DEF Spec

-----------------------------------------------------------------------------
(* Results.                                                                *)

\* Every variable of the dialer keeps its type, whatever the number of workers.
THEOREM TypeCorrectness == Spec => []TypeOK
<1>1. IInv => TypeOK
  BY DEF IInv
<1>2. QED
  BY <1>1, Invariance, PTL

\* DialTLSContext never leaks a connection, whatever the number of workers and
\* of tactics and however their steps interleave.
THEOREM ConnsNeverLeak == Spec => []NoConnLeak
<1>1. IInv => NoConnLeak
  BY DEF IInv
<1>2. QED
  BY <1>1, Invariance, PTL

\* A step of the dialer is a step of the abstract dial or leaves it alone.
LEMMA AbstractNext ==
  IInv /\ IInv' /\ [Next]_vars => [Abstract!Next]_<<conn, retConn, retErr>>
<1> SUFFICES ASSUME IInv, IInv', [Next]_vars
             PROVE  Abstract!Next \/ UNCHANGED <<conn, retConn, retErr>>
  OBVIOUS
<1>1. /\ TypeOK /\ TacticsOwned /\ ConnsOwned /\ OpenConnsHeld
      /\ ConnsCollected /\ JoinsCounted /\ Phases /\ NoConnLeak /\ NoConnLeak'
      /\ TypeOK'
  BY DEF IInv
<1> USE DEF parentVars, emitterVars, workerVars, netVars, clockVars
<1>2. CASE BadEndpoint
  <2>1. \A t \in Tactics : conn[t] # "open"
    BY <1>1, <1>2 DEF NoConnLeak, BadEndpoint, Phases, NoTactic, Tactics
  <2>2. Abstract!ReturnError("badEndpoint")
    BY <1>1, <1>2, <2>1
    DEF Abstract!ReturnError, Abstract!Pending, BadEndpoint, Phases
  <2>3. QED
    BY <2>2 DEF Abstract!Next, Abstract!Errors
<1>3. CASE Return
  <2>1. \A w \in Workers : pc[w] = "done"
    BY <1>1, <1>3, AllDone DEF Return
  <2>2. \A t \in Tactics : conn[t] = "open" => \E j \in 1..Len(connv) : connv[j] = t
    BY <1>1, <1>3, <2>1 DEF Return, OpenConnsHeld, Owning
  <2>3. CASE connv = << >>
    <3>1. \A t \in Tactics : conn[t] # "open"
      BY <2>2, <2>3
    <3>2. PICK e \in Abstract!Errors : retErr' = e
      BY <1>3, <2>3 DEF Return, ReduceResult, Abstract!Errors
    <3>3. conn' = conn /\ retConn' = retConn
      BY <1>1, <1>3, <2>3 DEF Return, ReduceResult, TypeOK, Phases
    <3>4. Abstract!ReturnError(e)
      BY <1>1, <1>3, <3>1, <3>2, <3>3
      DEF Abstract!ReturnError, Abstract!Pending, Return, Phases
    <3>5. QED
      BY <3>4 DEF Abstract!Next
  <2>4. CASE connv # << >>
    <3>1. Len(connv) \in Nat /\ Len(connv) >= 1 /\ connv[1] \in Tactics
      BY <1>1, <2>4, NonEmptySeq DEF TypeOK
    <3>2. \A i \in 2..Len(connv) : connv[i] # connv[1] /\ conn[connv[i]] = "open"
      BY <1>1, <1>3, <3>1 DEF ConnsCollected, Return
    <3>3. conn[connv[1]] = "open"
      BY <1>1, <1>3, <3>1 DEF ConnsCollected, Return
    <3>4. \A t \in Tactics :
            (t # connv[1] /\ conn[t] = "open") <=> \E i \in 2..Len(connv) : connv[i] = t
      <4>1. \A i \in 1..Len(connv) : i = 1 \/ i \in 2..Len(connv)
        BY <3>1
      <4>2. QED
        BY <2>2, <3>2, <4>1
    <3>5. conn' = [d \in Tactics |->
                     IF d # connv[1] /\ conn[d] = "open" THEN "closed" ELSE conn[d]]
      BY <1>3, <3>4, Zenon DEF Return, ReduceResult
    <3>6. Abstract!ReturnConn(connv[1])
      BY <1>1, <1>3, <2>4, <3>3, <3>5
      DEF Abstract!ReturnConn, Abstract!Pending, Return, ReduceResult, Phases
    <3>7. QED
      BY <3>1, <3>6 DEF Abstract!Next
  <2>5. QED
    BY <2>3, <2>4
<1>4. ASSUME NEW w \in Workers, TCPConnectSucceeds(w)
      PROVE  Abstract!Next
  <2>1. cur[w] \in Tactics /\ conn[cur[w]] = "none" /\ retErr = "pending"
    BY <1>1, <1>4
    DEF TCPConnectSucceeds, TypeOK, TacticsOwned, ConnsOwned, Phases, Busy, Connecting
  <2>2. Abstract!Open(cur[w])
    BY <1>4, <2>1 DEF TCPConnectSucceeds, Abstract!Open, Abstract!Pending
  <2>3. QED
    BY <2>1, <2>2 DEF Abstract!Next
<1>5. ASSUME NEW w \in Workers, OnTLSHandshakeError(w) \/ VerifyFails(w)
      PROVE  Abstract!Next
  <2>1. cur[w] \in Tactics /\ conn[cur[w]] = "open" /\ retErr = "pending"
    BY <1>1, <1>5
    DEF OnTLSHandshakeError, VerifyFails, TypeOK, TacticsOwned, ConnsOwned,
        Phases, Busy, Owning
  <2>2. Abstract!Close(cur[w])
    BY <1>5, <2>1 DEF OnTLSHandshakeError, VerifyFails, Abstract!Close, Abstract!Pending
  <2>3. QED
    BY <2>1, <2>2 DEF Abstract!Next
<1>6. CASE Spawn \/ CloseEmitter \/ CallerCancels \/ Tick \/ UNCHANGED vars
  BY <1>6 DEF Spawn, CloseEmitter, CallerCancels, Tick, vars
<1>7. ASSUME NEW w \in Workers,
             \/ ReceiveJoin(w) \/ ReceiveError(w) \/ ReceiveConn(w) \/ Emit(w)
             \/ RangeEnds(w) \/ WaitReady(w) \/ TimerFires(w) \/ TimerInterrupted(w)
             \/ OnStarting(w) \/ TCPConnectFails(w) \/ OnTCPConnectError(w)
             \/ TLSHandshakeSucceeds(w) \/ TLSHandshakeFails(w) \/ VerifySucceeds(w)
      PROVE  UNCHANGED <<conn, retConn, retErr>>
  BY <1>7 DEF ReceiveJoin, ReceiveError, ReceiveConn, Emit, RangeEnds, WaitReady,
     TimerFires, TimerInterrupted, OnStarting, TCPConnectFails, OnTCPConnectError,
     TLSHandshakeSucceeds, TLSHandshakeFails, VerifySucceeds
<1>8. QED
  BY <1>2, <1>3, <1>4, <1>5, <1>6, <1>7
  DEF Next, Parent, Emitter, Worker, DialTLS, Done

\* The dialer implements the abstract TLSDialer: what its callers see is a dial
\* that hands over at most one open connection, and owns no other afterwards.
THEOREM Refinement == Spec => ImplementsTLSDialer
<1>1. Init => Abstract!Init
  BY DEF Init, Abstract!Init, Abstract!NoConn, NoTactic
<1>2. QED
  BY <1>1, Invariance, AbstractNext, PTL DEF Spec, ImplementsTLSDialer, Abstract!Spec

-----------------------------------------------------------------------------
(* What becomes of each tactic.                                            *)

\* A tactic that is over with an error: either it was cancelled before it was
\* started, or the handler was told how it failed, and not that it failed by
\* itself when it was interrupted.
FailureTold(t) ==
  \/ events[t] = << >> /\ cause[t] = "cancelled"
  \/ \E e \in Events \ {"starting", "success"} :
       /\ events[t] = <<"starting", e>>
       /\ cause[t] # "none"
       /\ cause[t] = "cancelled" => e \notin {"tcpError", "tlsError", "verifyError"}

\* A tactic that is over with a connection
SuccessTold(t) == events[t] = <<"starting", "success">> /\ cause[t] = "none"

\* What the handler has been told about the tactic of a worker
WorkerTold(w) ==
  /\ pc[w] \in {"waitready", "timer", "starting"} =>
       events[cur[w]] = << >> /\ cause[cur[w]] = "none"
  /\ pc[w] \in {"connect", "handshake", "verify"} =>
       events[cur[w]] = <<"starting">> /\ cause[cur[w]] = "none"
  /\ pc[w] \in {"connectError", "handshakeError"} =>
       events[cur[w]] = <<"starting">> /\ cause[cur[w]] # "none"
  /\ pc[w] = "postConn" => SuccessTold(cur[w])
  /\ pc[w] = "postError" => FailureTold(cur[w])

\* The tactics that have not been emitted, that a worker has, that were
\* collected
Told ==
  /\ \A t \in Tactics : t >= next => events[t] = << >> /\ cause[t] = "none"
  /\ \A w \in Workers : WorkerTold(w)
  /\ \A i \in 1..Len(connv) : SuccessTold(connv[i])
  /\ \A i \in 1..Len(errorv) : FailureTold(errorv[i])

\* Collected errors have left their worker
ErrorsCollected ==
  \A i \in 1..Len(errorv) :
    /\ errorv[i] < next
    /\ \A w \in Workers : pc[w] \in Busy => cur[w] # errorv[i]

BusyWorkers == {w \in Workers : pc[w] \in Busy}

\* No tactic is lost, and none is collected twice
Kept ==
  /\ \A t \in Emitted : \/ \E w \in BusyWorkers : cur[w] = t
                        \/ \E i \in 1..Len(connv) : connv[i] = t
                        \/ \E i \in 1..Len(errorv) : errorv[i] = t
  /\ Len(connv) + Len(errorv) + Cardinality(BusyWorkers) = next - 1

\* Who has left the range loop has seen the channel closed, and the workers
\* are there as long as the dial is not over
Closing ==
  /\ \A w \in Workers : pc[w] \in {"join", "done"} => closed
  /\ parent = "start" => next = 1 /\ errorv = << >> /\ ~closed /\ t0 = NoTime
  /\ parent = "returned" /\ retErr # "badEndpoint" => \A w \in Workers : pc[w] = "done"
  /\ parent = "returned" /\ retErr = "badEndpoint" => \A w \in Workers : pc[w] = "unborn"

\* Who cancelled the context
Cancelling ==
  /\ parent # "returned" /\ ctx = "dialer" => connv # << >>
  /\ \A t \in Tactics : cause[t] = "cancelled" => ctxDone

\* The zero time is not before the first tactic reached a worker, and who is
\* past the wait has waited
Clock ==
  /\ emittedAt <= now
  /\ t0 # NoTime => emittedAt # NoTime /\ t0 >= emittedAt
  /\ \A w \in Workers : pc[w] \in Busy => emittedAt # NoTime
  /\ \A w \in Workers : pc[w] \in {"timer", "starting"} => t0 # NoTime
  /\ \A w \in Workers : pc[w] = "starting" => now >= t0 + InitialDelay(cur[w])

\* The invariant on top of the one about connections
Account == /\ Told
           /\ ErrorsCollected
           /\ Kept
           /\ Closing
           /\ Cancelling
           /\ Clock
           /\ EveryTacticAccounted
           /\ BlameIsDeserved

\* A dial that has returned does nothing more: nobody is left to do it.
LEMMA ReturnedStays ==
  ASSUME IInv, parent = "returned", [Next]_vars
  PROVE  UNCHANGED vars
<1>1. \A w \in Workers : pc[w] \in {"unborn", "done"}
  BY DEF IInv, Phases
<1>2. \A w \in Workers : ~Worker(w) /\ ~Emit(w)
  BY <1>1 DEF Worker, RangeEnds, DialTLS, WaitReady, TimerFires, TimerInterrupted, OnStarting,
     TCPConnectSucceeds, TCPConnectFails, OnTCPConnectError, TLSHandshakeSucceeds,
     TLSHandshakeFails, OnTLSHandshakeError, VerifySucceeds, VerifyFails, Emit
<1>3. QED
  BY <1>2 DEF Next, Parent, BadEndpoint, Spawn, Return, ReceiveJoin, ReceiveError, ReceiveConn,
     Emitter, CloseEmitter, CallerCancels, Tick, Done

\* The delays are numbers.
LEMMA DelayIsNatural ==
  ASSUME NEW t \in Tactics
  PROVE  InitialDelay(t) \in Nat
<1>1. t - 1 \in Nat
  BY BoundsAssumption DEF Tactics
<1>2. SUFFICES ASSUME NEW idx \in Nat
               PROVE  happyEyeballsDelay(idx) \in Nat
  BY <1>1 DEF InitialDelay
<1>3. ASSUME idx <= 1
      PROVE  happyEyeballsDelay(idx) \in Nat
  BY <1>3 DEF happyEyeballsDelay
<1>4. ASSUME idx \in 2..4
      PROVE  happyEyeballsDelay(idx) \in Nat
  <2>1. 2^(2 - 1) \in Nat /\ 2^(3 - 1) \in Nat /\ 2^(4 - 1) \in Nat
    OBVIOUS
  <2>2. idx = 2 \/ idx = 3 \/ idx = 4
    BY <1>4
  <2>3. 2^(idx - 1) \in Nat
    BY <2>1, <2>2, Zenon
  <2>4. QED
    BY <1>4, <2>3 DEF happyEyeballsDelay
<1>5. ASSUME idx >= 5
      PROVE  happyEyeballsDelay(idx) \in Nat
  <2>1. 8 * (idx - 3) \in Nat
    BY <1>5
  <2>2. ~(idx <= 0) /\ idx # 1 /\ idx \notin 2..4
    BY <1>5
  <2>3. QED
    BY <2>1, <2>2 DEF happyEyeballsDelay
<1>6. QED
  BY <1>3, <1>4, <1>5

\* What the handler has been told once it is told one thing more.
LEMMA TellingMore ==
  ASSUME NEW e
  PROVE  /\ Append(<< >>, e) = <<e>>
         /\ Append(<<"starting">>, e) = <<"starting", e>>
<1>1. Append(<< >>, e) = <<e>>
  OBVIOUS
<1>2. Append(<<"starting">>, e) = <<"starting", e>>
  <2> DEFINE S == {"starting", e}
             a == <<"starting">>
             b == <<"starting", e>>
  <2>1. a \in Seq(S) /\ b \in Seq(S) /\ e \in S
    OBVIOUS
  <2>2. /\ Append(a, e) \in Seq(S)
        /\ Len(Append(a, e)) = 2
        /\ Append(a, e)[1] = "starting"
        /\ Append(a, e)[2] = e
    BY <2>1, AppendProperties
  <2>3. Len(b) = 2 /\ b[1] = "starting" /\ b[2] = e
    OBVIOUS
  <2> HIDE DEF a, b
  <2>4. \A i \in 1..2 : Append(a, e)[i] = b[i]
    BY <2>2, <2>3
  <2>5. Append(a, e) = b
    BY <2>1, <2>2, <2>3, <2>4, SeqEqual
  <2>6. QED
    BY <2>5 DEF a, b
<1>3. QED
  BY <1>1, <1>2

\* A step of a worker with a tactic concerns no other tactic.
LEMMA ToldByWorker ==
  ASSUME IInv, Told, ErrorsCollected, NEW w \in Workers, pc[w] \in Busy,
         NEW state \in Busy, pc' = [pc EXCEPT ![w] = state],
         UNCHANGED <<cur, next, connv, errorv>>,
         \A t \in Tactics \ {cur[w]} : events'[t] = events[t] /\ cause'[t] = cause[t],
         WorkerTold(w)'
  PROVE  Told'
<1> USE DEF IInv
<1>1. cur[w] \in Tactics /\ cur[w] < next /\ next \in Int
  BY DEF TacticsOwned, TypeOK, Tactics
<1>2. \A t \in Tactics : t >= next' => events'[t] = << >> /\ cause'[t] = "none"
  BY <1>1 DEF Told, Tactics
<1>3. \A v \in Workers : WorkerTold(v)'
  <2> SUFFICES ASSUME NEW v \in Workers, v # w
               PROVE  WorkerTold(v)'
    OBVIOUS
  <2>1. pc'[v] = pc[v] /\ cur'[v] = cur[v] /\ WorkerTold(v)
    BY DEF TypeOK, Told
  <2>2. CASE pc[v] \in Busy
    <3>1. cur[v] \in Tactics \ {cur[w]}
      BY <1>1, <2>2 DEF TacticsOwned
    <3>2. QED
      BY <2>1, <3>1 DEF WorkerTold, SuccessTold, FailureTold
  <2>3. CASE pc[v] \notin Busy
    BY <2>1, <2>3 DEF WorkerTold, Busy, Connecting, Owning
  <2>4. QED
    BY <2>2, <2>3
<1>4. \A i \in 1..Len(connv) : SuccessTold(connv[i])'
  <2>1. \A i \in 1..Len(connv) : connv[i] \in Tactics \ {cur[w]}
    BY SeqElement DEF TypeOK, ConnsCollected
  <2>2. QED
    BY <2>1 DEF Told, SuccessTold
<1>5. \A i \in 1..Len(errorv) : FailureTold(errorv[i])'
  <2>1. \A i \in 1..Len(errorv) : errorv[i] \in Tactics \ {cur[w]}
    BY SeqElement DEF TypeOK, ErrorsCollected
  <2>2. SUFFICES ASSUME NEW i \in 1..Len(errorv)
                 PROVE  FailureTold(errorv[i])'
    OBVIOUS
  <2>3. /\ events'[errorv[i]] = events[errorv[i]]
        /\ cause'[errorv[i]] = cause[errorv[i]]
        /\ errorv'[i] = errorv[i]
    BY <2>1
  <2>4. FailureTold(errorv[i])
    BY DEF Told
  <2>5. QED
    BY <2>3, <2>4 DEF FailureTold
<1>6. QED
  BY <1>2, <1>3, <1>4, <1>5 DEF Told, SuccessTold, FailureTold

\* What the handler has been told follows each tactic, from the emitter to a
\* worker and from the worker to the parent.
LEMMA ToldNext ==
  ASSUME IInv, Account, [Next]_vars
  PROVE  Told'
<1>1. /\ TypeOK /\ TacticsOwned /\ ConnsCollected
      /\ Told /\ ErrorsCollected /\ Cancelling
  BY DEF IInv, Account
<1> USE DEF parentVars, emitterVars, workerVars, netVars, clockVars
<1>2. ASSUME UNCHANGED <<events, cause, pc, cur, next, connv, errorv>>
      PROVE  Told'
  BY <1>1, <1>2 DEF Told, WorkerTold, SuccessTold, FailureTold
<1>3. ASSUME UNCHANGED <<events, cause>>
      PROVE  /\ \A t \in Tactics : SuccessTold(t)' <=> SuccessTold(t)
             /\ \A t \in Tactics : FailureTold(t)' <=> FailureTold(t)
  BY <1>3 DEF SuccessTold, FailureTold
<1>4. ASSUME UNCHANGED <<events, cause, connv>>
      PROVE  \A i \in 1..Len(connv') : SuccessTold(connv[i])'
  BY <1>1, <1>3, <1>4, SeqElement DEF Told, TypeOK, SuccessTold
<1>5. ASSUME UNCHANGED <<events, cause, errorv>>
      PROVE  \A i \in 1..Len(errorv') : FailureTold(errorv[i])'
  <2> SUFFICES ASSUME NEW i \in 1..Len(errorv)
               PROVE  FailureTold(errorv[i])'
    BY <1>5
  <2>1. FailureTold(errorv[i])
    BY <1>1 DEF Told
  <2>2. QED
    BY <1>5, <2>1 DEF FailureTold
<1>6. ASSUME Spawn
      PROVE  Told'
  <2>1. \A w \in Workers : WorkerTold(w)'
    BY <1>6 DEF Spawn, WorkerTold
  <2>2. QED
    BY <1>1, <1>4, <1>5, <1>6, <2>1 DEF Told, Spawn
<1>7. ASSUME NEW w \in Workers, pc'[w] \notin Busy,
             \A v \in Workers \ {w} : pc'[v] = pc[v] /\ cur'[v] = cur[v],
             UNCHANGED <<events, cause>>
      PROVE  \A v \in Workers : WorkerTold(v)'
  <2>1. WorkerTold(w)'
    BY <1>7 DEF WorkerTold, Busy, Connecting, Owning
  <2>2. ASSUME NEW v \in Workers \ {w}
        PROVE  WorkerTold(v)'
    <3>1. WorkerTold(v)
      BY <1>1 DEF Told
    <3>2. QED
      BY <1>7, <3>1 DEF WorkerTold, SuccessTold, FailureTold
  <2>3. QED
    BY <2>1, <2>2
<1>8. ASSUME NEW w \in Workers, RangeEnds(w) \/ ReceiveJoin(w)
      PROVE  Told'
  <2>1. \A v \in Workers : WorkerTold(v)'
    BY <1>1, <1>7, <1>8 DEF RangeEnds, ReceiveJoin, TypeOK, Busy, Connecting, Owning
  <2>2. QED
    BY <1>1, <1>4, <1>5, <1>8, <2>1 DEF Told, RangeEnds, ReceiveJoin
<1>9. ASSUME NEW w \in Workers, ReceiveError(w)
      PROVE  Told'
  <2>1. \A v \in Workers : WorkerTold(v)'
    BY <1>1, <1>7, <1>9 DEF ReceiveError, TypeOK, Busy, Connecting, Owning
  <2>2. cur[w] \in Tactics /\ FailureTold(cur[w])
    BY <1>1, <1>9 DEF ReceiveError, TacticsOwned, Told, WorkerTold, Busy
  <2>3. \A i \in 1..Len(errorv') : FailureTold(errorv'[i])
    BY <1>1, <1>9, <2>2 DEF ReceiveError, Told, TypeOK
  <2>4. \A i \in 1..Len(errorv') : FailureTold(errorv[i])'
    <3> SUFFICES ASSUME NEW i \in 1..Len(errorv')
                 PROVE  FailureTold(errorv[i])'
      OBVIOUS
    <3>1. FailureTold(errorv'[i])
      BY <2>3
    <3>2. QED
      BY <1>9, <3>1 DEF ReceiveError, FailureTold
  <2>5. QED
    BY <1>1, <1>4, <1>9, <2>1, <2>4 DEF Told, ReceiveError
<1>10. ASSUME NEW w \in Workers, ReceiveConn(w)
       PROVE  Told'
  <2>1. \A v \in Workers : WorkerTold(v)'
    BY <1>1, <1>7, <1>10 DEF ReceiveConn, TypeOK, Busy, Connecting, Owning
  <2>2. cur[w] \in Tactics /\ SuccessTold(cur[w])
    BY <1>1, <1>10 DEF ReceiveConn, TacticsOwned, Told, WorkerTold, Busy, Owning
  <2>3. \A i \in 1..Len(connv') : SuccessTold(connv'[i])
    BY <1>1, <1>10, <2>2 DEF ReceiveConn, Told, TypeOK
  <2>4. \A i \in 1..Len(connv') : SuccessTold(connv[i])'
    BY <1>10, <2>3 DEF ReceiveConn, SuccessTold
  <2>5. QED
    BY <1>1, <1>5, <1>10, <2>1, <2>4 DEF Told, ReceiveConn
<1>11. ASSUME NEW w \in Workers, Emit(w)
       PROVE  Told'
  <2>1. next \in Tactics /\ events[next] = << >> /\ cause[next] = "none"
    BY <1>1, <1>11 DEF Emit, Told, Tactics
  <2>2. WorkerTold(w)'
    BY <1>1, <1>11, <2>1 DEF Emit, WorkerTold, TypeOK
  <2>3. ASSUME NEW v \in Workers \ {w}
        PROVE  WorkerTold(v)'
    <3>1. WorkerTold(v) /\ pc'[v] = pc[v] /\ cur'[v] = cur[v]
      BY <1>1, <1>11 DEF Told, Emit, TypeOK
    <3>2. QED
      BY <1>11, <3>1 DEF Emit, WorkerTold, SuccessTold, FailureTold
  <2>4. \A t \in Tactics : t >= next' => events'[t] = << >> /\ cause'[t] = "none"
    BY <1>1, <1>11 DEF Emit, Told, Tactics, TypeOK
  <2>5. QED
    BY <1>4, <1>5, <1>11, <2>2, <2>3, <2>4 DEF Told, Emit
<1>12. ASSUME NEW w \in Workers, DialTLS(w)
       PROVE  Told'
  <2>1. /\ cur[w] \in Tactics
        /\ pc[w] \in Busy
        /\ WorkerTold(w)
    BY <1>1, <1>12 DEF DialTLS, WaitReady, TimerFires, TimerInterrupted, OnStarting,
       TCPConnectSucceeds, TCPConnectFails, OnTCPConnectError, TLSHandshakeSucceeds,
       TLSHandshakeFails, OnTLSHandshakeError, VerifySucceeds, VerifyFails,
       Busy, Connecting, Owning, TacticsOwned, Told
  <2>2. ASSUME WaitReady(w) \/ TimerFires(w)
        PROVE  Told'
    <3>1. PICK state \in {"starting", "timer"} : pc' = [pc EXCEPT ![w] = state]
      BY <2>2 DEF WaitReady, TimerFires
    <3>2. pc'[w] = state
      BY <1>1, <3>1 DEF TypeOK
    <3>3. WorkerTold(w)'
      BY <2>1, <2>2, <3>2 DEF WaitReady, TimerFires, WorkerTold, SuccessTold, FailureTold
    <3>4. QED
      BY <1>1, <2>1, <2>2, <3>1, <3>3, ToldByWorker DEF WaitReady, TimerFires, Busy, Connecting, Owning
  <2>3. ASSUME TCPConnectSucceeds(w) \/ TLSHandshakeSucceeds(w)
        PROVE  Told'
    <3>1. PICK state \in {"handshake", "verify"} : pc' = [pc EXCEPT ![w] = state]
      BY <2>3 DEF TCPConnectSucceeds, TLSHandshakeSucceeds
    <3>2. pc'[w] = state
      BY <1>1, <3>1 DEF TypeOK
    <3>3. WorkerTold(w)'
      BY <2>1, <2>3, <3>2 DEF TCPConnectSucceeds, TLSHandshakeSucceeds, WorkerTold, SuccessTold, FailureTold
    <3>4. QED
      BY <1>1, <2>1, <2>3, <3>1, <3>3, ToldByWorker DEF TCPConnectSucceeds, TLSHandshakeSucceeds, Busy, Connecting, Owning
  <2>4. ASSUME TimerInterrupted(w)
        PROVE  Told'
    <3>1. FailureTold(cur[w])'
      BY <1>1, <2>1, <2>4 DEF TimerInterrupted, WorkerTold, FailureTold, TypeOK
    <3>2. WorkerTold(w)'
      BY <1>1, <2>4, <3>1 DEF TimerInterrupted, WorkerTold, FailureTold, TypeOK
    <3>3. QED
      BY <1>1, <2>1, <2>4, <3>2, ToldByWorker
      DEF TimerInterrupted, TypeOK, Busy, Connecting, Owning
  <2>5. ASSUME OnStarting(w)
        PROVE  Told'
    <3>1. events'[cur[w]] = <<"starting">> /\ cause'[cur[w]] = "none"
      BY <1>1, <2>1, <2>5, TellingMore DEF OnStarting, Notify, WorkerTold, TypeOK
    <3>2. WorkerTold(w)'
      BY <1>1, <2>5, <3>1 DEF OnStarting, WorkerTold, TypeOK
    <3>3. QED
      BY <1>1, <2>1, <2>5, <3>2, ToldByWorker
      DEF OnStarting, Notify, TypeOK, Busy, Connecting, Owning
  <2>6. ASSUME TCPConnectFails(w)
        PROVE  Told'
    <3>1. events'[cur[w]] = <<"starting">> /\ cause'[cur[w]] # "none"
      BY <1>1, <2>1, <2>6 DEF TCPConnectFails, FailureCauses, WorkerTold, TypeOK
    <3>2. WorkerTold(w)'
      BY <1>1, <2>6, <3>1 DEF TCPConnectFails, WorkerTold, TypeOK
    <3>3. QED
      BY <1>1, <2>1, <2>6, <3>2, ToldByWorker
      DEF TCPConnectFails, TypeOK, Busy, Connecting, Owning
  <2>7. ASSUME TLSHandshakeFails(w)
        PROVE  Told'
    <3>1. events'[cur[w]] = <<"starting">> /\ cause'[cur[w]] # "none"
      BY <1>1, <2>1, <2>7 DEF TLSHandshakeFails, FailureCauses, WorkerTold, TypeOK
    <3>2. WorkerTold(w)'
      BY <1>1, <2>7, <3>1 DEF TLSHandshakeFails, WorkerTold, TypeOK
    <3>3. QED
      BY <1>1, <2>1, <2>7, <3>2, ToldByWorker
      DEF TLSHandshakeFails, TypeOK, Busy, Connecting, Owning
  <2>8. ASSUME OnTCPConnectError(w)
        PROVE  Told'
    <3> DEFINE e == IF ctxDone THEN "tcpInterrupt" ELSE "tcpError"
    <3>1. events'[cur[w]] = <<"starting", e>> /\ cause'[cur[w]] = cause[cur[w]]
      BY <1>1, <2>1, <2>8, TellingMore DEF OnTCPConnectError, Notify, WorkerTold, TypeOK
    <3>2. cause[cur[w]] # "none" /\ (cause[cur[w]] = "cancelled" => ctxDone)
      BY <1>1, <2>1, <2>8 DEF OnTCPConnectError, WorkerTold, Cancelling
    <3>3. e \in {"tcpInterrupt", "tcpError", "tlsInterrupt", "tlsError"} /\ (ctxDone => e = "tcpInterrupt")
      OBVIOUS
    <3> HIDE DEF e
    <3>4. FailureTold(cur[w])'
      <4>1. cur'[w] = cur[w]
        BY <2>8 DEF OnTCPConnectError
      <4>2. QED
        BY <3>1, <3>2, <3>3, <4>1 DEF FailureTold, Events
    <3>5. WorkerTold(w)'
      BY <1>1, <2>8, <3>4 DEF OnTCPConnectError, WorkerTold, FailureTold, TypeOK
    <3>6. QED
      BY <1>1, <2>1, <2>8, <3>5, ToldByWorker
      DEF OnTCPConnectError, Notify, TypeOK, Busy, Connecting, Owning
  <2>9. ASSUME OnTLSHandshakeError(w)
        PROVE  Told'
    <3> DEFINE e == IF ctxDone THEN "tlsInterrupt" ELSE "tlsError"
    <3>1. events'[cur[w]] = <<"starting", e>> /\ cause'[cur[w]] = cause[cur[w]]
      BY <1>1, <2>1, <2>9, TellingMore DEF OnTLSHandshakeError, Notify, WorkerTold, TypeOK
    <3>2. cause[cur[w]] # "none" /\ (cause[cur[w]] = "cancelled" => ctxDone)
      BY <1>1, <2>1, <2>9 DEF OnTLSHandshakeError, WorkerTold, Cancelling
    <3>3. e \in {"tcpInterrupt", "tcpError", "tlsInterrupt", "tlsError"} /\ (ctxDone => e = "tlsInterrupt")
      OBVIOUS
    <3> HIDE DEF e
    <3>4. FailureTold(cur[w])'
      <4>1. cur'[w] = cur[w]
        BY <2>9 DEF OnTLSHandshakeError
      <4>2. QED
        BY <3>1, <3>2, <3>3, <4>1 DEF FailureTold, Events
    <3>5. WorkerTold(w)'
      BY <1>1, <2>9, <3>4 DEF OnTLSHandshakeError, WorkerTold, FailureTold, TypeOK
    <3>6. QED
      BY <1>1, <2>1, <2>9, <3>5, ToldByWorker
      DEF OnTLSHandshakeError, Notify, TypeOK, Busy, Connecting, Owning
  <2>10. ASSUME VerifySucceeds(w)
         PROVE  Told'
    <3>1. events'[cur[w]] = <<"starting", "success">> /\ cause'[cur[w]] = "none"
      BY <1>1, <2>1, <2>10, TellingMore DEF VerifySucceeds, Notify, WorkerTold, TypeOK
    <3>2. WorkerTold(w)'
      BY <1>1, <2>10, <3>1 DEF VerifySucceeds, WorkerTold, SuccessTold, TypeOK
    <3>3. QED
      BY <1>1, <2>1, <2>10, <3>2, ToldByWorker
      DEF VerifySucceeds, Notify, TypeOK, Busy, Connecting, Owning
  <2>11. ASSUME VerifyFails(w)
         PROVE  Told'
    <3>1. events'[cur[w]] = <<"starting", "verifyError">> /\ cause'[cur[w]] = "network"
      BY <1>1, <2>1, <2>11, TellingMore DEF VerifyFails, Notify, WorkerTold, TypeOK
    <3>2. FailureTold(cur[w])'
      <4>1. cur'[w] = cur[w]
        BY <2>11 DEF VerifyFails
      <4>2. QED
        BY <3>1, <4>1 DEF FailureTold, Events
    <3>3. WorkerTold(w)'
      BY <1>1, <2>11, <3>2 DEF VerifyFails, WorkerTold, FailureTold, TypeOK
    <3>4. QED
      BY <1>1, <2>1, <2>11, <3>3, ToldByWorker
      DEF VerifyFails, Notify, TypeOK, Busy, Connecting, Owning
  <2>12. QED
    BY <1>12, <2>2, <2>3, <2>4, <2>5, <2>6, <2>7, <2>8, <2>9, <2>10, <2>11 DEF DialTLS
<1>13. CASE \/ BadEndpoint \/ Return \/ CloseEmitter \/ CallerCancels \/ Tick
            \/ UNCHANGED vars
  BY <1>2, <1>13 DEF BadEndpoint, Return, CloseEmitter, CallerCancels, Tick, vars
<1>14. QED
  BY <1>6, <1>8, <1>9, <1>10, <1>11, <1>12, <1>13
  DEF Next, Parent, Emitter, Worker, Done

\* A collected error has left its worker for good.
LEMMA ErrorsCollectedNext ==
  ASSUME IInv, Account, [Next]_vars
  PROVE  ErrorsCollected'
<1>1. TypeOK /\ TacticsOwned /\ ErrorsCollected
  BY DEF IInv, Account
<1>2. \A i \in 1..Len(errorv) : errorv[i] \in Tactics /\ errorv[i] < next
  BY <1>1, SeqElement DEF TypeOK, ErrorsCollected
<1> USE DEF parentVars, emitterVars, workerVars, netVars, clockVars
<1>3. ASSUME UNCHANGED <<cur, next, errorv>>,
             \A v \in Workers : pc'[v] \in Busy => pc[v] \in Busy
      PROVE  ErrorsCollected'
  BY <1>1, <1>3 DEF ErrorsCollected
<1>4. ASSUME Spawn
      PROVE  ErrorsCollected'
  BY <1>3, <1>4 DEF Spawn, Busy, Connecting, Owning
<1>5. ASSUME NEW w \in Workers, RangeEnds(w) \/ ReceiveJoin(w) \/ DialTLS(w)
      PROVE  ErrorsCollected'
  <2>1. \A v \in Workers : pc'[v] \in Busy => pc[v] \in Busy
    BY <1>1, <1>5 DEF RangeEnds, ReceiveJoin, DialTLS, WaitReady, TimerFires, TimerInterrupted,
       OnStarting, TCPConnectSucceeds, TCPConnectFails, OnTCPConnectError,
       TLSHandshakeSucceeds, TLSHandshakeFails, OnTLSHandshakeError, VerifySucceeds,
       VerifyFails, Busy, Connecting, Owning, TypeOK
  <2>2. UNCHANGED <<cur, next, errorv>>
    BY <1>5 DEF RangeEnds, ReceiveJoin, DialTLS, WaitReady, TimerFires, TimerInterrupted,
       OnStarting, TCPConnectSucceeds, TCPConnectFails, OnTCPConnectError,
       TLSHandshakeSucceeds, TLSHandshakeFails, OnTLSHandshakeError, VerifySucceeds, VerifyFails
  <2>3. QED
    BY <1>3, <2>1, <2>2
<1>6. ASSUME NEW w \in Workers, ReceiveConn(w)
      PROVE  ErrorsCollected'
  BY <1>1, <1>6 DEF ReceiveConn, ErrorsCollected, TypeOK, Busy, Connecting, Owning
<1>7. ASSUME NEW w \in Workers, ReceiveError(w)
      PROVE  ErrorsCollected'
  <2>1. cur[w] \in Tactics /\ cur[w] < next /\ pc[w] \in Busy
    BY <1>1, <1>7 DEF ReceiveError, TacticsOwned, Busy
  <2>2. /\ Len(errorv') = Len(errorv) + 1 /\ Len(errorv) \in Nat
        /\ errorv'[Len(errorv) + 1] = cur[w]
        /\ \A i \in 1..Len(errorv) : errorv'[i] = errorv[i]
    BY <1>1, <1>7, <2>1 DEF ReceiveError, TypeOK
  <2>3. \A v \in Workers : pc'[v] \in Busy => v # w /\ pc[v] \in Busy /\ cur'[v] = cur[v]
    BY <1>1, <1>7 DEF ReceiveError, TypeOK, Busy, Connecting, Owning
  <2>4. SUFFICES ASSUME NEW i \in 1..Len(errorv')
                 PROVE  /\ errorv'[i] < next
                        /\ \A v \in Workers : pc'[v] \in Busy => cur'[v] # errorv'[i]
    BY <1>7 DEF ErrorsCollected, ReceiveError
  <2>5. CASE i = Len(errorv) + 1
    BY <1>1, <2>1, <2>2, <2>3, <2>5 DEF TacticsOwned
  <2>6. CASE i \in 1..Len(errorv)
    BY <1>1, <2>2, <2>3, <2>6 DEF ErrorsCollected
  <2>7. QED
    BY <2>2, <2>5, <2>6
<1>8. ASSUME NEW w \in Workers, Emit(w)
      PROVE  ErrorsCollected'
  <2>1. next \in Int /\ next' = next + 1 /\ errorv' = errorv
    BY <1>1, <1>8 DEF Emit, TypeOK
  <2>2. \A v \in Workers : v # w => pc'[v] = pc[v] /\ cur'[v] = cur[v]
    BY <1>1, <1>8 DEF Emit, TypeOK
  <2>3. cur'[w] = next
    BY <1>1, <1>8 DEF Emit, TypeOK
  <2>4. SUFFICES ASSUME NEW i \in 1..Len(errorv)
                 PROVE  /\ errorv[i] < next + 1
                        /\ \A v \in Workers : pc'[v] \in Busy => cur'[v] # errorv[i]
    BY <2>1 DEF ErrorsCollected
  <2>5. errorv[i] \in Int /\ errorv[i] < next
    BY <1>2 DEF Tactics
  <2>6. QED
    BY <1>1, <2>1, <2>2, <2>3, <2>5 DEF ErrorsCollected
<1>9. CASE \/ BadEndpoint \/ Return \/ CloseEmitter \/ CallerCancels \/ Tick
           \/ UNCHANGED vars
  BY <1>3, <1>9 DEF BadEndpoint, Return, CloseEmitter, CallerCancels, Tick, vars
<1>10. QED
  BY <1>4, <1>5, <1>6, <1>7, <1>8, <1>9
  DEF Next, Parent, Emitter, Worker, Done

\* The workers that have a tactic are finitely many.
LEMMA BusyFinite ==
  IsFiniteSet(BusyWorkers) /\ Cardinality(BusyWorkers) \in Nat
<1>1. BusyWorkers \subseteq Workers
  BY DEF BusyWorkers
<1>2. IsFiniteSet(BusyWorkers)
  BY <1>1, WorkersAssumption, FS_Subset
<1>3. QED
  BY <1>2, FS_CardinalityType

\* No tactic is lost on its way from the emitter to the parent.
LEMMA KeptNext ==
  ASSUME IInv, Account, [Next]_vars
  PROVE  Kept'
<1>1. /\ TypeOK /\ TypeOK' /\ TacticsOwned /\ ConnsCollected /\ ErrorsCollected /\ Kept
      /\ Phases
  BY InvNext DEF IInv, Account
<1>2. /\ next \in Nat /\ Len(connv) \in Nat /\ Len(errorv) \in Nat
      /\ IsFiniteSet(BusyWorkers) /\ Cardinality(BusyWorkers) \in Nat
  <2>1. next \in Nat /\ Len(connv) \in Nat /\ Len(errorv) \in Nat
    BY <1>1, BoundsAssumption DEF TypeOK
  <2>2. QED
    BY <2>1, BusyFinite
<1> USE DEF parentVars, emitterVars, workerVars, netVars, clockVars
<1>3. ASSUME UNCHANGED <<cur, next, connv, errorv>>,
             \A v \in Workers : pc'[v] \in Busy <=> pc[v] \in Busy
      PROVE  Kept'
  <2>1. BusyWorkers' = BusyWorkers
    BY <1>3 DEF BusyWorkers
  <2>2. QED
    BY <1>1, <1>3, <2>1 DEF Kept, Emitted
<1>4. ASSUME Spawn
      PROVE  Kept'
  BY <1>1, <1>3, <1>4 DEF Spawn, Phases, Busy, Connecting, Owning
<1>5. ASSUME NEW w \in Workers, RangeEnds(w) \/ ReceiveJoin(w) \/ DialTLS(w)
      PROVE  Kept'
  <2>1. \A v \in Workers : pc'[v] \in Busy <=> pc[v] \in Busy
    BY <1>1, <1>5 DEF RangeEnds, ReceiveJoin, DialTLS, WaitReady, TimerFires, TimerInterrupted,
       OnStarting, TCPConnectSucceeds, TCPConnectFails, OnTCPConnectError,
       TLSHandshakeSucceeds, TLSHandshakeFails, OnTLSHandshakeError, VerifySucceeds,
       VerifyFails, Busy, Connecting, Owning, TypeOK
  <2>2. UNCHANGED <<cur, next, connv, errorv>>
    BY <1>5 DEF RangeEnds, ReceiveJoin, DialTLS, WaitReady, TimerFires, TimerInterrupted,
       OnStarting, TCPConnectSucceeds, TCPConnectFails, OnTCPConnectError,
       TLSHandshakeSucceeds, TLSHandshakeFails, OnTLSHandshakeError, VerifySucceeds, VerifyFails
  <2>3. QED
    BY <1>3, <2>1, <2>2
<1>6. ASSUME NEW w \in Workers, ReceiveConn(w) \/ ReceiveError(w)
      PROVE  Kept'
  <2>1. w \in BusyWorkers /\ cur[w] \in Tactics
    BY <1>1, <1>6 DEF ReceiveConn, ReceiveError, BusyWorkers, TacticsOwned, Busy, Owning
  <2>2. BusyWorkers' = BusyWorkers \ {w}
    BY <1>1, <1>6 DEF ReceiveConn, ReceiveError, BusyWorkers, TypeOK, Busy, Connecting, Owning
  <2>3. Cardinality(BusyWorkers') = Cardinality(BusyWorkers) - 1
    BY <1>2, <2>1, <2>2, FS_RemoveElement
  <2>4. \A v \in BusyWorkers' : cur'[v] = cur[v]
    BY <1>1, <1>6, <2>2 DEF ReceiveConn, ReceiveError, TypeOK, BusyWorkers
  <2>5. next' = next
    BY <1>6 DEF ReceiveConn, ReceiveError
  <2>6. \/ connv' = Append(connv, cur[w]) /\ errorv' = errorv
        \/ errorv' = Append(errorv, cur[w]) /\ connv' = connv
    BY <1>6 DEF ReceiveConn, ReceiveError
  <2>7. ASSUME NEW s \in Seq(Tactics)
        PROVE  /\ Len(Append(s, cur[w])) = Len(s) + 1 /\ Len(s) \in Nat
               /\ \A i \in 1..Len(s) : i \in 1..Len(Append(s, cur[w])) /\ Append(s, cur[w])[i] = s[i]
               /\ \E i \in 1..Len(Append(s, cur[w])) : Append(s, cur[w])[i] = cur[w]
    <3>1. /\ Len(Append(s, cur[w])) = Len(s) + 1 /\ Len(s) \in Nat
          /\ \A i \in 1..Len(s) : Append(s, cur[w])[i] = s[i]
          /\ Append(s, cur[w])[Len(s) + 1] = cur[w]
      BY <2>1
    <3>2. QED
      BY <3>1
  <2>8. /\ Len(connv') \in Nat /\ Len(errorv') \in Nat
        /\ Len(connv') + Len(errorv') = Len(connv) + Len(errorv) + 1
        /\ \/ \E i \in 1..Len(connv') : connv'[i] = cur[w]
           \/ \E i \in 1..Len(errorv') : errorv'[i] = cur[w]
        /\ \A i \in 1..Len(connv) : i \in 1..Len(connv') /\ connv'[i] = connv[i]
        /\ \A i \in 1..Len(errorv) : i \in 1..Len(errorv') /\ errorv'[i] = errorv[i]
    <3>1. connv \in Seq(Tactics) /\ errorv \in Seq(Tactics)
      BY <1>1 DEF TypeOK
    <3>2. CASE connv' = Append(connv, cur[w]) /\ errorv' = errorv
      BY <1>2, <2>7, <3>1, <3>2
    <3>3. CASE errorv' = Append(errorv, cur[w]) /\ connv' = connv
      BY <1>2, <2>7, <3>1, <3>3
    <3>4. QED
      BY <2>6, <3>2, <3>3
  <2>9. ASSUME NEW t \in Emitted
        PROVE  \/ \E v \in BusyWorkers' : cur'[v] = t
               \/ \E i \in 1..Len(connv') : connv'[i] = t
               \/ \E i \in 1..Len(errorv') : errorv'[i] = t
    <3>1. CASE t = cur[w]
      BY <2>8, <3>1
    <3>2. CASE \E v \in BusyWorkers \ {w} : cur[v] = t
      BY <2>2, <2>4, <3>2
    <3>3. CASE \/ \E i \in 1..Len(connv) : connv[i] = t
               \/ \E i \in 1..Len(errorv) : errorv[i] = t
      BY <2>8, <3>3
    <3>4. QED
      BY <1>1, <3>1, <3>2, <3>3 DEF Kept
  <2>10. Len(connv') + Len(errorv') + Cardinality(BusyWorkers') = next' - 1
    BY <1>1, <1>2, <2>3, <2>5, <2>8 DEF Kept
  <2>11. QED
    BY <2>5, <2>9, <2>10 DEF Kept, Emitted
<1>7. ASSUME NEW w \in Workers, Emit(w)
      PROVE  Kept'
  <2>1. w \notin BusyWorkers /\ next' = next + 1 /\ UNCHANGED <<connv, errorv>>
    BY <1>7 DEF Emit, BusyWorkers, Busy, Connecting, Owning
  <2>2. BusyWorkers' = BusyWorkers \cup {w}
    BY <1>1, <1>7 DEF Emit, BusyWorkers, TypeOK, Busy, Connecting, Owning
  <2>3. Cardinality(BusyWorkers') = Cardinality(BusyWorkers) + 1
    BY <1>2, <2>1, <2>2, FS_AddElement
  <2>4. cur'[w] = next /\ \A v \in BusyWorkers : cur'[v] = cur[v]
    BY <1>1, <1>7, <2>1 DEF Emit, TypeOK, BusyWorkers
  <2>5. ASSUME NEW t \in Emitted'
        PROVE  \/ \E v \in BusyWorkers' : cur'[v] = t
               \/ \E i \in 1..Len(connv') : connv'[i] = t
               \/ \E i \in 1..Len(errorv') : errorv'[i] = t
    <3>1. t \in Emitted \/ t = next
      BY <1>2, <2>1 DEF Emitted
    <3>2. CASE t = next
      BY <2>2, <2>4, <3>2
    <3>3. CASE t \in Emitted
      BY <1>1, <2>1, <2>2, <2>4, <3>3 DEF Kept
    <3>4. QED
      BY <3>1, <3>2, <3>3
  <2>6. Len(connv') + Len(errorv') + Cardinality(BusyWorkers') = next' - 1
    BY <1>1, <1>2, <2>1, <2>3 DEF Kept
  <2>7. QED
    BY <2>5, <2>6 DEF Kept
<1>8. CASE \/ BadEndpoint \/ Return \/ CloseEmitter \/ CallerCancels \/ Tick
           \/ UNCHANGED vars
  BY <1>3, <1>8 DEF BadEndpoint, Return, CloseEmitter, CallerCancels, Tick, vars
<1>9. QED
  BY <1>4, <1>5, <1>6, <1>7, <1>8
  DEF Next, Parent, Emitter, Worker, Done

\* The channel is closed before anyone joins, and the parent returns last.
LEMMA ClosingNext ==
  ASSUME IInv, Account, [Next]_vars
  PROVE  Closing'
<1>1. TypeOK /\ JoinsCounted /\ Phases /\ Closing
  BY DEF IInv, Account
<1> USE DEF parentVars, emitterVars, workerVars, netVars, clockVars
<1>2. CASE parent = "returned"
  BY <1>1, <1>2, ReturnedStays DEF vars, Closing
<1>3. CASE parent = "start"
  <2>1. \A w \in Workers : ~Worker(w) /\ ~Emit(w)
    BY <1>1, <1>3 DEF Phases, Worker, RangeEnds, DialTLS, WaitReady, TimerFires,
       TimerInterrupted, OnStarting, TCPConnectSucceeds, TCPConnectFails,
       OnTCPConnectError, TLSHandshakeSucceeds, TLSHandshakeFails, OnTLSHandshakeError,
       VerifySucceeds, VerifyFails, Emit
  <2>2. CASE BadEndpoint
    BY <1>1, <1>3, <2>2 DEF BadEndpoint, Closing, Phases
  <2>3. CASE Spawn
    BY <1>1, <1>3, <2>3 DEF Spawn, Closing
  <2>4. CASE CallerCancels \/ UNCHANGED vars
    BY <1>1, <1>3, <2>4 DEF CallerCancels, vars, Closing
  <2>5. QED
    BY <1>3, <2>1, <2>2, <2>3, <2>4
    DEF Next, Parent, Return, ReceiveJoin, ReceiveError, ReceiveConn, Emitter, CloseEmitter,
        Tick, Done
<1>4. CASE parent = "collect"
  <2>1. CASE Return
    <3>1. \A w \in Workers : pc[w] = "done"
      BY <1>1, <2>1, AllDone DEF Return
    <3>2. QED
      BY <1>1, <2>1, <3>1 DEF Return, ReduceResult, Closing
  <2>2. ASSUME parent' = "collect", closed => closed',
               \A w \in Workers : pc'[w] \in {"join", "done"} =>
                                    pc[w] \in {"join", "done"} \/ closed
        PROVE  Closing'
    BY <1>1, <2>2 DEF Closing
  <2>3. CASE CloseEmitter \/ CallerCancels \/ Tick \/ UNCHANGED vars
    BY <1>4, <2>2, <2>3 DEF CloseEmitter, CallerCancels, Tick, vars
  <2>4. ASSUME NEW w \in Workers,
               \/ ReceiveJoin(w) \/ ReceiveError(w) \/ ReceiveConn(w) \/ Emit(w)
               \/ RangeEnds(w)
        PROVE  Closing'
    BY <1>1, <1>4, <2>2, <2>4
    DEF ReceiveJoin, ReceiveError, ReceiveConn, Emit, RangeEnds, TypeOK
  <2>5. ASSUME NEW w \in Workers, DialTLS(w)
        PROVE  Closing'
    BY <1>1, <1>4, <2>2, <2>5
    DEF DialTLS, WaitReady, TimerFires, TimerInterrupted, OnStarting, TCPConnectSucceeds,
        TCPConnectFails, OnTCPConnectError, TLSHandshakeSucceeds, TLSHandshakeFails,
        OnTLSHandshakeError, VerifySucceeds, VerifyFails, TypeOK
  <2>6. QED
    BY <1>4, <2>1, <2>3, <2>4, <2>5
    DEF Next, Parent, BadEndpoint, Spawn, Emitter, Worker, Done
<1>5. QED
  BY <1>1, <1>2, <1>3, <1>4 DEF TypeOK, ParentStates

\* What is appended is there.
LEMMA AppendIsNotEmpty ==
  ASSUME NEW S, NEW s \in Seq(S), NEW x \in S
  PROVE  Append(s, x) # << >>
<1>1. Append(s, x) \in Seq(S) /\ Len(Append(s, x)) = Len(s) + 1 /\ Len(s) \in Nat
  BY AppendProperties, LenProperties
<1>2. QED
  BY <1>1, EmptySeq

\* The dialer cancels when it has a connection, and only a cancelled context
\* interrupts.
LEMMA CancellingNext ==
  ASSUME IInv, Account, [Next]_vars
  PROVE  Cancelling'
<1>1. TypeOK /\ TacticsOwned /\ Phases /\ Cancelling
  BY DEF IInv, Account
<1> USE DEF parentVars, emitterVars, workerVars, netVars, clockVars
<1>2. ASSUME UNCHANGED <<ctx, cause, connv>>, parent = "returned" => parent' = "returned"
      PROVE  Cancelling'
  BY <1>1, <1>2 DEF Cancelling, ctxDone
<1>3. ASSUME Return
      PROVE  Cancelling'
  BY <1>1, <1>3 DEF Return, Cancelling, Cancelled, ctxDone
<1>4. ASSUME NEW w \in Workers, ReceiveConn(w)
      PROVE  Cancelling'
  <2>1. cur[w] \in Tactics
    BY <1>1, <1>4 DEF ReceiveConn, TacticsOwned, Busy, Owning
  <2>2. connv' # << >>
    <3>1. connv \in Seq(Tactics) /\ connv' = Append(connv, cur[w])
      BY <1>1, <1>4 DEF ReceiveConn, TypeOK
    <3>2. QED
      BY <2>1, <3>1, AppendIsNotEmpty
  <2>3. QED
    BY <1>1, <1>4, <2>2 DEF ReceiveConn, Cancelling, Cancelled, ctxDone
<1>5. ASSUME CallerCancels
      PROVE  Cancelling'
  BY <1>1, <1>5 DEF CallerCancels, Cancelling, ctxDone
<1>6. ASSUME NEW w \in Workers,
             TimerInterrupted(w) \/ TCPConnectFails(w) \/ TLSHandshakeFails(w) \/ VerifyFails(w)
      PROVE  Cancelling'
  <2>1. UNCHANGED <<ctx, connv, parent>>
    BY <1>6 DEF TimerInterrupted, TCPConnectFails, TLSHandshakeFails, VerifyFails
  <2>2. PICK c \in Causes : /\ cause' = [cause EXCEPT ![cur[w]] = c]
                            /\ c = "cancelled" => ctxDone
    BY <1>6 DEF TimerInterrupted, TCPConnectFails, TLSHandshakeFails, VerifyFails,
                FailureCauses, Causes
  <2>3. \A t \in Tactics : cause'[t] = cause[t] \/ cause'[t] = c
    BY <1>1, <2>2 DEF TypeOK
  <2>4. QED
    BY <1>1, <2>1, <2>2, <2>3 DEF Cancelling, ctxDone
<1>7. CASE BadEndpoint \/ Spawn \/ CloseEmitter \/ Tick \/ UNCHANGED vars
  BY <1>2, <1>7 DEF BadEndpoint, Spawn, CloseEmitter, Tick, vars
<1>8. ASSUME NEW w \in Workers,
             \/ ReceiveJoin(w) \/ ReceiveError(w) \/ Emit(w) \/ RangeEnds(w)
             \/ WaitReady(w) \/ TimerFires(w) \/ OnStarting(w) \/ TCPConnectSucceeds(w)
             \/ OnTCPConnectError(w) \/ TLSHandshakeSucceeds(w) \/ OnTLSHandshakeError(w)
             \/ VerifySucceeds(w)
      PROVE  Cancelling'
  BY <1>2, <1>8 DEF ReceiveJoin, ReceiveError, Emit, RangeEnds, WaitReady, TimerFires,
     OnStarting, TCPConnectSucceeds, OnTCPConnectError, TLSHandshakeSucceeds,
     OnTLSHandshakeError, VerifySucceeds
<1>9. QED
  BY <1>3, <1>4, <1>5, <1>6, <1>7, <1>8
  DEF Next, Parent, Emitter, Worker, DialTLS, Done

\* The zero time is taken after the first tactic is there, and a tactic is
\* started after its wait.
LEMMA ClockNext ==
  ASSUME IInv, Account, [Next]_vars
  PROVE  Clock'
<1>1. TypeOK /\ TypeOK' /\ TacticsOwned /\ Clock
  BY InvNext DEF IInv, Account
<1> USE DEF parentVars, emitterVars, workerVars, netVars, clockVars
<1>2. /\ now \in Nat /\ t0 \in Nat \cup {-1} /\ emittedAt \in Nat \cup {-1}
  BY <1>1 DEF TypeOK, NoTime
<1>3. ASSUME UNCHANGED <<now, t0, emittedAt>>,
             \A v \in Workers : /\ pc'[v] \in Busy => pc[v] \in Busy
                                /\ pc'[v] \in {"timer", "starting"} =>
                                     pc'[v] = pc[v] /\ cur'[v] = cur[v]
      PROVE  Clock'
  BY <1>1, <1>3 DEF Clock, InitialDelay, happyEyeballsDelay
<1>4. CASE \/ BadEndpoint \/ Return \/ CloseEmitter \/ CallerCancels \/ UNCHANGED vars
  BY <1>3, <1>4 DEF BadEndpoint, Return, CloseEmitter, CallerCancels, vars
<1>5. CASE Spawn
  BY <1>3, <1>5 DEF Spawn, Busy, Connecting, Owning
<1>6. ASSUME NEW w \in Workers,
             \/ ReceiveJoin(w) \/ ReceiveError(w) \/ ReceiveConn(w) \/ RangeEnds(w)
      PROVE  Clock'
  BY <1>1, <1>3, <1>6 DEF ReceiveJoin, ReceiveError, ReceiveConn, RangeEnds, TypeOK,
     Busy, Connecting, Owning
<1>7. ASSUME NEW w \in Workers,
             \/ TimerInterrupted(w) \/ OnStarting(w) \/ TCPConnectSucceeds(w)
             \/ TCPConnectFails(w) \/ OnTCPConnectError(w) \/ TLSHandshakeSucceeds(w)
             \/ TLSHandshakeFails(w) \/ OnTLSHandshakeError(w) \/ VerifySucceeds(w)
             \/ VerifyFails(w)
      PROVE  Clock'
  BY <1>1, <1>3, <1>7 DEF TimerInterrupted, OnStarting, TCPConnectSucceeds,
     TCPConnectFails, OnTCPConnectError, TLSHandshakeSucceeds, TLSHandshakeFails,
     OnTLSHandshakeError, VerifySucceeds, VerifyFails, TypeOK, Busy, Connecting, Owning
<1>8. ASSUME Tick
      PROVE  Clock'
  <2>1. now' = now + 1 /\ UNCHANGED <<t0, emittedAt, pc, cur>>
    BY <1>8 DEF Tick
  <2>2. \A w \in Workers : pc[w] = "starting" =>
          InitialDelay(cur[w]) \in Nat /\ t0 \in Nat /\ now >= t0 + InitialDelay(cur[w])
    BY <1>1, <1>2, DelayIsNatural DEF Clock, TacticsOwned, Busy, Connecting, NoTime
  <2>3. \A w \in Workers : pc[w] = "starting" => now + 1 >= t0 + InitialDelay(cur[w])
    BY <1>2, <2>2
  <2>4. emittedAt <= now + 1
    BY <1>1, <1>2 DEF Clock
  <2>5. QED
    BY <1>1, <2>1, <2>3, <2>4 DEF Clock, InitialDelay, happyEyeballsDelay
<1>9. ASSUME NEW w \in Workers, Emit(w)
      PROVE  Clock'
  <2>1. /\ UNCHANGED <<now, t0>>
        /\ emittedAt' = IF emittedAt = NoTime THEN now ELSE emittedAt
    BY <1>9 DEF Emit
  <2>2. emittedAt' # NoTime /\ emittedAt' <= now
    BY <1>1, <1>2, <2>1 DEF Clock, NoTime
  <2>3. t0 # NoTime => emittedAt' = emittedAt
    BY <1>1, <2>1 DEF Clock
  <2>4. \A v \in Workers : pc'[v] \in {"timer", "starting"} =>
                             pc'[v] = pc[v] /\ cur'[v] = cur[v]
    BY <1>1, <1>9 DEF Emit, TypeOK
  <2>5. QED
    BY <1>1, <2>1, <2>2, <2>3, <2>4 DEF Clock, InitialDelay, happyEyeballsDelay
<1>10. ASSUME NEW w \in Workers, TimerFires(w)
       PROVE  Clock'
  <2>1. /\ UNCHANGED <<now, t0, emittedAt, cur>>
        /\ now >= t0 + InitialDelay(cur[w])
        /\ pc[w] = "timer"
    BY <1>10 DEF TimerFires
  <2>2. \A v \in Workers : v # w => pc'[v] = pc[v]
    BY <1>1, <1>10 DEF TimerFires, TypeOK
  <2>3. QED
    BY <1>1, <2>1, <2>2 DEF Clock, InitialDelay, happyEyeballsDelay, Busy, Connecting
<1>11. ASSUME NEW w \in Workers, WaitReady(w)
       PROVE  Clock'
  <2>1. /\ UNCHANGED <<now, emittedAt, cur>>
        /\ t0' = ZeroTimeGet
        /\ pc[w] = "waitready"
        /\ \A v \in Workers : v # w => pc'[v] = pc[v]
        /\ pc'[w] \in {"timer", "starting"}
        /\ pc'[w] = "starting" => t0' + InitialDelay(cur[w]) - now <= 0
    BY <1>1, <1>11 DEF WaitReady, TypeOK
  <2>2. pc[w] \in Busy /\ cur[w] \in Tactics
    BY <1>1, <2>1 DEF TacticsOwned, Busy, Connecting
  <2>3. emittedAt # NoTime /\ emittedAt <= now
    BY <1>1, <2>2 DEF Clock
  <2>4. t0' \in Nat /\ t0' # NoTime /\ t0' >= emittedAt /\ (t0 # NoTime => t0' = t0)
    BY <1>1, <1>2, <2>1, <2>3 DEF Clock, ZeroTimeGet, NoTime
  <2>5. InitialDelay(cur[w]) \in Nat
    BY <2>2, DelayIsNatural
  <2>6. pc'[w] = "starting" => now >= t0' + InitialDelay(cur[w])
    BY <1>2, <2>1, <2>4, <2>5
  <2>7. QED
    BY <1>1, <2>1, <2>2, <2>3, <2>4, <2>6
    DEF Clock, InitialDelay, happyEyeballsDelay
<1>12. QED
  BY <1>4, <1>5, <1>6, <1>7, <1>8, <1>9, <1>10, <1>11
  DEF Next, Parent, Emitter, Worker, DialTLS, Done

\* Every emitted tactic is known: nothing is left out of the account.
LEMMA Accounted ==
  ASSUME TypeOK, Told, Kept, NEW t \in Tactics
  PROVE  \/ t >= next /\ events[t] = << >> /\ cause[t] = "none"
         \/ \E w \in BusyWorkers : cur[w] = t
         \/ SuccessTold(t)
         \/ FailureTold(t)
<1>1. t >= next \/ t \in Emitted
  BY BoundsAssumption DEF TypeOK, Tactics, Emitted
<1>2. CASE t >= next
  BY <1>2 DEF Told
<1>3. CASE t \in Emitted
  BY <1>3 DEF Kept, Told
<1>4. QED
  BY <1>1, <1>2, <1>3

\* What an interrupted attempt is told.
LEMMA InterruptedTold ==
  ASSUME TypeOK, Told, Kept
  PROVE  InterruptIsNotFailure
<1> DEFINE Blame == {"tcpError", "tlsError", "verifyError"}
<1>1. SUFFICES ASSUME NEW t \in Tactics, cause[t] = "cancelled"
               PROVE  Range(events[t]) \cap Blame = {}
  BY DEF InterruptIsNotFailure
<1>2. \/ events[t] = << >>
      \/ events[t] = <<"starting">>
      \/ \E e \in Events \ Blame : events[t] = <<"starting", e>>
  <2>1. CASE FailureTold(t)
    BY <1>1, <2>1 DEF FailureTold
  <2>2. CASE SuccessTold(t)
    BY <1>1, <2>2 DEF SuccessTold
  <2>3. ASSUME NEW w \in BusyWorkers, cur[w] = t
        PROVE  \/ events[t] = << >>
               \/ events[t] = <<"starting">>
               \/ SuccessTold(t) \/ FailureTold(t)
    <3>1. w \in Workers /\ pc[w] \in Busy /\ WorkerTold(w)
      BY DEF BusyWorkers, Told
    <3>2. QED
      BY <2>3, <3>1 DEF WorkerTold, Busy, Connecting, Owning
  <2>4. QED
    BY <2>1, <2>2, <2>3, Accounted
<1>3. CASE events[t] = << >>
  BY <1>3 DEF Range
<1>4. CASE events[t] = <<"starting">>
  BY <1>4 DEF Range
<1>5. ASSUME NEW e \in Events \ Blame, events[t] = <<"starting", e>>
      PROVE  Range(events[t]) \cap Blame = {}
  <2>1. DOMAIN <<"starting", e>> = {1, 2}
    OBVIOUS
  <2>2. <<"starting", e>>[1] = "starting" /\ <<"starting", e>>[2] = e
    OBVIOUS
  <2>3. Range(events[t]) = {"starting", e}
    BY <1>5, <2>1, <2>2 DEF Range
  <2>4. QED
    BY <2>3
<1>6. QED
  BY <1>2, <1>3, <1>4, <1>5

\* When the parent returns, everything that was emitted has been collected.
LEMMA ReturnAccounts ==
  ASSUME IInv, Account, Return
  PROVE  EveryTacticAccounted' /\ NoSelfInflictedFailure'
<1>1. /\ TypeOK /\ JoinsCounted /\ Told /\ Kept /\ Closing /\ Cancelling
      /\ ErrorsCollected /\ ConnsCollected
  BY DEF IInv, Account
<1> USE DEF parentVars, emitterVars, workerVars, netVars, clockVars
<1>2. UNCHANGED <<next, closed, pc, connv, errorv, events, cause>>
  BY DEF Return
<1>3. \A w \in Workers : pc[w] = "done"
  BY <1>1, AllDone DEF Return
<1>4. closed
  BY <1>1, <1>3, WorkersAssumption DEF Closing
<1>5. BusyWorkers = {}
  BY <1>3 DEF BusyWorkers, Busy, Connecting, Owning
<1>6. next \in Nat \ {0} /\ Len(connv) \in Nat /\ Len(errorv) \in Nat
  BY <1>1, BoundsAssumption DEF TypeOK
<1>7. Len(connv) + Len(errorv) = next - 1 /\ Cardinality(Emitted) = next - 1
  <2>1. Cardinality(BusyWorkers) = 0
    BY <1>5, FS_EmptySet
  <2>2. Cardinality(Emitted) = next - 1
    BY <1>6, FS_Interval DEF Emitted
  <2>3. QED
    BY <1>1, <1>6, <2>1, <2>2 DEF Kept
<1>8. /\ \A t : t \in Range(connv) <=> \E i \in 1..Len(connv) : connv[i] = t
      /\ \A t : t \in Range(errorv) <=> \E i \in 1..Len(errorv) : errorv[i] = t
  BY <1>1 DEF TypeOK, Range
<1>9. Range(connv) \cup Range(errorv) = Emitted
  <2>1. \A t \in Emitted : t \in Range(connv) \cup Range(errorv)
    BY <1>1, <1>5, <1>8 DEF Kept
  <2>2. \A t \in Tactics : t < next => t \in Emitted
    BY <1>6, BoundsAssumption DEF Tactics, Emitted
  <2>3. /\ \A i \in 1..Len(connv) : connv[i] \in Tactics /\ connv[i] < next
        /\ \A i \in 1..Len(errorv) : errorv[i] \in Tactics /\ errorv[i] < next
    BY <1>1, SeqElement DEF ConnsCollected, ErrorsCollected, TypeOK
  <2>4. QED
    BY <1>8, <2>1, <2>2, <2>3
<1>10. /\ \A t \in Range(connv) : SuccessTold(t)
       /\ \A t \in Range(errorv) : FailureTold(t)
  BY <1>1, <1>8 DEF Told
<1>11. EveryTacticAccounted'
  <2>1. \A t \in Emitted :
          IF t \in Range(connv)
          THEN events[t] = <<"starting", "success">>
          ELSE \/ events[t] = << >> /\ cause[t] = "cancelled"
               \/ \E e \in Events \ {"starting", "success"} : events[t] = <<"starting", e>>
    BY <1>9, <1>10 DEF SuccessTold, FailureTold
  <2>2. retErr' = "errDNSNoAnswer" <=> Emitted = {}
    <3>1. retErr' = "errDNSNoAnswer" <=> connv = << >> /\ errorv = << >>
      BY DEF Return, ReduceResult
    <3>2. connv = << >> <=> Len(connv) = 0
      BY <1>1, EmptySeq, LenProperties DEF TypeOK
    <3>3. errorv = << >> <=> Len(errorv) = 0
      BY <1>1, EmptySeq, LenProperties DEF TypeOK
    <3>4. Emitted = {} <=> next - 1 = 0
      BY <1>6 DEF Emitted
    <3>5. QED
      BY <1>6, <1>7, <3>1, <3>2, <3>3, <3>4
  <2>3. Emitted' = Emitted /\ Range(connv)' = Range(connv) /\ Range(errorv)' = Range(errorv)
    BY <1>2 DEF Emitted, Range
  <2>4. QED
    BY <1>2, <1>3, <1>4, <1>7, <1>9, <2>1, <2>2, <2>3 DEF EveryTacticAccounted
<1>12. NoSelfInflictedFailure'
  <2>1. SUFFICES ASSUME retErr' \in {"joinedErrors", "errDNSNoAnswer"}, ctx' # "caller",
                        NEW t \in Emitted
                 PROVE  cause[t] = "network" /\ Len(events[t]) = 2
    BY <1>2 DEF NoSelfInflictedFailure, Emitted
  <2>2. connv = << >>
    BY <2>1 DEF Return, ReduceResult
  <2>3. ~ctxDone
    BY <1>1, <2>1, <2>2 DEF Return, Cancelling, Cancelled, ctxDone, TypeOK
  <2>4. t \in Tactics
    BY <1>1, BoundsAssumption DEF TypeOK, Emitted, Tactics
  <2>5. cause[t] \in Causes /\ cause[t] # "cancelled"
    BY <1>1, <2>3, <2>4 DEF TypeOK, Cancelling
  <2>6. FailureTold(t)
    BY <1>8, <1>9, <1>10, <2>2
  <2>7. QED
    BY <2>5, <2>6 DEF FailureTold, Causes
<1>13. QED
  BY <1>11, <1>12

\* Every step keeps the account.
LEMMA AccountNext == IInv /\ Account /\ [Next]_vars => Account'
<1> SUFFICES ASSUME IInv, Account, [Next]_vars PROVE Account'
  OBVIOUS
<1>1. IInv' /\ TypeOK'
  BY InvNext DEF IInv
<1>2. Told' /\ ErrorsCollected' /\ Kept' /\ Closing' /\ Cancelling' /\ Clock'
  BY ToldNext, ErrorsCollectedNext, KeptNext, ClosingNext, CancellingNext, ClockNext
<1>3. InterruptIsNotFailure'
  BY <1>1, <1>2, InterruptedTold, PTL
<1>4. EveryTacticAccounted' /\ NoSelfInflictedFailure'
  <2>1. CASE parent = "returned"
    BY <2>1, ReturnedStays
    DEF Account, BlameIsDeserved, EveryTacticAccounted, NoSelfInflictedFailure, vars,
        parentVars, emitterVars, workerVars, netVars, clockVars, Emitted, Range
  <2>2. CASE Return
    BY <2>2, ReturnAccounts
  <2>3. CASE parent' = "returned" /\ ~Return /\ parent # "returned"
    <3>1. BadEndpoint
      BY <2>3 DEF Next, Parent, Spawn, ReceiveJoin, ReceiveError, ReceiveConn, Emitter,
         CloseEmitter, Emit, Worker, RangeEnds, DialTLS, WaitReady, TimerFires, TimerInterrupted,
         OnStarting, TCPConnectSucceeds, TCPConnectFails, OnTCPConnectError,
         TLSHandshakeSucceeds, TLSHandshakeFails, OnTLSHandshakeError, VerifySucceeds,
         VerifyFails, CallerCancels, Tick, Done, vars, parentVars
    <3>2. QED
      BY <3>1 DEF BadEndpoint, EveryTacticAccounted, NoSelfInflictedFailure
  <2>4. CASE parent' # "returned"
    BY <1>1, <2>4 DEF IInv, Phases, EveryTacticAccounted, NoSelfInflictedFailure
  <2>5. QED
    BY <2>1, <2>2, <2>3, <2>4
<1>5. QED
  BY <1>2, <1>3, <1>4 DEF Account, BlameIsDeserved

\* Nothing has been emitted at first.
LEMMA AccountInit == Init => Account
<1> SUFFICES ASSUME Init PROVE Account
  OBVIOUS
<1> USE DEF Init, NoTactic, NoTime
<1>1. Told /\ ErrorsCollected
  BY DEF Told, WorkerTold, ErrorsCollected, Tactics
<1>2. Kept
  <2>1. BusyWorkers = {}
    BY DEF BusyWorkers, Busy, Connecting, Owning
  <2>2. Cardinality(BusyWorkers) = 0
    BY <2>1, FS_EmptySet
  <2>3. Emitted = {}
    BY DEF Emitted
  <2>4. QED
    BY <2>2, <2>3 DEF Kept
<1>3. Closing /\ Cancelling
  BY DEF Closing, Cancelling, ctxDone
<1>4. Clock
  BY DEF Clock, Busy, Connecting, Owning
<1>5. EveryTacticAccounted /\ NoSelfInflictedFailure
  BY DEF EveryTacticAccounted, NoSelfInflictedFailure
<1>6. InterruptIsNotFailure
  BY DEF InterruptIsNotFailure
<1>7. QED
  BY <1>1, <1>2, <1>3, <1>4, <1>5, <1>6 DEF Account, BlameIsDeserved

\* The account is right in every reachable state.
LEMMA Accounting == Spec => []Account
  BY Invariance, AccountInit, AccountNext, PTL DEF Spec

\* When DialTLSContext has returned, no goroutine is left and every emitted
\* tactic has been collected exactly once, in the way its events say, whatever
\* the number of workers and of tactics.
THEOREM TacticsAccounted == Spec => []EveryTacticAccounted
<1>1. Account => EveryTacticAccounted
  BY DEF Account
<1>2. QED
  BY <1>1, Accounting, PTL

\* Nobody is blamed for a cancellation, and the dialer does not make a dial
\* fail by cancelling it.
THEOREM BlameDeserved == Spec => []BlameIsDeserved
<1>1. Account => BlameIsDeserved
  BY DEF Account
<1>2. QED
  BY <1>1, Accounting, PTL

\* No tactic is started before its happy-eyeballs delay has passed since the
\* first tactic reached a worker.
THEOREM StartsAreStaggered == Spec => HappyEyeballs
<1> DEFINE Waited == \A t \in Tactics :
                       (events[t] = << >> /\ events'[t] # << >>) =>
                         now >= emittedAt + InitialDelay(t)
<1>1. IInv /\ Account /\ [Next]_vars => [Waited]_vars
  <2> SUFFICES ASSUME IInv, Account, [Next]_vars PROVE Waited
    OBVIOUS
  <2>1. TypeOK /\ TacticsOwned /\ Told /\ Clock
    BY DEF IInv, Account
  <2> USE DEF parentVars, emitterVars, workerVars, netVars, clockVars
  <2>2. CASE UNCHANGED events
    BY <2>2
  <2>3. ASSUME NEW w \in Workers,
               \/ OnTCPConnectError(w) \/ OnTLSHandshakeError(w)
               \/ VerifySucceeds(w) \/ VerifyFails(w)
        PROVE  Waited
    <3>1. \A t \in Tactics : t # cur[w] => events'[t] = events[t]
      BY <2>1, <2>3 DEF OnTCPConnectError, OnTLSHandshakeError, VerifySucceeds, VerifyFails,
         Notify, TypeOK
    <3>2. events[cur[w]] # << >>
      <4>1. pc[w] \in {"connectError", "handshakeError", "verify"}
        BY <2>3 DEF OnTCPConnectError, OnTLSHandshakeError, VerifySucceeds, VerifyFails
      <4>2. WorkerTold(w)
        BY <2>1 DEF Told
      <4>3. events[cur[w]] = <<"starting">>
        BY <4>1, <4>2 DEF WorkerTold
      <4>4. QED
        BY <4>3
    <3>3. QED
      BY <3>1, <3>2
  <2>4. ASSUME NEW w \in Workers, OnStarting(w)
        PROVE  Waited
    <3>1. \A t \in Tactics : t # cur[w] => events'[t] = events[t]
      BY <2>1, <2>4 DEF OnStarting, Notify, TypeOK
    <3>2. cur[w] \in Tactics
      BY <2>1, <2>4 DEF OnStarting, TacticsOwned, Busy, Connecting
    <3>3. /\ InitialDelay(cur[w]) \in Nat
          /\ now \in Nat /\ t0 \in Nat /\ emittedAt \in Nat /\ t0 >= emittedAt
          /\ now >= t0 + InitialDelay(cur[w])
      BY <2>1, <2>4, <3>2, DelayIsNatural DEF OnStarting, Clock, TypeOK, NoTime
    <3>4. now >= emittedAt + InitialDelay(cur[w])
      BY <3>3
    <3>5. QED
      BY <3>1, <3>4
  <2>5. QED
    BY <2>2, <2>3, <2>4
    DEF Next, Parent, BadEndpoint, Spawn, Return, ReceiveJoin, ReceiveError, ReceiveConn,
        Emitter, CloseEmitter, Emit, Worker, RangeEnds, DialTLS, WaitReady, TimerFires,
        TimerInterrupted, TCPConnectSucceeds, TCPConnectFails, TLSHandshakeSucceeds,
        TLSHandshakeFails, CallerCancels, Tick, Done, vars
<1>2. QED
  BY <1>1, Invariance, Accounting, PTL DEF Spec, HappyEyeballs

-----------------------------------------------------------------------------
(* The policies: the inductive invariant.                                  *)

\* The tactics that a policy may send
Addrs == ToSet(DNSAddrs) \cup ToSet(BridgeAddrs) \cup {"user"}
SNIs == BridgeSNIs \cup {"api", "th", "other"}
Tacs == [addr : Addrs, sni : SNIs]

PolicyTypes ==
  /\ domain \in {"api", "th", "other"}
  /\ stats \in Seq(Tacs)
  /\ todo \in [Chans -> Seq(Tacs)] /\ sent \in [Chans -> Seq(Tacs)]
  /\ begun \subseteq Chans /\ shut \subseteq begun
  /\ turn \in [Mixers -> Chans] /\ taken \in [Mixers -> Nat]
  /\ alive \in [Mixers -> SUBSET Chans]
  /\ later \in Seq(Tacs) /\ emitted \in Seq(Tacs) /\ count \in Nat

\* How many tactics were received from a channel
Got(c) == Len(sent[c]) - Len(todo[c])

\* What a goroutine is sending is the end of what it was to send.
Suffix(t, s) == /\ Len(t) <= Len(s)
                /\ \A i \in 1..Len(t) : t[i] = s[Len(s) - Len(t) + i]

Flow ==
  \A c \in Chans :
    /\ Suffix(todo[c], sent[c])
    /\ c \in shut => todo[c] = << >>
    /\ c \notin begun => sent[c] = << >>

\* How many tactics of the other input come before the element i of an input, if
\* the other has as many; and the position of the element when it has n
Before(i, k) == N * ((i - 1) \div N + k)
At(i, n, k) == i + (IF n <= Before(i, k) THEN n ELSE Before(i, k))

\* Of what a mixer was to send, sm, each element is at its place: it has received
\* the first a elements of sp and the first b of sf.  The place of an element is
\* known when it is received: either the other input has sent enough elements, or
\* it will not send more.
Placed(sp, a, sf, b, sm, cp, cf) ==
  /\ Len(sm) = a + b
  /\ \A i \in 1..a : /\ At(i, Len(sf), 0) \in 1..Len(sm) /\ sm[At(i, Len(sf), 0)] = sp[i]
                     /\ cf \/ Before(i, 0) <= Len(sf)
  /\ \A j \in 1..b : /\ At(j, Len(sp), 1) \in 1..Len(sm) /\ sm[At(j, Len(sp), 1)] = sf[j]
                     /\ cp \/ Before(j, 1) <= Len(sp)
  /\ \A i, j \in 1..a : At(i, Len(sf), 0) = At(j, Len(sf), 0) => i = j
  /\ \A i, j \in 1..b : At(i, Len(sp), 1) = At(j, Len(sp), 1) => i = j
  /\ \A i \in 1..a, j \in 1..b : At(i, Len(sf), 0) # At(j, Len(sp), 1)
  /\ \A k \in 1..Len(sm) : \/ \E i \in 1..a : At(i, Len(sf), 0) = k
                           \/ \E j \in 1..b : At(j, Len(sp), 1) = k

\* The number of tactics of the turns that are complete, N for each
IsBlock(q) == \E r \in Nat : q = N * r

\* Where a mixer is, if it is the turn of w: q tactics of p and of f were received in
\* the rounds before this one, or fewer if the input was drained and is not in on.
Turns(w, t, on, p, f, a, b) ==
  \E q \in Nat :
    /\ IsBlock(q)
    /\ w = p => /\ p \in on => a = q + t
                /\ p \notin on => a <= q /\ t = 0
                /\ f \in on => b = q
                /\ f \notin on => b <= q
    /\ w # p => /\ p \in on => a = q + N
                /\ p \notin on => a <= q + N
                /\ f \in on => b = q + t
                /\ f \notin on => b <= q /\ t = 0

MixInv(m) ==
  LET p == Primary(m)
      f == Fallback(m)
  IN  /\ alive[m] \subseteq Inputs(m) /\ turn[m] \in Inputs(m) /\ taken[m] \in 0..(N - 1)
      /\ p \in alive[m] \/ p \in shut
      /\ f \in alive[m] \/ f \in shut
      /\ m \in shut => alive[m] = {}
      /\ Placed(sent[p], Got(p), sent[f], Got(f), sent[m], p \in shut, f \in shut)
      /\ Turns(turn[m], taken[m], alive[m], p, f, Got(p), Got(f))

\* The either-or policy has what the user policy sent, or if that is nothing what
\* the composed policy sent.
EitherInv ==
  /\ user = << >> => begun \cap {"user", "either"} = {}
  /\ user # << >> =>
       /\ count = Got("user")
       /\ "outer" \in begun => "user" \in shut /\ count = 0
       /\ Len(sent["either"]) = Got("user") + Got("outer")
       /\ \A i \in 1..Got("user") : sent["either"][i] = sent["user"][i]
       /\ \A i \in 1..Got("outer") : sent["either"][i] = sent["outer"][i]
       /\ "either" \in shut => "user" \in shut /\ (count > 0 \/ "outer" \in shut)

\* What was received is what is to be sent: no tactic is nil.
FilterInv ==
  /\ Len(sent["nonnil"]) = Got(Root)
  /\ \A i \in 1..Got(Root) : sent["nonnil"][i] = sent[Root][i]
  /\ "nonnil" \in shut => Root \in shut
  /\ "uniq" \in shut => "nonnil" \in shut

\* Of the first g elements of s, u has each once, none later than it is in s; ss is
\* the set of them.
Deduped(u, s, g, ss) ==
  /\ ss = ToSet(u)
  /\ \A i, j \in 1..Len(u) : u[i] = u[j] => i = j
  /\ Len(u) <= g
  /\ \A j \in 1..g : \E i \in 1..Len(u) : i <= j /\ u[i] = s[j]
  /\ \A i \in 1..Len(u) : \E j \in 1..g : u[i] = s[j]

UniqueInv ==
  /\ Deduped(sent["uniq"], sent["nonnil"], Got("nonnil"), seen)
  /\ Len(emitted) = Got("uniq")
  /\ \A i \in 1..Len(emitted) : emitted[i] = sent["uniq"][i]

PolicyInv ==
  /\ PolicyTypes /\ Flow
  /\ MixInv("inner") /\ MixInv("outer")
  /\ EitherInv /\ FilterInv /\ UniqueInv

\* A channel is to send more, unless it is closed, and nothing that it was to send
\* is taken back; what all the steps have in common.
Grows(c) == \/ sent'[c] = sent[c]
            \/ c \notin shut /\ \E x \in Seq(Tacs) : sent'[c] = sent[c] \o x

Steady ==
  /\ todo' \in [Chans -> Seq(Tacs)] /\ sent' \in [Chans -> Seq(Tacs)]
  /\ begun \subseteq begun' /\ begun' \subseteq Chans
  /\ shut \subseteq shut' /\ shut' \subseteq begun'
  /\ Flow'
  /\ \A c \in Chans : Grows(c)

-----------------------------------------------------------------------------
(* Positions.                                                              *)

LEMMA NPositive == N \in Nat /\ N >= 1
<1>1. Factor \in Nat
  BY PolicyAssumption
<1>2. \E x \in {1, Factor} : \A y \in {1, Factor} : x >= y
  <2>1. CASE Factor >= 1
    BY <1>1, <2>1
  <2>2. CASE ~(Factor >= 1)
    BY <1>1, <2>2
  <2>3. QED
    BY <2>1, <2>2
<1>3. N \in {1, Factor} /\ \A y \in {1, Factor} : N >= y
  BY <1>2, Zenon DEF N, Max
<1>4. QED
  BY <1>1, <1>3

LEMMA Smaller ==
  ASSUME NEW x \in Nat, NEW y \in Nat
  PROVE  Min({x, y}) = IF x <= y THEN x ELSE y
<1>1. \E z \in {x, y} : \A w \in {x, y} : z =< w
  <2>1. CASE x <= y
    BY <2>1
  <2>2. CASE ~(x <= y)
    BY <2>2
  <2>3. QED
    BY <2>1, <2>2
<1>2. Min({x, y}) \in {x, y} /\ \A w \in {x, y} : Min({x, y}) =< w
  BY <1>1, Zenon DEF Min
<1>3. QED
  BY <1>2

LEMMA RoundOf ==
  ASSUME NEW x \in Nat, NEW r \in Nat, NEW t \in 0..(N - 1), x = N * r + t
  PROVE  x \div N = r
<1>1. PICK n \in Nat : n = N /\ n >= 1
  BY NPositive
<1>2. PICK d : d = x \div n
  OBVIOUS
<1>3. d \in Int /\ n * d <= x /\ x < n * (d + 1)
  BY <1>1, <1>2
<1>4. n * d \in Int /\ n * r \in Int /\ n * (d + 1) = n * d + n /\ n * (r + 1) = n * r + n
  BY <1>1, <1>3
<1>5. x = n * r + t /\ t \in 0..(n - 1)
  BY <1>1
<1>6. n * r < n * (d + 1) /\ n * d < n * (r + 1)
  BY <1>1, <1>3, <1>4, <1>5
<1>7. ASSUME NEW u \in Int, NEW v \in Int, n * u < n * v PROVE u < v
  <2>1. ASSUME u >= v PROVE n * u >= n * v
    BY <1>1, <2>1
  <2>2. QED
    BY <1>1, <1>7, <2>1
<1>8. r < d + 1 /\ d < r + 1
  BY <1>3, <1>6, <1>7
<1>9. QED
  BY <1>1, <1>2, <1>3, <1>8

LEMMA BeforeType ==
  ASSUME NEW i \in Nat \ {0}, NEW k \in {0, 1}
  PROVE  Before(i, k) \in Nat
<1>1. PICK n \in Nat : n = N /\ n >= 1
  BY NPositive
<1>2. PICK d : d = (i - 1) \div n
  OBVIOUS
<1>3. d \in Nat
  BY <1>1, <1>2
<1>4. Before(i, k) = n * (d + k)
  BY <1>1, <1>2, Zenon DEF Before
<1>5. n * (d + k) \in Nat
  BY <1>1, <1>3
<1>6. QED
  BY <1>4, <1>5

LEMMA AtType ==
  ASSUME NEW i \in Nat \ {0}, NEW n \in Nat, NEW k \in {0, 1}
  PROVE  At(i, n, k) \in Nat /\ At(i, n, k) >= 1
BY BeforeType DEF At

LEMMA PositionAt ==
  ASSUME NEW i \in Nat \ {0}, NEW k \in {0, 1}, NEW s, Len(s) \in Nat
  PROVE  Position(i, s, k) = At(i, Len(s), k)
<1>1. PICK n : n = Len(s)
  OBVIOUS
<1>2. PICK b : b = Before(i, k)
  OBVIOUS
<1>3. n \in Nat /\ b \in Nat
  BY <1>1, <1>2, BeforeType
<1>4. Position(i, s, k) = i + Min({n, b})
  BY <1>1, <1>2, Zenon DEF Position, Before
<1>5. Min({n, b}) = IF n <= b THEN n ELSE b
  BY <1>3, Smaller
<1>6. QED
  BY <1>1, <1>2, <1>4, <1>5, Zenon DEF At

\* The place of an element that is the t-th, from 0, of its turn.
LEMMA InBlock ==
  ASSUME NEW q \in Nat, IsBlock(q), NEW t \in 0..(N - 1)
  PROVE  Before(q + t + 1, 0) = q /\ Before(q + t + 1, 1) = q + N
<1>1. PICK r \in Nat : q = N * r
  BY DEF IsBlock
<1>2. PICK n \in Nat : n = N /\ n >= 1
  BY NPositive
<1>3. q + t \in Nat
  BY <1>2
<1>4. (q + t) \div n = r
  BY <1>1, <1>2, <1>3, RoundOf
<1>5. q + t + 1 - 1 = q + t
  BY <1>3
<1>6. PICK x : x = q + t + 1
  OBVIOUS
<1>7. (x - 1) \div n = r
  BY <1>3, <1>4, <1>6
<1>8. Before(x, 0) = n * (r + 0) /\ Before(x, 1) = n * (r + 1)
  BY <1>2, <1>7, Zenon DEF Before
<1>9. n * (r + 0) = n * r /\ n * (r + 1) = n * r + n
  BY <1>2
<1>10. QED
  BY <1>1, <1>2, <1>6, <1>8, <1>9

LEMMA Blocks == IsBlock(0) /\ \A q \in Nat : IsBlock(q) => IsBlock(q + N)
<1>1. PICK n \in Nat : n = N
  BY NPositive
<1>2. IsBlock(0)
  <2>1. 0 = n * 0
    OBVIOUS
  <2>2. QED
    BY <1>1, <2>1 DEF IsBlock
<1>3. ASSUME NEW q \in Nat, IsBlock(q) PROVE IsBlock(q + N)
  <2>1. PICK r \in Nat : q = n * r
    BY <1>1, <1>3 DEF IsBlock
  <2>2. q + n = n * (r + 1) /\ r + 1 \in Nat
    BY <2>1
  <2>3. QED
    BY <1>1, <2>2 DEF IsBlock
<1>4. QED
  BY <1>2, <1>3

-----------------------------------------------------------------------------
(* Interleaving.                                                           *)

LEMMA OneMore ==
  ASSUME NEW T, NEW s \in Seq(T), NEW y \in T
  PROVE  /\ s \o <<y>> \in Seq(T) /\ Len(s \o <<y>>) = Len(s) + 1
         /\ (s \o <<y>>)[Len(s) + 1] = y
         /\ \A k \in 1..Len(s) : (s \o <<y>>)[k] = s[k]
<1>1. <<y>> \in Seq(T) /\ Len(<<y>>) = 1 /\ <<y>>[1] = y
  OBVIOUS
<1>2. QED
  BY <1>1

LEMMA Longer ==
  ASSUME NEW T, NEW s \in Seq(T), NEW x \in Seq(T)
  PROVE  /\ s \o x \in Seq(T) /\ Len(s \o x) = Len(s) + Len(x)
         /\ \A k \in 1..Len(s) : (s \o x)[k] = s[k]
         /\ \A k \in 1..Len(x) : (s \o x)[Len(s) + k] = x[k]
OBVIOUS

\* The place of an element does not change when there are already enough others.
LEMMA Settled ==
  ASSUME NEW i \in Nat \ {0}, NEW k \in {0, 1}, NEW n \in Nat, NEW m \in Nat,
         Before(i, k) <= n, n <= m
  PROVE  At(i, m, k) = At(i, n, k) /\ Before(i, k) <= m
<1>1. PICK b : b = Before(i, k)
  OBVIOUS
<1>2. b \in Nat /\ b <= n
  BY <1>1, BeforeType
<1>3. At(i, n, k) = i + (IF n <= b THEN n ELSE b) /\ At(i, m, k) = i + (IF m <= b THEN m ELSE b)
  BY <1>1, Zenon DEF At
<1>4. (IF n <= b THEN n ELSE b) = b /\ (IF m <= b THEN m ELSE b) = b /\ b <= m
  BY <1>2
<1>5. QED
  BY <1>1, <1>3, <1>4

\* An input that sends more leaves everything at its place.
LEMMA PrimaryGrows ==
  ASSUME NEW sp \in Seq(Tacs), NEW sf \in Seq(Tacs), NEW a \in 0..Len(sp), NEW b \in 0..Len(sf),
         NEW sm, NEW cp, NEW cf, Placed(sp, a, sf, b, sm, cp, cf), ~ cp, NEW x \in Seq(Tacs)
  PROVE  Placed(sp \o x, a, sf, b, sm, cp, cf)
<1>1. PICK s : s = sp \o x
  OBVIOUS
<1>2. /\ Len(s) \in Nat /\ Len(s) >= Len(sp) /\ Len(sp) \in Nat /\ Len(sf) \in Nat
      /\ \A k \in 1..Len(sp) : s[k] = sp[k]
  BY <1>1, Longer
<1>3. ASSUME NEW j \in 1..b
      PROVE  At(j, Len(s), 1) = At(j, Len(sp), 1) /\ Before(j, 1) <= Len(s)
  <2>1. j \in Nat \ {0} /\ 1 \in {0, 1} /\ Len(sp) <= Len(s)
    BY <1>2
  <2>2. Before(j, 1) <= Len(sp)
    BY DEF Placed
  <2>3. QED
    BY <1>2, <2>1, <2>2, Settled, Zenon
<1>4. \A i \in 1..a : s[i] = sp[i]
  BY <1>2
<1>5. Placed(s, a, sf, b, sm, cp, cf)
  <2>1. /\ Len(sm) = a + b
        /\ \A i \in 1..a : /\ At(i, Len(sf), 0) \in 1..Len(sm) /\ sm[At(i, Len(sf), 0)] = s[i]
                           /\ cf \/ Before(i, 0) <= Len(sf)
        /\ \A i, j \in 1..a : At(i, Len(sf), 0) = At(j, Len(sf), 0) => i = j
    BY <1>4 DEF Placed
  <2>2. \A j \in 1..b : /\ At(j, Len(s), 1) \in 1..Len(sm) /\ sm[At(j, Len(s), 1)] = sf[j]
                        /\ cp \/ Before(j, 1) <= Len(s)
    BY <1>3 DEF Placed
  <2>3. \A i, j \in 1..b : At(i, Len(s), 1) = At(j, Len(s), 1) => i = j
    BY <1>3 DEF Placed
  <2>4. \A i \in 1..a, j \in 1..b : At(i, Len(sf), 0) # At(j, Len(s), 1)
    BY <1>3 DEF Placed
  <2>5. \A k \in 1..Len(sm) : \/ \E i \in 1..a : At(i, Len(sf), 0) = k
                              \/ \E j \in 1..b : At(j, Len(s), 1) = k
    <3>1. \A k \in 1..Len(sm) : \/ \E i \in 1..a : At(i, Len(sf), 0) = k
                                \/ \E j \in 1..b : At(j, Len(sp), 1) = k
      BY Zenon DEF Placed
    <3>2. QED
      BY <1>3, <3>1, Zenon
  <2>6. QED
    BY <2>1, <2>2, <2>3, <2>4, <2>5 DEF Placed
<1>6. QED
  BY <1>1, <1>5

LEMMA FallbackGrows ==
  ASSUME NEW sp \in Seq(Tacs), NEW sf \in Seq(Tacs), NEW a \in 0..Len(sp), NEW b \in 0..Len(sf),
         NEW sm, NEW cp, NEW cf, Placed(sp, a, sf, b, sm, cp, cf), ~ cf, NEW x \in Seq(Tacs)
  PROVE  Placed(sp, a, sf \o x, b, sm, cp, cf)
<1>1. PICK s : s = sf \o x
  OBVIOUS
<1>2. /\ Len(s) \in Nat /\ Len(s) >= Len(sf) /\ Len(sp) \in Nat /\ Len(sf) \in Nat
      /\ \A k \in 1..Len(sf) : s[k] = sf[k]
  BY <1>1, Longer
<1>3. ASSUME NEW i \in 1..a
      PROVE  At(i, Len(s), 0) = At(i, Len(sf), 0) /\ Before(i, 0) <= Len(s)
  <2>1. i \in Nat \ {0} /\ 0 \in {0, 1} /\ Len(sf) <= Len(s)
    BY <1>2
  <2>2. Before(i, 0) <= Len(sf)
    BY DEF Placed
  <2>3. QED
    BY <1>2, <2>1, <2>2, Settled, Zenon
<1>4. \A j \in 1..b : s[j] = sf[j]
  BY <1>2
<1>5. Placed(sp, a, s, b, sm, cp, cf)
  <2>1. /\ Len(sm) = a + b
        /\ \A j \in 1..b : /\ At(j, Len(sp), 1) \in 1..Len(sm) /\ sm[At(j, Len(sp), 1)] = s[j]
                           /\ cp \/ Before(j, 1) <= Len(sp)
        /\ \A i, j \in 1..b : At(i, Len(sp), 1) = At(j, Len(sp), 1) => i = j
    BY <1>4 DEF Placed
  <2>2. \A i \in 1..a : /\ At(i, Len(s), 0) \in 1..Len(sm) /\ sm[At(i, Len(s), 0)] = sp[i]
                        /\ cf \/ Before(i, 0) <= Len(s)
    BY <1>3 DEF Placed
  <2>3. \A i, j \in 1..a : At(i, Len(s), 0) = At(j, Len(s), 0) => i = j
    BY <1>3 DEF Placed
  <2>4. \A i \in 1..a, j \in 1..b : At(i, Len(s), 0) # At(j, Len(sp), 1)
    BY <1>3 DEF Placed
  <2>5. \A k \in 1..Len(sm) : \/ \E i \in 1..a : At(i, Len(s), 0) = k
                              \/ \E j \in 1..b : At(j, Len(sp), 1) = k
    <3>1. \A k \in 1..Len(sm) : \/ \E i \in 1..a : At(i, Len(sf), 0) = k
                                \/ \E j \in 1..b : At(j, Len(sp), 1) = k
      BY Zenon DEF Placed
    <3>2. QED
      BY <1>3, <3>1, Zenon
  <2>6. QED
    BY <2>1, <2>2, <2>3, <2>4, <2>5 DEF Placed
<1>6. QED
  BY <1>1, <1>5

\* A channel that is closed
LEMMA InputShuts ==
  ASSUME NEW sp, NEW sf, NEW a, NEW b, NEW sm, NEW cp, NEW cf, NEW dp, NEW df,
         Placed(sp, a, sf, b, sm, cp, cf), cp => dp, cf => df
  PROVE  Placed(sp, a, sf, b, sm, dp, df)
BY DEF Placed

\* A mixer that takes an element puts it at its place.
LEMMA PrimaryTaken ==
  ASSUME NEW sp \in Seq(Tacs), NEW sf \in Seq(Tacs), NEW sm \in Seq(Tacs),
         NEW a \in Nat, a < Len(sp), NEW b \in 0..Len(sf),
         NEW cp, NEW cf, Placed(sp, a, sf, b, sm, cp, cf),
         At(a + 1, Len(sf), 0) = a + b + 1, cf \/ Before(a + 1, 0) <= Len(sf)
  PROVE  Placed(sp, a + 1, sf, b, sm \o <<sp[a + 1]>>, cp, cf)
<1>1. PICK t : t = sm \o <<sp[a + 1]>>
  OBVIOUS
<1>2. sp[a + 1] \in Tacs
  OBVIOUS
<1>3. /\ Len(t) = Len(sm) + 1 /\ t[Len(sm) + 1] = sp[a + 1]
      /\ \A k \in 1..Len(sm) : t[k] = sm[k]
  BY <1>1, <1>2, OneMore
<1>4. PICK e : e = a + 1
  OBVIOUS
<1>5. Len(sm) = a + b /\ Len(sm) \in Nat /\ Len(sp) \in Nat /\ Len(sf) \in Nat
  BY DEF Placed
<1>6. Len(t) = e + b /\ At(e, Len(sf), 0) = Len(t) /\ t[Len(t)] = sp[e] /\ Len(t) = Len(sm) + 1
  BY <1>3, <1>4, <1>5
<1>7. \A i \in 1..e : i \in 1..a \/ i = e
  BY <1>4
<1>8. ASSUME NEW i \in 1..a
      PROVE  /\ At(i, Len(sf), 0) \in 1..Len(sm) /\ t[At(i, Len(sf), 0)] = sp[i]
             /\ cf \/ Before(i, 0) <= Len(sf)
  BY <1>3 DEF Placed
<1>9. ASSUME NEW j \in 1..b
      PROVE  /\ At(j, Len(sp), 1) \in 1..Len(sm) /\ t[At(j, Len(sp), 1)] = sf[j]
             /\ cp \/ Before(j, 1) <= Len(sp)
  BY <1>3 DEF Placed
<1>10. \A k \in 1..Len(sm) : k \in 1..Len(t) /\ k # Len(t)
  BY <1>5, <1>6
<1>11. Placed(sp, e, sf, b, t, cp, cf)
  <2>1. \A i \in 1..e : /\ At(i, Len(sf), 0) \in 1..Len(t) /\ t[At(i, Len(sf), 0)] = sp[i]
                        /\ cf \/ Before(i, 0) <= Len(sf)
    <3>1. Len(t) \in 1..Len(t)
      BY <1>5, <1>6
    <3>2. cf \/ Before(e, 0) <= Len(sf)
      BY <1>4
    <3>3. QED
      BY <1>6, <1>7, <1>8, <1>10, <3>1, <3>2
  <2>2. \A j \in 1..b : /\ At(j, Len(sp), 1) \in 1..Len(t) /\ t[At(j, Len(sp), 1)] = sf[j]
                        /\ cp \/ Before(j, 1) <= Len(sp)
    BY <1>9, <1>10
  <2>3. \A i, j \in 1..e : At(i, Len(sf), 0) = At(j, Len(sf), 0) => i = j
    <3>1. \A i, j \in 1..a : At(i, Len(sf), 0) = At(j, Len(sf), 0) => i = j
      BY DEF Placed
    <3>2. \A i \in 1..a : At(i, Len(sf), 0) # At(e, Len(sf), 0)
      BY <1>6, <1>8, <1>10
    <3>3. QED
      BY <1>7, <3>1, <3>2
  <2>4. \A i, j \in 1..b : At(i, Len(sp), 1) = At(j, Len(sp), 1) => i = j
    BY DEF Placed
  <2>5. \A i \in 1..e, j \in 1..b : At(i, Len(sf), 0) # At(j, Len(sp), 1)
    <3>1. \A i \in 1..a, j \in 1..b : At(i, Len(sf), 0) # At(j, Len(sp), 1)
      BY DEF Placed
    <3>2. \A j \in 1..b : At(e, Len(sf), 0) # At(j, Len(sp), 1)
      BY <1>6, <1>9, <1>10
    <3>3. QED
      BY <1>7, <3>1, <3>2
  <2>6. \A k \in 1..Len(t) : \/ \E i \in 1..e : At(i, Len(sf), 0) = k
                             \/ \E j \in 1..b : At(j, Len(sp), 1) = k
    <3>1. \A k \in 1..Len(sm) : \/ \E i \in 1..a : At(i, Len(sf), 0) = k
                                \/ \E j \in 1..b : At(j, Len(sp), 1) = k
      BY DEF Placed
    <3>2. \A k \in 1..Len(t) : k \in 1..Len(sm) \/ k = Len(t)
      BY <1>5, <1>6
    <3>3. e \in 1..e /\ 1..a \subseteq 1..e
      BY <1>4
    <3>4. QED
      BY <1>6, <3>1, <3>2, <3>3
  <2>7. QED
    BY <1>6, <2>1, <2>2, <2>3, <2>4, <2>5, <2>6 DEF Placed
<1>12. QED
  BY <1>1, <1>4, <1>11

LEMMA FallbackTaken ==
  ASSUME NEW sp \in Seq(Tacs), NEW sf \in Seq(Tacs), NEW sm \in Seq(Tacs),
         NEW a \in 0..Len(sp), NEW b \in Nat, b < Len(sf),
         NEW cp, NEW cf, Placed(sp, a, sf, b, sm, cp, cf),
         At(b + 1, Len(sp), 1) = a + b + 1, cp \/ Before(b + 1, 1) <= Len(sp)
  PROVE  Placed(sp, a, sf, b + 1, sm \o <<sf[b + 1]>>, cp, cf)
<1>1. PICK t : t = sm \o <<sf[b + 1]>>
  OBVIOUS
<1>2. sf[b + 1] \in Tacs
  OBVIOUS
<1>3. /\ Len(t) = Len(sm) + 1 /\ t[Len(sm) + 1] = sf[b + 1]
      /\ \A k \in 1..Len(sm) : t[k] = sm[k]
  BY <1>1, <1>2, OneMore
<1>4. PICK e : e = b + 1
  OBVIOUS
<1>5. Len(sm) = a + b /\ Len(sm) \in Nat /\ Len(sp) \in Nat /\ Len(sf) \in Nat
  BY DEF Placed
<1>6. Len(t) = a + e /\ At(e, Len(sp), 1) = Len(t) /\ t[Len(t)] = sf[e] /\ Len(t) = Len(sm) + 1
  BY <1>3, <1>4, <1>5
<1>7. \A j \in 1..e : j \in 1..b \/ j = e
  BY <1>4
<1>8. ASSUME NEW j \in 1..b
      PROVE  /\ At(j, Len(sp), 1) \in 1..Len(sm) /\ t[At(j, Len(sp), 1)] = sf[j]
             /\ cp \/ Before(j, 1) <= Len(sp)
  BY <1>3 DEF Placed
<1>9. ASSUME NEW i \in 1..a
      PROVE  /\ At(i, Len(sf), 0) \in 1..Len(sm) /\ t[At(i, Len(sf), 0)] = sp[i]
             /\ cf \/ Before(i, 0) <= Len(sf)
  BY <1>3 DEF Placed
<1>10. \A k \in 1..Len(sm) : k \in 1..Len(t) /\ k # Len(t)
  BY <1>5, <1>6
<1>11. Placed(sp, a, sf, e, t, cp, cf)
  <2>1. \A j \in 1..e : /\ At(j, Len(sp), 1) \in 1..Len(t) /\ t[At(j, Len(sp), 1)] = sf[j]
                        /\ cp \/ Before(j, 1) <= Len(sp)
    <3>1. Len(t) \in 1..Len(t)
      BY <1>5, <1>6
    <3>2. cp \/ Before(e, 1) <= Len(sp)
      BY <1>4
    <3>3. QED
      BY <1>6, <1>7, <1>8, <1>10, <3>1, <3>2
  <2>2. \A i \in 1..a : /\ At(i, Len(sf), 0) \in 1..Len(t) /\ t[At(i, Len(sf), 0)] = sp[i]
                        /\ cf \/ Before(i, 0) <= Len(sf)
    BY <1>9, <1>10
  <2>3. \A i, j \in 1..e : At(i, Len(sp), 1) = At(j, Len(sp), 1) => i = j
    <3>1. \A i, j \in 1..b : At(i, Len(sp), 1) = At(j, Len(sp), 1) => i = j
      BY DEF Placed
    <3>2. \A j \in 1..b : At(j, Len(sp), 1) # At(e, Len(sp), 1)
      BY <1>6, <1>8, <1>10
    <3>3. QED
      BY <1>7, <3>1, <3>2
  <2>4. \A i, j \in 1..a : At(i, Len(sf), 0) = At(j, Len(sf), 0) => i = j
    BY DEF Placed
  <2>5. \A i \in 1..a, j \in 1..e : At(i, Len(sf), 0) # At(j, Len(sp), 1)
    <3>1. \A i \in 1..a, j \in 1..b : At(i, Len(sf), 0) # At(j, Len(sp), 1)
      BY DEF Placed
    <3>2. \A i \in 1..a : At(i, Len(sf), 0) # At(e, Len(sp), 1)
      BY <1>6, <1>9, <1>10
    <3>3. QED
      BY <1>7, <3>1, <3>2
  <2>6. \A k \in 1..Len(t) : \/ \E i \in 1..a : At(i, Len(sf), 0) = k
                             \/ \E j \in 1..e : At(j, Len(sp), 1) = k
    <3>1. \A k \in 1..Len(sm) : \/ \E i \in 1..a : At(i, Len(sf), 0) = k
                                \/ \E j \in 1..b : At(j, Len(sp), 1) = k
      BY DEF Placed
    <3>2. \A k \in 1..Len(t) : k \in 1..Len(sm) \/ k = Len(t)
      BY <1>5, <1>6
    <3>3. e \in 1..e /\ 1..b \subseteq 1..e
      BY <1>4
    <3>4. QED
      BY <1>6, <3>1, <3>2, <3>3
  <2>7. QED
    BY <1>6, <2>1, <2>2, <2>3, <2>4, <2>5, <2>6 DEF Placed
<1>12. QED
  BY <1>1, <1>4, <1>11

\* When everything was received, the output is the interleaving of the inputs.
LEMMA PlacedDone ==
  ASSUME NEW sp \in Seq(Tacs), NEW sf \in Seq(Tacs), NEW sm \in Seq(Tacs), NEW cp, NEW cf,
         Placed(sp, Len(sp), sf, Len(sf), sm, cp, cf)
  PROVE  sm = InterleavingOf(sp, sf)
<1>1. Len(sp) \in Nat /\ Len(sf) \in Nat /\ DOMAIN sp = 1..Len(sp) /\ DOMAIN sf = 1..Len(sf)
  OBVIOUS
<1>2. \A i \in DOMAIN sp : Position(i, sf, 0) = At(i, Len(sf), 0)
  BY <1>1, PositionAt
<1>3. \A j \in DOMAIN sf : Position(j, sp, 1) = At(j, Len(sp), 1)
  BY <1>1, PositionAt
<1> DEFINE I(k) == CHOOSE i \in DOMAIN sp : Position(i, sf, 0) = k
           J(k) == CHOOSE j \in DOMAIN sf : Position(j, sp, 1) = k
           V(k) == IF \E i \in DOMAIN sp : Position(i, sf, 0) = k THEN sp[I(k)] ELSE sf[J(k)]
<1>4. ASSUME NEW k \in 1..Len(sm) PROVE V(k) = sm[k]
  <2>1. CASE \E i \in DOMAIN sp : Position(i, sf, 0) = k
    <3>1. I(k) \in DOMAIN sp /\ Position(I(k), sf, 0) = k
      BY <2>1, Zenon
    <3>2. PICK i : i = I(k)
      OBVIOUS
    <3>3. i \in 1..Len(sp) /\ At(i, Len(sf), 0) = k
      BY <1>1, <1>2, <3>1, <3>2
    <3>4. sm[k] = sp[i]
      BY <3>3 DEF Placed
    <3>5. QED
      BY <2>1, <3>2, <3>4, Zenon
  <2>2. CASE ~ \E i \in DOMAIN sp : Position(i, sf, 0) = k
    <3>1. ~ \E i \in 1..Len(sp) : At(i, Len(sf), 0) = k
      BY <1>1, <1>2, <2>2
    <3>2. \E j \in 1..Len(sf) : At(j, Len(sp), 1) = k
      BY <3>1 DEF Placed
    <3>3. \E j \in DOMAIN sf : Position(j, sp, 1) = k
      BY <1>1, <1>3, <3>2
    <3>4. J(k) \in DOMAIN sf /\ Position(J(k), sp, 1) = k
      BY <3>3, Zenon
    <3>5. PICK j : j = J(k)
      OBVIOUS
    <3>6. j \in 1..Len(sf) /\ At(j, Len(sp), 1) = k
      BY <1>1, <1>3, <3>4, <3>5
    <3>7. sm[k] = sf[j]
      BY <3>6 DEF Placed
    <3>8. QED
      BY <2>2, <3>5, <3>7, Zenon
  <2>3. QED
    BY <2>1, <2>2
<1>5. Len(sm) = Len(sp) + Len(sf)
  BY DEF Placed
<1>6. sm = [k \in 1..Len(sm) |-> sm[k]]
  OBVIOUS
<1>7. InterleavingOf(sp, sf) = [k \in 1..(Len(sp) + Len(sf)) |-> V(k)]
  BY Zenon DEF InterleavingOf
<1> HIDE DEF V
<1>8. [k \in 1..Len(sm) |-> V(k)] = [k \in 1..Len(sm) |-> sm[k]]
  BY <1>4
<1>9. QED
  BY <1>5, <1>6, <1>7, <1>8

\* The place of the element that a mixer takes next is the end of what it sent.
LEMMA PrimaryPlace ==
  ASSUME NEW w, NEW on, NEW p, NEW f, NEW t \in 0..(N - 1),
         NEW a \in Nat, NEW b \in Nat, NEW n \in Nat,
         Turns(w, t, on, p, f, a, b), w = p, p \in on, b <= n, f \notin on => b = n
  PROVE  At(a + 1, n, 0) = a + b + 1 /\ (f \notin on \/ Before(a + 1, 0) <= n)
<1>1. PICK q \in Nat : IsBlock(q) /\ a = q + t /\ (f \in on => b = q) /\ (f \notin on => b <= q)
  BY DEF Turns
<1>2. PICK e : e = a + 1
  OBVIOUS
<1>3. t \in Nat /\ q + t + 1 = e
  BY <1>1, <1>2, NPositive
<1>4. Before(q + t + 1, 0) = q
  BY <1>1, InBlock
<1>5. Before(e, 0) = q
  BY <1>3, <1>4
<1>6. At(e, n, 0) = e + (IF n <= q THEN n ELSE q)
  BY <1>5, Zenon DEF At
<1>7. (IF n <= q THEN n ELSE q) = b
  BY <1>1
<1>8. e + b = a + b + 1
  BY <1>2
<1>9. f \notin on \/ q <= n
  BY <1>1
<1>10. QED
  BY <1>2, <1>5, <1>6, <1>7, <1>8, <1>9, Zenon

LEMMA FallbackPlace ==
  ASSUME NEW w, NEW on, NEW p, NEW f, NEW t \in 0..(N - 1),
         NEW a \in Nat, NEW b \in Nat, NEW n \in Nat,
         Turns(w, t, on, p, f, a, b), w # p, f \in on, a <= n, p \notin on => a = n
  PROVE  At(b + 1, n, 1) = a + b + 1 /\ (p \notin on \/ Before(b + 1, 1) <= n)
<1>1. PICK q \in Nat : IsBlock(q) /\ b = q + t /\ (p \in on => a = q + N) /\ (p \notin on => a <= q + N)
  BY DEF Turns
<1>2. PICK e : e = b + 1
  OBVIOUS
<1>3. t \in Nat /\ q + t + 1 = e
  BY <1>1, <1>2, NPositive
<1>4. Before(q + t + 1, 1) = q + N
  BY <1>1, InBlock
<1>5. PICK r : r = q + N
  OBVIOUS
<1>6. Before(e, 1) = r /\ r \in Nat /\ (p \in on => a = r) /\ (p \notin on => a <= r)
  BY <1>1, <1>3, <1>4, <1>5, NPositive
<1>7. At(e, n, 1) = e + (IF n <= r THEN n ELSE r)
  BY <1>6, Zenon DEF At
<1>8. (IF n <= r THEN n ELSE r) = a
  BY <1>6
<1>9. e + a = a + b + 1
  BY <1>2
<1>10. p \notin on \/ r <= n
  BY <1>6
<1>11. QED
  BY <1>2, <1>6, <1>7, <1>8, <1>9, <1>10, Zenon

\* The turns go on.
LEMMA PrimaryTurn ==
  ASSUME NEW w, NEW nxt, NEW on, NEW p, NEW f, NEW t \in 0..(N - 1), NEW u,
         NEW a \in Nat, NEW b \in Nat,
         Turns(w, t, on, p, f, a, b), w = p, p \in on,
         IF t + 1 >= N THEN nxt # p /\ u = 0 ELSE nxt = p /\ u = t + 1
  PROVE  Turns(nxt, u, on, p, f, a + 1, b) /\ u \in 0..(N - 1)
<1>1. PICK n \in Nat : n = N /\ n >= 1
  BY NPositive
<1>2. PICK q \in Nat : IsBlock(q) /\ a = q + t /\ (f \in on => b = q) /\ (f \notin on => b <= q)
  BY DEF Turns
<1>3. u \in 0..(n - 1)
  BY <1>1
<1>4. nxt = p => a + 1 = q + u
  BY <1>1, <1>2
<1>5. nxt # p => a + 1 = q + n /\ u = 0
  BY <1>1, <1>2
<1>6. nxt # p => (f \in on => b = q + u)
  BY <1>2, <1>5
<1>7. Turns(nxt, u, on, p, f, a + 1, b)
  BY <1>1, <1>2, <1>4, <1>5, <1>6 DEF Turns
<1>8. QED
  BY <1>1, <1>3, <1>7

LEMMA FallbackTurn ==
  ASSUME NEW w, NEW nxt, NEW on, NEW p, NEW f, NEW t \in 0..(N - 1), NEW u,
         NEW a \in Nat, NEW b \in Nat,
         Turns(w, t, on, p, f, a, b), w # p, f \in on,
         IF t + 1 >= N THEN nxt = p /\ u = 0 ELSE nxt # p /\ u = t + 1
  PROVE  Turns(nxt, u, on, p, f, a, b + 1) /\ u \in 0..(N - 1)
<1>1. PICK n \in Nat : n = N /\ n >= 1
  BY NPositive
<1>2. PICK q \in Nat : IsBlock(q) /\ b = q + t /\ (p \in on => a = q + n) /\ (p \notin on => a <= q + n)
  BY <1>1 DEF Turns
<1>3. u \in 0..(n - 1)
  BY <1>1
<1>4. CASE nxt # p
  <2>1. b + 1 = q + u
    BY <1>1, <1>2, <1>4
  <2>2. Turns(nxt, u, on, p, f, a, b + 1)
    BY <1>1, <1>2, <1>4, <2>1 DEF Turns
  <2>3. QED
    BY <1>1, <1>3, <2>2
<1>5. CASE nxt = p
  <2>1. PICK r : r = q + n
    OBVIOUS
  <2>2. IsBlock(r) /\ r \in Nat
    BY <1>1, <1>2, <2>1, Blocks
  <2>3. b + 1 = r /\ u = 0 /\ r + u = r
    BY <1>1, <1>2, <1>5, <2>1, <2>2
  <2>4. Turns(nxt, u, on, p, f, a, b + 1)
    BY <1>2, <1>5, <2>1, <2>2, <2>3 DEF Turns
  <2>5. QED
    BY <1>1, <1>3, <2>4
<1>6. QED
  BY <1>4, <1>5

\* The turn of an input that is drained, or was, is over.
LEMMA PrimaryOver ==
  ASSUME NEW w, NEW nxt, NEW on, NEW rest, NEW p, NEW f, NEW t \in 0..(N - 1),
         NEW a \in Nat, NEW b \in Nat,
         Turns(w, t, on, p, f, a, b), w = p, nxt # p, p \notin rest, f \in rest <=> f \in on
  PROVE  Turns(nxt, 0, rest, p, f, a, b)
<1>1. PICK n \in Nat : n = N /\ n >= 1
  BY NPositive
<1>2. PICK q \in Nat : /\ IsBlock(q) /\ (p \in on => a = q + t) /\ (p \notin on => a <= q)
                       /\ (f \in on => b = q) /\ (f \notin on => b <= q)
  BY DEF Turns
<1>3. a <= q + n /\ q + 0 = q
  BY <1>1, <1>2
<1>4. QED
  BY <1>1, <1>2, <1>3 DEF Turns

LEMMA FallbackOver ==
  ASSUME NEW w, NEW nxt, NEW on, NEW rest, NEW p, NEW f, NEW t \in 0..(N - 1),
         NEW a \in Nat, NEW b \in Nat,
         Turns(w, t, on, p, f, a, b), w # p, nxt = p, f \notin rest, p \in rest <=> p \in on
  PROVE  Turns(nxt, 0, rest, p, f, a, b)
<1>1. PICK n \in Nat : n = N /\ n >= 1
  BY NPositive
<1>2. PICK q \in Nat : /\ IsBlock(q) /\ (p \in on => a = q + n) /\ (p \notin on => a <= q + n)
                       /\ (f \in on => b = q + t) /\ (f \notin on => b <= q)
  BY <1>1 DEF Turns
<1>3. PICK r : r = q + n
  OBVIOUS
<1>4. IsBlock(r) /\ r \in Nat
  BY <1>1, <1>2, <1>3, Blocks
<1>5. b <= r /\ r + 0 = r
  BY <1>1, <1>2, <1>3, <1>4
<1>6. QED
  BY <1>2, <1>3, <1>4, <1>5 DEF Turns

-----------------------------------------------------------------------------
(* What the sources send.                                                  *)

LEMMA AListOf ==
  ASSUME NEW T, NEW n \in Nat, NEW g, g = [i \in 1..n |-> g[i]], \A i \in 1..n : g[i] \in T
  PROVE  g \in Seq(T)
OBVIOUS

LEMMA NilIsNone == Nil \notin Tacs
<1>1. "nil" \notin SNIs
  BY PolicyAssumption DEF SNIs
<1>2. Nil.sni = "nil"
  BY DEF Nil, Tactic
<1>3. QED
  BY <1>1, <1>2 DEF Tacs

LEMMA TacticType ==
  ASSUME NEW x \in Addrs, NEW y \in SNIs
  PROVE  Tactic(x, y) \in Tacs
BY DEF Tactic, Tacs

LEMMA AddrType ==
  /\ \A i \in 1..Len(DNSAddrs) : DNSAddrs[i] \in Addrs
  /\ \A i \in 1..Len(BridgeAddrs) : BridgeAddrs[i] \in Addrs
  /\ Len(DNSAddrs) \in Nat \ {0} /\ Len(BridgeAddrs) \in Nat \ {0}
<1>1. DOMAIN DNSAddrs = 1..Len(DNSAddrs) /\ DOMAIN BridgeAddrs = 1..Len(BridgeAddrs)
  BY PolicyAssumption
<1>2. Len(DNSAddrs) \in Nat \ {0} /\ Len(BridgeAddrs) \in Nat \ {0}
  BY PolicyAssumption
<1>3. QED
  BY <1>1, <1>2 DEF Addrs, ToSet

LEMMA DNSType ==
  ASSUME PolicyTypes, NEW n \in 1..Len(DNSAddrs)
  PROVE  DNSTactics(n) \in Seq(Tacs)
<1>1. n \in Nat /\ \A i \in 1..n : DNSAddrs[i] \in Addrs
  BY AddrType
<1>2. domain \in SNIs
  BY DEF PolicyTypes, SNIs
<1>3. \A i \in 1..n : Tactic(DNSAddrs[i], domain) \in Tacs
  BY <1>1, <1>2, TacticType
<1>4. QED
  BY <1>1, <1>3 DEF DNSTactics

LEMMA OrderType ==
  ASSUME NEW order \in SNIOrders
  PROVE  /\ Cardinality(BridgeSNIs) \in Nat /\ DOMAIN order = 1..Cardinality(BridgeSNIs)
         /\ \A i \in DOMAIN order : order[i] \in SNIs
<1>1. IsFiniteSet(BridgeSNIs) /\ BridgeSNIs \subseteq SNIs
  BY PolicyAssumption DEF SNIs
<1>2. order \in [1..Cardinality(BridgeSNIs) -> BridgeSNIs]
  BY DEF SNIOrders, SetToSeqs
<1>3. Cardinality(BridgeSNIs) \in Nat
  BY <1>1, FS_CardinalityType
<1>4. QED
  BY <1>1, <1>2, <1>3

LEMMA WithSNIsType ==
  ASSUME NEW addr \in Addrs, NEW order \in SNIOrders
  PROVE  WithSNIs(addr, order) \in Seq(Tacs)
<1>1. PICK n \in Nat : DOMAIN order = 1..n
  BY OrderType
<1>2. \A i \in 1..n : Tactic(addr, order[i]) \in Tacs
  BY <1>1, OrderType, TacticType
<1>3. WithSNIs(addr, order) = [i \in 1..n |-> Tactic(addr, order[i])]
  BY <1>1 DEF WithSNIs
<1>4. PICK g : g = WithSNIs(addr, order)
  OBVIOUS
<1>5. g = [i \in 1..n |-> g[i]] /\ \A i \in 1..n : g[i] \in Tacs
  BY <1>2, <1>3, <1>4, Zenon
<1>6. QED
  BY <1>4, <1>5, AListOf

LEMMA BridgesType ==
  ASSUME NEW tactics \in BridgesTactics, domain = "api"
  PROVE  tactics \in Seq(Tacs)
<1>1. PICK n : n = Cardinality(BridgeSNIs)
  OBVIOUS
<1>2. PICK l : l = Len(BridgeAddrs)
  OBVIOUS
<1>3. /\ l \in Nat /\ DOMAIN BridgeAddrs = 1..l /\ \A i \in 1..l : BridgeAddrs[i] \in Addrs
      /\ n \in Nat
  BY <1>1, <1>2, PolicyAssumption, AddrType, FS_CardinalityType
<1> DEFINE A(k) == (k - 1) \div n + 1
           B(k) == ((k - 1) % n) + 1
<1>4. PICK orders \in [DOMAIN BridgeAddrs -> SNIOrders] :
        tactics = [k \in 1..(n * l) |-> Tactic(BridgeAddrs[A(k)], orders[A(k)][B(k)])]
  BY <1>1, <1>2, Zenon DEF BridgesTactics
<1>5. ASSUME NEW k \in 1..(n * l) PROVE A(k) \in 1..l /\ B(k) \in 1..n
  <2>1. n * l \in Nat /\ k \in Nat /\ k >= 1 /\ k <= n * l
    BY <1>3
  <2>2. n # 0
    <3>1. 0 * l = 0
      BY <1>3
    <3>2. QED
      BY <2>1, <3>1
  <2>3. PICK x \in Nat : x = k - 1
    BY <2>1
  <2>4. PICK d : d = x \div n
    OBVIOUS
  <2>5. d \in Nat /\ n * d <= x
    BY <1>3, <2>2, <2>3, <2>4
  <2>6. x % n \in 0..(n - 1)
    BY <1>3, <2>2, <2>3
  <2>7. d < l
    <3>1. ASSUME d >= l PROVE n * d >= n * l
      BY <1>3, <2>5, <3>1
    <3>2. n * d \in Nat
      BY <1>3, <2>5
    <3>3. QED
      BY <1>3, <2>1, <2>3, <2>5, <3>1, <3>2
  <2>8. A(k) = d + 1 /\ B(k) = (x % n) + 1
    BY <2>3, <2>4, Zenon
  <2>9. QED
    BY <1>3, <2>5, <2>6, <2>7, <2>8
<1> HIDE DEF A, B
<1>6. ASSUME NEW k \in 1..(n * l) PROVE Tactic(BridgeAddrs[A(k)], orders[A(k)][B(k)]) \in Tacs
  <2>1. orders[A(k)] \in SNIOrders
    BY <1>3, <1>4, <1>5
  <2>2. orders[A(k)][B(k)] \in SNIs
    BY <1>1, <1>5, <2>1, OrderType
  <2>3. QED
    BY <1>3, <1>5, <2>2, TacticType
<1>7. n * l \in Nat
  BY <1>3
<1>8. QED
  BY <1>4, <1>6, <1>7

LEMMA WorkingType ==
  ASSUME domain \in SNIs, NEW s \in WorkingTactics
  PROVE  s \in Seq(Tacs)
<1>1. DNSAddrs[1] \in Addrs /\ BridgeAddrs[1] \in Addrs
  BY AddrType
<1>2. Tactic(DNSAddrs[1], domain) \in Tacs
  BY <1>1, TacticType
<1>3. \A sni \in BridgeSNIs : Tactic(BridgeAddrs[1], sni) \in Tacs
  BY <1>1, TacticType DEF SNIs
<1>4. << >> \in Seq(Tacs) /\ <<Tactic(DNSAddrs[1], domain)>> \in Seq(Tacs)
  BY <1>2
<1>5. \A sni \in BridgeSNIs : <<Tactic(BridgeAddrs[1], sni), Tactic(DNSAddrs[1], domain)>> \in Seq(Tacs)
  BY <1>2, <1>3
<1>6. QED
  BY <1>4, <1>5 DEF WorkingTactics

\* Of what the user wrote, which begins with null if it is not empty, the rest is kept.
LEMMA UserType ==
  ASSUME NEW list, NEW n \in {0, 1, 3}, Len(list) = n, n > 0 => list[1] = Nil,
         NEW u \in Tacs, n = 3 => list[2] = u /\ list[3] = u
  PROVE  userPolicyRemoveNilEntries(list) \in Seq(Tacs)
<1> DEFINE Loop(g) == [i \in 0..n |->
             IF i = 0 THEN << >>
             ELSE IF list[i] # Nil THEN Append(g[i - 1], list[i]) ELSE g[i - 1]]
           h == [i \in 0..n |-> IF i <= 1 THEN << >>
                                ELSE IF i = 2 THEN Append(<< >>, u) ELSE Append(Append(<< >>, u), u)]
           f == CHOOSE g : g = Loop(g)
<1>1. u # Nil
  BY NilIsNone
<1>2. h = Loop(h)
  <2>1. ASSUME NEW i \in 0..n
        PROVE  h[i] = IF i = 0 THEN << >>
                      ELSE IF list[i] # Nil THEN Append(h[i - 1], list[i]) ELSE h[i - 1]
    <3>1. i = 0 \/ i = 1 \/ (n = 3 /\ (i = 2 \/ i = 3))
      OBVIOUS
    <3>2. CASE i = 0
      BY <3>2
    <3>3. CASE i = 1
      BY <3>3
    <3>4. CASE n = 3 /\ i = 2
      BY <1>1, <3>4
    <3>5. CASE n = 3 /\ i = 3
      BY <1>1, <3>5
    <3>6. QED
      BY <3>1, <3>2, <3>3, <3>4, <3>5
  <2>2. h = [i \in 0..n |-> h[i]]
    OBVIOUS
  <2> HIDE DEF h
  <2>3. [i \in 0..n |-> h[i]] = Loop(h)
    BY <2>1
  <2>4. QED
    BY <2>2, <2>3
<1>3. f = Loop(f)
  <2> HIDE DEF Loop, h
  <2> QED BY <1>2, Zenon
<1>4. userPolicyRemoveNilEntries(list) = f[n]
  BY Zenon DEF userPolicyRemoveNilEntries
<1> HIDE DEF f
<1>5. \A i \in 0..n : f[i] = IF i = 0 THEN << >>
                             ELSE IF list[i] # Nil THEN Append(f[i - 1], list[i]) ELSE f[i - 1]
  BY <1>3
<1>6. f[0] = << >>
  BY <1>5
<1>7. n = 1 => f[1] = << >>
  BY <1>5, <1>6
<1>8. n = 3 => f[3] = Append(Append(<< >>, u), u)
  <2> SUFFICES ASSUME n = 3 PROVE f[3] = Append(Append(<< >>, u), u)
    OBVIOUS
  <2>1. f[1] = << >>
    BY <1>5, <1>6
  <2>2. list[2] # Nil /\ list[2] = u /\ list[3] # Nil /\ list[3] = u
    BY <1>1
  <2>3. 2 \in 0..n /\ 3 \in 0..n /\ 2 - 1 = 1 /\ 3 - 1 = 2 /\ 2 # 0 /\ 3 # 0
    OBVIOUS
  <2>4. f[2] = Append(f[2 - 1], list[2]) /\ f[3] = Append(f[3 - 1], list[3])
    BY <1>5, <2>2, <2>3, Zenon
  <2>5. QED
    BY <2>1, <2>2, <2>3, <2>4, Zenon
<1>9. Append(Append(<< >>, u), u) \in Seq(Tacs) /\ << >> \in Seq(Tacs)
  OBVIOUS
<1>10. QED
  BY <1>4, <1>6, <1>7, <1>8, <1>9

-----------------------------------------------------------------------------
(* Channels.                                                               *)

LEMMA SuffixTail ==
  ASSUME NEW T, NEW t \in Seq(T), NEW s \in Seq(T), Suffix(t, s), t # << >>
  PROVE  /\ Tail(t) \in Seq(T) /\ Suffix(Tail(t), s)
         /\ Len(s) - Len(Tail(t)) = Len(s) - Len(t) + 1
         /\ Len(s) - Len(t) \in Nat /\ Len(s) - Len(t) < Len(s)
         /\ Head(t) = s[Len(s) - Len(t) + 1] /\ Head(t) \in T
<1>1. PICK n \in Nat : n = Len(t)
  OBVIOUS
<1>2. PICK l \in Nat : l = Len(s)
  OBVIOUS
<1>3. n > 0 /\ n <= l
  BY <1>1, <1>2 DEF Suffix
<1>4. PICK r : r = Tail(t)
  OBVIOUS
<1>5. r \in Seq(T) /\ Len(r) = n - 1 /\ \A i \in 1..(n - 1) : r[i] = t[i + 1]
  BY <1>1, <1>4
<1>6. Head(t) = t[1] /\ t[1] \in T
  BY <1>1, <1>3
<1>7. \A i \in 1..n : t[i] = s[l - n + i]
  BY <1>1, <1>2 DEF Suffix
<1>8. \A i \in 1..(n - 1) : r[i] = s[l - (n - 1) + i]
  <2>1. ASSUME NEW i \in 1..(n - 1) PROVE r[i] = s[l - (n - 1) + i]
    <3>1. i + 1 \in 1..n /\ l - n + (i + 1) = l - (n - 1) + i
      OBVIOUS
    <3>2. QED
      BY <1>5, <1>7, <3>1
  <2>2. QED
    BY <2>1
<1>9. Len(r) <= l
  BY <1>3, <1>5
<1>10. Suffix(r, s)
  <2>1. Len(s) - Len(r) = l - (n - 1)
    BY <1>2, <1>5
  <2>2. QED
    BY <1>2, <1>5, <1>8, <1>9, <2>1 DEF Suffix
<1>11. 1 \in 1..n /\ l - n + 1 = l - (n - 1) /\ l - n \in Nat /\ l - n < l
  BY <1>3
<1>12. t[1] = s[l - n + 1]
  BY <1>7, <1>11
<1>13. QED
  BY <1>1, <1>2, <1>4, <1>5, <1>6, <1>10, <1>11, <1>12

LEMMA SuffixNew ==
  ASSUME NEW T, NEW s \in Seq(T), NEW x \in Seq(T)
  PROVE  /\ s \o x \in Seq(T) /\ Suffix(x, s \o x) /\ Len(s \o x) - Len(x) = Len(s)
         /\ Len(s) \in Nat
<1>1. PICK r : r = s \o x
  OBVIOUS
<1>2. /\ r \in Seq(T) /\ Len(r) = Len(s) + Len(x)
      /\ \A k \in 1..Len(x) : r[Len(s) + k] = x[k]
  BY <1>1, Longer
<1>3. Len(s) \in Nat /\ Len(x) \in Nat
  OBVIOUS
<1>4. Len(r) - Len(x) = Len(s) /\ Len(x) <= Len(r)
  BY <1>2, <1>3
<1>5. \A k \in 1..Len(x) : x[k] = r[Len(r) - Len(x) + k]
  BY <1>2, <1>4
<1>6. Suffix(x, r)
  BY <1>4, <1>5 DEF Suffix
<1>7. QED
  BY <1>1, <1>2, <1>3, <1>4, <1>6

\* What is known of a channel
LEMMA FlowOf ==
  ASSUME PolicyTypes, Flow, NEW c \in Chans
  PROVE  /\ todo[c] \in Seq(Tacs) /\ sent[c] \in Seq(Tacs) /\ Len(sent[c]) \in Nat
         /\ Suffix(todo[c], sent[c])
         /\ Got(c) \in 0..Len(sent[c])
         /\ todo[c] = << >> => Got(c) = Len(sent[c])
         /\ c \in shut => todo[c] = << >> /\ Got(c) = Len(sent[c])
         /\ c \notin begun => sent[c] = << >> /\ Got(c) = 0
<1>1. todo[c] \in Seq(Tacs) /\ sent[c] \in Seq(Tacs)
  BY DEF PolicyTypes
<1>2. /\ Suffix(todo[c], sent[c]) /\ (c \in shut => todo[c] = << >>)
      /\ (c \notin begun => sent[c] = << >>)
  BY DEF Flow
<1>3. PICK t : t = todo[c]
  OBVIOUS
<1>4. PICK s : s = sent[c]
  OBVIOUS
<1>5. Got(c) = Len(s) - Len(t)
  BY <1>3, <1>4 DEF Got
<1>6. Len(t) \in Nat /\ Len(s) \in Nat /\ Len(t) <= Len(s)
  BY <1>1, <1>2, <1>3, <1>4 DEF Suffix
<1>7. Len(<< >>) = 0
  OBVIOUS
<1>8. Len(s) - Len(t) \in 0..Len(s) /\ (t = << >> => Len(s) - Len(t) = Len(s))
  BY <1>6, <1>7
<1>9. s = << >> => Len(s) - Len(t) = 0
  BY <1>6, <1>7
<1>10. QED
  BY <1>1, <1>2, <1>3, <1>4, <1>5, <1>6, <1>8, <1>9

\* A channel that is empty
LEMMA Nothing == << >> \in Seq(Tacs) /\ Len(<< >>) = 0
OBVIOUS

LEMMA ReceiveSteady ==
  ASSUME PolicyTypes, Flow, NEW r \in Chans, NEW c \in Chans, r # c,
         NEW tactics \in Seq(Tacs), Receive(r, c, tactics)
  PROVE  /\ Steady /\ begun' = begun /\ shut' = shut /\ r \in begun \ shut
         /\ sent'[r] = sent[r] \o tactics
         /\ \A x \in Chans \ {r} : sent'[x] = sent[x]
         /\ Got(c)' = Got(c) + 1 /\ Got(c) < Len(sent[c]) /\ Got(c) \in Nat
         /\ \A x \in Chans \ {c} : Got(x)' = Got(x)
         /\ Got(r) = Len(sent[r])
         /\ Head(todo[c]) = sent[c][Got(c) + 1] /\ Head(todo[c]) \in Tacs
         /\ c \notin shut
<1>1. /\ todo \in [Chans -> Seq(Tacs)] /\ sent \in [Chans -> Seq(Tacs)]
      /\ begun \subseteq Chans /\ shut \subseteq begun
  BY DEF PolicyTypes
<1>2. /\ r \in begun \ shut /\ todo[r] = << >> /\ todo[c] # << >>
      /\ begun' = begun /\ shut' = shut
  BY DEF Receive, Runs, Sends
<1>3. todo' = [todo EXCEPT ![c] = Tail(todo[c]), ![r] = tactics]
  BY DEF Receive
<1>4. sent' = [sent EXCEPT ![r] = sent[r] \o tactics]
  BY DEF Receive
<1>5. /\ todo[c] \in Seq(Tacs) /\ sent[c] \in Seq(Tacs) /\ Suffix(todo[c], sent[c])
      /\ sent[r] \in Seq(Tacs)
      /\ c \notin shut /\ Got(r) = Len(sent[r])
  BY <1>2, FlowOf
<1>6. /\ Tail(todo[c]) \in Seq(Tacs) /\ Suffix(Tail(todo[c]), sent[c])
      /\ Len(sent[c]) - Len(Tail(todo[c])) = Len(sent[c]) - Len(todo[c]) + 1
      /\ Len(sent[c]) - Len(todo[c]) \in Nat /\ Len(sent[c]) - Len(todo[c]) < Len(sent[c])
      /\ Head(todo[c]) = sent[c][Len(sent[c]) - Len(todo[c]) + 1] /\ Head(todo[c]) \in Tacs
  BY <1>2, <1>5, SuffixTail
<1>7. /\ sent[r] \o tactics \in Seq(Tacs) /\ Suffix(tactics, sent[r] \o tactics)
      /\ Len(sent[r] \o tactics) - Len(tactics) = Len(sent[r])
  BY <1>5, SuffixNew
<1>8. PICK tc : tc = Tail(todo[c])
  OBVIOUS
<1>9. PICK sr : sr = sent[r] \o tactics
  OBVIOUS
<1>10. todo' \in [Chans -> Seq(Tacs)] /\ sent' \in [Chans -> Seq(Tacs)]
  BY <1>1, <1>3, <1>4, <1>6, <1>7, <1>8, <1>9
<1>11. /\ todo'[c] = tc /\ todo'[r] = tactics /\ sent'[r] = sr
       /\ \A x \in Chans \ {r} : sent'[x] = sent[x]
       /\ \A x \in Chans \ {r, c} : todo'[x] = todo[x]
  BY <1>1, <1>3, <1>4, <1>8, <1>9
<1>12. sent'[c] = sent[c]
  BY <1>11
<1>13. ASSUME NEW x \in Chans
       PROVE  /\ Suffix(todo'[x], sent'[x])
              /\ x \in shut' => todo'[x] = << >>
              /\ x \notin begun' => sent'[x] = << >>
  <2>1. CASE x = c
    BY <1>2, <1>5, <1>6, <1>8, <1>11, <1>12, <2>1 DEF Flow
  <2>2. CASE x = r
    BY <1>2, <1>7, <1>9, <1>11, <2>2
  <2>3. CASE x # c /\ x # r
    BY <1>2, <1>11, <2>3 DEF Flow
  <2>4. QED
    BY <2>1, <2>2, <2>3
<1>14. Flow'
  BY <1>13 DEF Flow
<1>15. \A x \in Chans : Grows(x)
  BY <1>2, <1>9, <1>11 DEF Grows
<1>16. Steady
  BY <1>1, <1>2, <1>10, <1>14, <1>15 DEF Steady
<1>17. Got(c)' = Len(sent'[c]) - Len(todo'[c]) /\ Got(c) = Len(sent[c]) - Len(todo[c])
  BY DEF Got
<1>18. \A x \in Chans \ {r, c} : Got(x)' = Got(x)
  BY <1>11 DEF Got
<1>19. Got(r)' = Len(sr) - Len(tactics)
  BY <1>11 DEF Got
<1>20. Got(r)' = Got(r)
  BY <1>5, <1>7, <1>9, <1>19
<1>21. \A x \in Chans \ {c} : Got(x)' = Got(x)
  BY <1>18, <1>20
<1>22. Got(c)' = Len(sent[c]) - Len(tc)
  BY <1>11, <1>12, <1>17
<1>23. /\ Got(c)' = Got(c) + 1 /\ Got(c) < Len(sent[c]) /\ Got(c) \in Nat
       /\ Head(todo[c]) = sent[c][Got(c) + 1]
  BY <1>6, <1>8, <1>17, <1>22
<1>24. QED
  BY <1>2, <1>5, <1>6, <1>9, <1>11, <1>16, <1>21, <1>23

LEMMA ProduceSteady ==
  ASSUME PolicyTypes, Flow, NEW c \in Chans, NEW tactics \in Seq(Tacs), Runs(c),
         Produce(c, tactics), begun' = begun
  PROVE  /\ Steady /\ shut' = shut /\ c \in begun \ shut
         /\ sent'[c] = sent[c] \o tactics
         /\ \A x \in Chans \ {c} : sent'[x] = sent[x]
         /\ \A x \in Chans : Got(x)' = Got(x)
<1>1. /\ todo \in [Chans -> Seq(Tacs)] /\ sent \in [Chans -> Seq(Tacs)]
      /\ begun \subseteq Chans /\ shut \subseteq begun
  BY DEF PolicyTypes
<1>2. c \in begun \ shut /\ todo[c] = << >> /\ shut' = shut
  BY DEF Produce, Runs
<1>3. todo' = [todo EXCEPT ![c] = tactics]
  BY DEF Produce
<1>4. sent' = [sent EXCEPT ![c] = sent[c] \o tactics]
  BY DEF Produce
<1>5. sent[c] \in Seq(Tacs) /\ Got(c) = Len(sent[c])
  BY <1>2, FlowOf
<1>6. /\ sent[c] \o tactics \in Seq(Tacs) /\ Suffix(tactics, sent[c] \o tactics)
      /\ Len(sent[c] \o tactics) - Len(tactics) = Len(sent[c])
  BY <1>5, SuffixNew
<1>7. PICK s : s = sent[c] \o tactics
  OBVIOUS
<1>8. todo' \in [Chans -> Seq(Tacs)] /\ sent' \in [Chans -> Seq(Tacs)]
  BY <1>1, <1>3, <1>4, <1>6, <1>7
<1>9. /\ todo'[c] = tactics /\ sent'[c] = s
      /\ \A x \in Chans \ {c} : sent'[x] = sent[x] /\ todo'[x] = todo[x]
  BY <1>1, <1>3, <1>4, <1>7
<1>10. ASSUME NEW x \in Chans
       PROVE  /\ Suffix(todo'[x], sent'[x])
              /\ x \in shut' => todo'[x] = << >>
              /\ x \notin begun' => sent'[x] = << >>
  <2>1. CASE x = c
    BY <1>2, <1>6, <1>7, <1>9, <2>1
  <2>2. CASE x # c
    BY <1>2, <1>9, <2>2 DEF Flow
  <2>3. QED
    BY <2>1, <2>2
<1>11. Flow'
  BY <1>10 DEF Flow
<1>12. \A x \in Chans : Grows(x)
  BY <1>2, <1>7, <1>9 DEF Grows
<1>13. Steady
  BY <1>1, <1>2, <1>8, <1>11, <1>12 DEF Steady
<1>14. \A x \in Chans \ {c} : Got(x)' = Got(x)
  BY <1>9 DEF Got
<1>15. Got(c)' = Len(s) - Len(tactics)
  BY <1>9 DEF Got
<1>16. Got(c)' = Got(c)
  BY <1>5, <1>6, <1>7, <1>15
<1>17. QED
  BY <1>2, <1>7, <1>9, <1>13, <1>14, <1>16

LEMMA CloseSteady ==
  ASSUME PolicyTypes, Flow, NEW c \in Chans, Runs(c), CloseChan(c)
  PROVE  /\ Steady /\ begun' = begun /\ shut' = shut \cup {c}
         /\ \A x \in Chans : sent'[x] = sent[x] /\ Got(x)' = Got(x)
<1>1. /\ todo \in [Chans -> Seq(Tacs)] /\ sent \in [Chans -> Seq(Tacs)]
      /\ begun \subseteq Chans /\ shut \subseteq begun
  BY DEF PolicyTypes
<1>2. /\ c \in begun \ shut /\ todo[c] = << >> /\ shut' = shut \cup {c}
      /\ begun' = begun /\ todo' = todo /\ sent' = sent
  BY DEF CloseChan, Runs
<1>3. Flow'
  BY <1>2 DEF Flow
<1>4. \A x \in Chans : Grows(x) /\ sent'[x] = sent[x] /\ Got(x)' = Got(x)
  BY <1>2 DEF Grows, Got
<1>5. QED
  BY <1>1, <1>2, <1>3, <1>4 DEF Steady

LEMMA StartSteady ==
  ASSUME PolicyTypes, Flow, NEW cs \in SUBSET Chans, begun' = begun \cup cs,
         todo' = todo, sent' = sent, shut' = shut
  PROVE  Steady /\ \A x \in Chans : sent'[x] = sent[x] /\ Got(x)' = Got(x)
<1>1. /\ todo \in [Chans -> Seq(Tacs)] /\ sent \in [Chans -> Seq(Tacs)]
      /\ begun \subseteq Chans /\ shut \subseteq begun
  BY DEF PolicyTypes
<1>2. Flow'
  BY DEF Flow
<1>3. \A x \in Chans : Grows(x) /\ sent'[x] = sent[x] /\ Got(x)' = Got(x)
  BY DEF Grows, Got
<1>4. QED
  BY <1>1, <1>2, <1>3 DEF Steady

LEMMA TakeSteady ==
  ASSUME PolicyTypes, Flow, NEW c \in Chans, Sends(c), todo' = [todo EXCEPT ![c] = Tail(todo[c])],
         begun' = begun, sent' = sent, shut' = shut
  PROVE  /\ Steady /\ Got(c)' = Got(c) + 1 /\ Got(c) < Len(sent[c]) /\ Got(c) \in Nat
         /\ Head(todo[c]) = sent[c][Got(c) + 1] /\ Head(todo[c]) \in Tacs
         /\ \A x \in Chans \ {c} : Got(x)' = Got(x)
<1>1. /\ todo \in [Chans -> Seq(Tacs)] /\ sent \in [Chans -> Seq(Tacs)]
      /\ begun \subseteq Chans /\ shut \subseteq begun
  BY DEF PolicyTypes
<1>2. todo[c] # << >>
  BY DEF Sends
<1>3. todo[c] \in Seq(Tacs) /\ sent[c] \in Seq(Tacs) /\ Suffix(todo[c], sent[c]) /\ c \notin shut
  BY <1>2, FlowOf
<1>4. /\ Tail(todo[c]) \in Seq(Tacs) /\ Suffix(Tail(todo[c]), sent[c])
      /\ Len(sent[c]) - Len(Tail(todo[c])) = Len(sent[c]) - Len(todo[c]) + 1
      /\ Len(sent[c]) - Len(todo[c]) \in Nat /\ Len(sent[c]) - Len(todo[c]) < Len(sent[c])
      /\ Head(todo[c]) = sent[c][Len(sent[c]) - Len(todo[c]) + 1] /\ Head(todo[c]) \in Tacs
  BY <1>2, <1>3, SuffixTail
<1>5. PICK tc : tc = Tail(todo[c])
  OBVIOUS
<1>6. todo' \in [Chans -> Seq(Tacs)] /\ sent' \in [Chans -> Seq(Tacs)]
  BY <1>1, <1>4, <1>5
<1>7. todo'[c] = tc /\ \A x \in Chans \ {c} : todo'[x] = todo[x]
  BY <1>1, <1>5
<1>8. ASSUME NEW x \in Chans
      PROVE  /\ Suffix(todo'[x], sent'[x])
             /\ x \in shut' => todo'[x] = << >>
             /\ x \notin begun' => sent'[x] = << >>
  <2>1. CASE x = c
    BY <1>3, <1>4, <1>5, <1>7, <2>1 DEF Flow
  <2>2. CASE x # c
    BY <1>7, <2>2 DEF Flow
  <2>3. QED
    BY <2>1, <2>2
<1>9. Flow'
  BY <1>8 DEF Flow
<1>10. \A x \in Chans : Grows(x)
  BY DEF Grows
<1>11. Steady
  BY <1>1, <1>6, <1>9, <1>10 DEF Steady
<1>12. \A x \in Chans \ {c} : Got(x)' = Got(x)
  BY <1>7 DEF Got
<1>13. Got(c)' = Len(sent[c]) - Len(tc) /\ Got(c) = Len(sent[c]) - Len(todo[c])
  BY <1>7 DEF Got
<1>14. QED
  BY <1>4, <1>5, <1>11, <1>12, <1>13

\* What a channel was to send is at the beginning of what it is to send.
LEMMA KeptFront ==
  ASSUME PolicyTypes, Steady, NEW c \in Chans, Grows(c)
  PROVE  /\ Len(sent[c]) \in Nat /\ Len(sent'[c]) \in Nat /\ Len(sent[c]) <= Len(sent'[c])
         /\ \A i \in 1..Len(sent[c]) : sent'[c][i] = sent[c][i]
<1>1. sent[c] \in Seq(Tacs) /\ sent'[c] \in Seq(Tacs)
  BY DEF PolicyTypes, Steady
<1>2. Len(sent[c]) \in Nat /\ Len(sent'[c]) \in Nat
  BY <1>1
<1>3. CASE sent'[c] = sent[c]
  BY <1>2, <1>3
<1>4. CASE \E x \in Seq(Tacs) : sent'[c] = sent[c] \o x
  <2>1. PICK x \in Seq(Tacs) : sent'[c] = sent[c] \o x
    BY <1>4
  <2>2. PICK s : s = sent'[c]
    OBVIOUS
  <2>3. Len(s) = Len(sent[c]) + Len(x) /\ \A k \in 1..Len(sent[c]) : s[k] = sent[c][k]
    BY <1>1, <2>1, <2>2, Longer
  <2>4. Len(x) \in Nat
    OBVIOUS
  <2>5. QED
    BY <1>2, <2>2, <2>3, <2>4
<1>5. QED
  BY <1>3, <1>4 DEF Grows

-----------------------------------------------------------------------------
(* The mixers.                                                             *)

LEMMA MixChans ==
  ASSUME NEW m \in Mixers
  PROVE  /\ m \in Chans /\ Primary(m) \in Chans /\ Fallback(m) \in Chans
         /\ m # Primary(m) /\ m # Fallback(m) /\ Primary(m) # Fallback(m)
         /\ Inputs(m) = {Primary(m), Fallback(m)}
BY DEF Mixers, Chans, Composed, Primary, Fallback, Inputs

\* Steps of the others: the inputs of a mixer may be to send more.
LEMMA MixKept ==
  ASSUME PolicyTypes, Flow, Steady, NEW m \in Mixers, MixInv(m),
         turn'[m] = turn[m], taken'[m] = taken[m], alive'[m] = alive[m],
         Got(Primary(m))' = Got(Primary(m)), Got(Fallback(m))' = Got(Fallback(m)),
         sent'[m] = sent[m], m \in shut' => alive[m] = {}
  PROVE  MixInv(m)'
<1>1. PICK p : p = Primary(m)
  OBVIOUS
<1>2. PICK f : f = Fallback(m)
  OBVIOUS
<1>3. p \in Chans /\ f \in Chans
  BY <1>1, <1>2, MixChans
<1>4. PICK a : a = Got(p)
  OBVIOUS
<1>5. PICK b : b = Got(f)
  OBVIOUS
<1>6. /\ a \in 0..Len(sent[p]) /\ sent[p] \in Seq(Tacs)
      /\ b \in 0..Len(sent[f]) /\ sent[f] \in Seq(Tacs)
  BY <1>3, <1>4, <1>5, FlowOf
<1>7. PICK cp \in BOOLEAN : cp <=> p \in shut
  OBVIOUS
<1>8. PICK cf \in BOOLEAN : cf <=> f \in shut
  OBVIOUS
<1>9. Placed(sent[p], a, sent[f], b, sent[m], cp, cf)
  <2>1. Placed(sent[p], a, sent[f], b, sent[m], p \in shut, f \in shut)
    BY <1>1, <1>2, <1>4, <1>5, Zenon DEF MixInv
  <2>2. QED
    BY <1>7, <1>8, <2>1 DEF Placed
<1>10. Placed(sent'[p], a, sent[f], b, sent[m], cp, cf) /\ sent'[p] \in Seq(Tacs)
       /\ a \in 0..Len(sent'[p])
  <2>1. Grows(p) /\ sent'[p] \in Seq(Tacs)
    BY <1>3 DEF Steady
  <2>2. a \in 0..Len(sent'[p])
    BY <1>3, <1>6, <2>1, KeptFront
  <2>3. CASE sent'[p] = sent[p]
    BY <1>9, <2>1, <2>2, <2>3
  <2>4. CASE p \notin shut /\ \E x \in Seq(Tacs) : sent'[p] = sent[p] \o x
    <3>1. PICK x \in Seq(Tacs) : sent'[p] = sent[p] \o x
      BY <2>4
    <3>2. ~ cp
      BY <1>7, <2>4
    <3>3. Placed(sent[p] \o x, a, sent[f], b, sent[m], cp, cf)
      BY <1>6, <1>9, <3>2, PrimaryGrows
    <3>4. QED
      BY <2>1, <2>2, <3>1, <3>3
  <2>5. QED
    BY <2>1, <2>3, <2>4 DEF Grows
<1>11. Placed(sent'[p], a, sent'[f], b, sent[m], cp, cf)
  <2>1. Grows(f)
    BY <1>3 DEF Steady
  <2>2. CASE sent'[f] = sent[f]
    BY <1>10, <2>2
  <2>3. CASE f \notin shut /\ \E x \in Seq(Tacs) : sent'[f] = sent[f] \o x
    <3>1. PICK x \in Seq(Tacs) : sent'[f] = sent[f] \o x
      BY <2>3
    <3>2. ~ cf
      BY <1>8, <2>3
    <3>3. PICK s : s = sent'[p]
      OBVIOUS
    <3>4. Placed(s, a, sent[f] \o x, b, sent[m], cp, cf)
      BY <1>6, <1>10, <3>2, <3>3, FallbackGrows
    <3>5. QED
      BY <3>1, <3>3, <3>4
  <2>4. QED
    BY <2>1, <2>2, <2>3 DEF Grows
<1>12. Placed(sent'[p], a, sent'[f], b, sent'[m], p \in shut', f \in shut')
  <2>1. (cp => p \in shut') /\ (cf => f \in shut')
    BY <1>7, <1>8 DEF Steady
  <2>2. QED
    BY <1>11, <2>1 DEF Placed
<1>13. Placed(sent'[Primary(m)], Got(Primary(m))', sent'[Fallback(m)], Got(Fallback(m))', sent'[m],
              Primary(m) \in shut', Fallback(m) \in shut')
  BY <1>1, <1>2, <1>4, <1>5, <1>12, Zenon
<1>14. Turns(turn[m], taken[m], alive[m], Primary(m), Fallback(m),
             Got(Primary(m)), Got(Fallback(m)))
  BY Zenon DEF MixInv
<1>15. Turns(turn'[m], taken'[m], alive'[m], Primary(m), Fallback(m),
             Got(Primary(m))', Got(Fallback(m))')
  BY <1>14, Zenon
<1>16. /\ alive'[m] \subseteq Inputs(m) /\ turn'[m] \in Inputs(m) /\ taken'[m] \in 0..(N - 1)
       /\ Primary(m) \in alive'[m] \/ Primary(m) \in shut'
       /\ Fallback(m) \in alive'[m] \/ Fallback(m) \in shut'
       /\ m \in shut' => alive'[m] = {}
  <2>1. shut \subseteq shut'
    BY DEF Steady
  <2>2. QED
    BY <2>1, Zenon DEF MixInv
<1>17. QED
  BY <1>13, <1>15, <1>16, Zenon DEF MixInv

\* It is the turn of the other input.
LEMMA TurnSwitched ==
  ASSUME PolicyTypes, NEW m \in Mixers, turn[m] \in Inputs(m), SwitchTurn(m)
  PROVE  /\ turn'[m] \in Inputs(m) /\ taken'[m] = 0
         /\ turn'[m] = Primary(m) <=> turn[m] # Primary(m)
         /\ \A o \in Mixers \ {m} : turn'[o] = turn[o] /\ taken'[o] = taken[o]
         /\ turn' \in [Mixers -> Chans] /\ taken' \in [Mixers -> Nat]
<1>1. turn \in [Mixers -> Chans] /\ taken \in [Mixers -> Nat]
  BY DEF PolicyTypes
<1>2. turn' = [turn EXCEPT ![m] = Other(m)] /\ taken' = [taken EXCEPT ![m] = 0]
  BY DEF SwitchTurn
<1>3. /\ Other(m) \in {Primary(m), Fallback(m)}
      /\ Other(m) = Primary(m) <=> turn[m] # Primary(m)
  BY MixChans DEF Other
<1>4. PICK o : o = Other(m)
  OBVIOUS
<1>5. o \in Chans
  BY <1>3, <1>4, MixChans
<1>6. /\ turn' \in [Mixers -> Chans] /\ taken' \in [Mixers -> Nat]
      /\ turn'[m] = o /\ taken'[m] = 0
      /\ \A x \in Mixers \ {m} : turn'[x] = turn[x] /\ taken'[x] = taken[x]
  BY <1>1, <1>2, <1>4, <1>5
<1>7. QED
  BY <1>3, <1>4, <1>6, MixChans

\* A mixer that takes a tactic
LEMMA TurnTaken ==
  ASSUME PolicyTypes, NEW m \in Mixers, turn[m] \in Inputs(m), taken[m] \in 0..(N - 1), MixTakes(m)
  PROVE  /\ turn'[m] \in Inputs(m) /\ alive' = alive
         /\ taken[m] + 1 >= N => /\ turn'[m] = Primary(m) <=> turn[m] # Primary(m)
                                 /\ taken'[m] = 0
         /\ ~(taken[m] + 1 >= N) => turn'[m] = turn[m] /\ taken'[m] = taken[m] + 1
         /\ \A o \in Mixers \ {m} : turn'[o] = turn[o] /\ taken'[o] = taken[o]
         /\ turn' \in [Mixers -> Chans] /\ taken' \in [Mixers -> Nat]
<1>1. turn \in [Mixers -> Chans] /\ taken \in [Mixers -> Nat]
  BY DEF PolicyTypes
<1>2. alive' = alive
  BY DEF MixTakes
<1>3. CASE taken[m] + 1 >= N
  <2>1. SwitchTurn(m)
    BY <1>3, Zenon DEF MixTakes, N
  <2>2. QED
    BY <1>2, <1>3, <2>1, TurnSwitched
<1>4. CASE ~(taken[m] + 1 >= N)
  <2>1. taken' = [taken EXCEPT ![m] = taken[m] + 1] /\ turn' = turn
    BY <1>4, Zenon DEF MixTakes, N
  <2>2. taken[m] + 1 \in Nat
    BY <1>1
  <2>3. /\ taken' \in [Mixers -> Nat] /\ taken'[m] = taken[m] + 1
        /\ \A o \in Mixers \ {m} : taken'[o] = taken[o]
    BY <1>1, <2>1, <2>2
  <2>4. QED
    BY <1>1, <1>2, <1>4, <2>1, <2>3
<1>5. QED
  BY <1>3, <1>4

\* A mixer that takes a tactic of the primary
LEMMA MixTakesPrimary ==
  ASSUME PolicyTypes, Flow, NEW m \in Mixers, MixInv(m), MixTakes(m), turn[m] = Primary(m)
  PROVE  MixInv(m)'
<1>1. PICK p : p = Primary(m)
  OBVIOUS
<1>2. PICK f : f = Fallback(m)
  OBVIOUS
<1>3. /\ m \in Chans /\ p \in Chans /\ f \in Chans /\ m # p /\ m # f /\ p # f
      /\ Inputs(m) = {p, f}
  BY <1>1, <1>2, MixChans
<1>4. /\ p \in alive[m] /\ Receive(m, p, <<Head(todo[p])>>) /\ todo[p] # << >>
  BY <1>1, Zenon DEF MixTakes, Sends
<1>5. Head(todo[p]) \in Tacs
  BY <1>3, <1>4, FlowOf, SuffixTail
<1>6. <<Head(todo[p])>> \in Seq(Tacs)
  BY <1>5
<1>7. /\ shut' = shut
      /\ sent'[m] = sent[m] \o <<Head(todo[p])>> /\ sent'[p] = sent[p] /\ sent'[f] = sent[f]
      /\ Got(p)' = Got(p) + 1 /\ Got(p) < Len(sent[p]) /\ Got(p) \in Nat
      /\ Got(f)' = Got(f) /\ Head(todo[p]) = sent[p][Got(p) + 1] /\ m \notin shut
  <2>1. PICK h : h = Head(todo[p])
    OBVIOUS
  <2>2. <<h>> \in Seq(Tacs) /\ Receive(m, p, <<h>>)
    BY <1>4, <1>6, <2>1, Zenon
  <2>3. /\ shut' = shut /\ m \in begun \ shut
        /\ sent'[m] = sent[m] \o <<h>>
        /\ \A x \in Chans \ {m} : sent'[x] = sent[x]
        /\ Got(p)' = Got(p) + 1 /\ Got(p) < Len(sent[p]) /\ Got(p) \in Nat
        /\ \A x \in Chans \ {p} : Got(x)' = Got(x)
        /\ Head(todo[p]) = sent[p][Got(p) + 1]
    BY <1>3, <2>2, ReceiveSteady, Zenon
  <2>4. m \notin shut /\ {p, f} \subseteq Chans \ {m} /\ f \in Chans \ {p}
    BY <1>3, <2>3
  <2>5. QED
    BY <2>1, <2>3, <2>4, Zenon
<1>8. PICK a : a = Got(p)
  OBVIOUS
<1>9. PICK b : b = Got(f)
  OBVIOUS
<1>10. PICK sp : sp = sent[p]
  OBVIOUS
<1>11. PICK sf : sf = sent[f]
  OBVIOUS
<1>12. PICK sm : sm = sent[m]
  OBVIOUS
<1>13. /\ a \in Nat /\ a < Len(sp) /\ sp \in Seq(Tacs) /\ sf \in Seq(Tacs) /\ sm \in Seq(Tacs)
       /\ b \in 0..Len(sf) /\ (f \in shut => b = Len(sf)) /\ Len(sf) \in Nat
  BY <1>3, <1>7, <1>8, <1>9, <1>10, <1>11, <1>12, FlowOf
<1>14. /\ alive[m] \subseteq {p, f} /\ turn[m] = p /\ taken[m] \in 0..(N - 1)
       /\ f \in alive[m] \/ f \in shut
  BY <1>1, <1>2, <1>3 DEF MixInv
<1>16. PICK cp \in BOOLEAN : cp <=> p \in shut
  OBVIOUS
<1>17. PICK cf \in BOOLEAN : cf <=> f \in shut
  OBVIOUS
<1>18. Placed(sp, a, sf, b, sm, cp, cf)
  <2>1. Placed(sp, a, sf, b, sm, p \in shut, f \in shut)
    BY <1>1, <1>2, <1>8, <1>9, <1>10, <1>11, <1>12, Zenon DEF MixInv
  <2>2. QED
    BY <1>16, <1>17, <2>1 DEF Placed
<1>19. Turns(turn[m], taken[m], alive[m], p, f, a, b)
  BY <1>1, <1>2, <1>8, <1>9, Zenon DEF MixInv
<1>20. b \in Nat /\ b <= Len(sf) /\ (f \notin alive[m] => b = Len(sf)) /\ (f \notin alive[m] => cf)
  BY <1>13, <1>14, <1>17
<1>21. At(a + 1, Len(sf), 0) = a + b + 1 /\ (f \notin alive[m] \/ Before(a + 1, 0) <= Len(sf))
  <2>1. turn[m] = p /\ p \in alive[m] /\ taken[m] \in 0..(N - 1) /\ a \in Nat /\ Len(sf) \in Nat
    BY <1>4, <1>13, <1>14
  <2>2. QED
    BY <1>19, <1>20, <2>1, PrimaryPlace, Zenon
<1>22. Placed(sp, a + 1, sf, b, sm \o <<sp[a + 1]>>, cp, cf)
  BY <1>13, <1>18, <1>20, <1>21, PrimaryTaken
<1>24. turn[m] \in Inputs(m) /\ turn[m] = Primary(m)
  BY <1>1, <1>3, <1>14
<1>25. /\ turn'[m] \in {p, f} /\ alive' = alive
       /\ IF taken[m] + 1 >= N THEN turn'[m] # p /\ taken'[m] = 0
          ELSE turn'[m] = p /\ taken'[m] = taken[m] + 1
  BY <1>1, <1>2, <1>3, <1>14, <1>24, TurnTaken
<1>26. Turns(turn'[m], taken'[m], alive[m], p, f, a + 1, b) /\ taken'[m] \in 0..(N - 1)
  <2>1. PICK u : u = taken'[m]
    OBVIOUS
  <2>2. PICK nxt : nxt = turn'[m]
    OBVIOUS
  <2>3. IF taken[m] + 1 >= N THEN nxt # p /\ u = 0 ELSE nxt = p /\ u = taken[m] + 1
    BY <1>25, <2>1, <2>2, Zenon
  <2>4. Turns(nxt, u, alive[m], p, f, a + 1, b) /\ u \in 0..(N - 1)
    BY <1>4, <1>13, <1>14, <1>19, <1>20, <2>3, PrimaryTurn
  <2>5. QED
    BY <2>1, <2>2, <2>4
<1>27. Turns(turn'[m], taken'[m], alive'[m], p, f, Got(p)', Got(f)')
  BY <1>7, <1>8, <1>9, <1>25, <1>26, Zenon
<1>28. Placed(sent'[p], Got(p)', sent'[f], Got(f)', sent'[m], p \in shut', f \in shut')
  <2>1. Placed(sp, a + 1, sf, b, sm \o <<sp[a + 1]>>, p \in shut', f \in shut')
    BY <1>7, <1>16, <1>17, <1>22 DEF Placed
  <2>2. QED
    BY <1>7, <1>8, <1>9, <1>10, <1>11, <1>12, <2>1, Zenon
<1>29. /\ alive'[m] \subseteq Inputs(m) /\ turn'[m] \in Inputs(m)
       /\ p \in alive'[m] \/ p \in shut'
       /\ f \in alive'[m] \/ f \in shut'
       /\ m \in shut' => alive'[m] = {}
  BY <1>3, <1>4, <1>7, <1>14, <1>25, Zenon
<1>30. QED
  BY <1>1, <1>2, <1>26, <1>27, <1>28, <1>29, Zenon DEF MixInv

LEMMA MixTakesFallback ==
  ASSUME PolicyTypes, Flow, NEW m \in Mixers, MixInv(m), MixTakes(m), turn[m] # Primary(m)
  PROVE  MixInv(m)'
<1>1. PICK p : p = Primary(m)
  OBVIOUS
<1>2. PICK f : f = Fallback(m)
  OBVIOUS
<1>3. /\ m \in Chans /\ p \in Chans /\ f \in Chans /\ m # p /\ m # f /\ p # f
      /\ Inputs(m) = {p, f}
  BY <1>1, <1>2, MixChans
<1>0. turn[m] = f
  BY <1>1, <1>2, <1>3 DEF MixInv
<1>4. /\ f \in alive[m] /\ Receive(m, f, <<Head(todo[f])>>) /\ todo[f] # << >>
  BY <1>0, Zenon DEF MixTakes, Sends
<1>5. Head(todo[f]) \in Tacs
  BY <1>3, <1>4, FlowOf, SuffixTail
<1>6. <<Head(todo[f])>> \in Seq(Tacs)
  BY <1>5
<1>7. /\ shut' = shut
      /\ sent'[m] = sent[m] \o <<Head(todo[f])>> /\ sent'[p] = sent[p] /\ sent'[f] = sent[f]
      /\ Got(f)' = Got(f) + 1 /\ Got(f) < Len(sent[f]) /\ Got(f) \in Nat
      /\ Got(p)' = Got(p) /\ Head(todo[f]) = sent[f][Got(f) + 1] /\ m \notin shut
  <2>1. PICK h : h = Head(todo[f])
    OBVIOUS
  <2>2. <<h>> \in Seq(Tacs) /\ Receive(m, f, <<h>>)
    BY <1>4, <1>6, <2>1, Zenon
  <2>3. /\ shut' = shut /\ m \in begun \ shut
        /\ sent'[m] = sent[m] \o <<h>>
        /\ \A x \in Chans \ {m} : sent'[x] = sent[x]
        /\ Got(f)' = Got(f) + 1 /\ Got(f) < Len(sent[f]) /\ Got(f) \in Nat
        /\ \A x \in Chans \ {f} : Got(x)' = Got(x)
        /\ Head(todo[f]) = sent[f][Got(f) + 1]
    BY <1>3, <2>2, ReceiveSteady, Zenon
  <2>4. m \notin shut /\ {p, f} \subseteq Chans \ {m} /\ p \in Chans \ {f}
    BY <1>3, <2>3
  <2>5. QED
    BY <2>1, <2>3, <2>4, Zenon
<1>8. PICK a : a = Got(p)
  OBVIOUS
<1>9. PICK b : b = Got(f)
  OBVIOUS
<1>10. PICK sp : sp = sent[p]
  OBVIOUS
<1>11. PICK sf : sf = sent[f]
  OBVIOUS
<1>12. PICK sm : sm = sent[m]
  OBVIOUS
<1>13. /\ b \in Nat /\ b < Len(sf) /\ sp \in Seq(Tacs) /\ sf \in Seq(Tacs) /\ sm \in Seq(Tacs)
       /\ a \in 0..Len(sp) /\ (p \in shut => a = Len(sp)) /\ Len(sp) \in Nat
  BY <1>3, <1>7, <1>8, <1>9, <1>10, <1>11, <1>12, FlowOf
<1>14. /\ alive[m] \subseteq {p, f} /\ taken[m] \in 0..(N - 1)
       /\ p \in alive[m] \/ p \in shut
  BY <1>1, <1>2, <1>3 DEF MixInv
<1>16. PICK cp \in BOOLEAN : cp <=> p \in shut
  OBVIOUS
<1>17. PICK cf \in BOOLEAN : cf <=> f \in shut
  OBVIOUS
<1>18. Placed(sp, a, sf, b, sm, cp, cf)
  <2>1. Placed(sp, a, sf, b, sm, p \in shut, f \in shut)
    BY <1>1, <1>2, <1>8, <1>9, <1>10, <1>11, <1>12, Zenon DEF MixInv
  <2>2. QED
    BY <1>16, <1>17, <2>1 DEF Placed
<1>19. Turns(turn[m], taken[m], alive[m], p, f, a, b)
  BY <1>1, <1>2, <1>8, <1>9, Zenon DEF MixInv
<1>20. a \in Nat /\ a <= Len(sp) /\ (p \notin alive[m] => a = Len(sp)) /\ (p \notin alive[m] => cp)
  BY <1>13, <1>14, <1>16
<1>21. At(b + 1, Len(sp), 1) = a + b + 1 /\ (p \notin alive[m] \/ Before(b + 1, 1) <= Len(sp))
  <2>1. turn[m] # p /\ f \in alive[m] /\ taken[m] \in 0..(N - 1) /\ b \in Nat /\ Len(sp) \in Nat
    BY <1>0, <1>3, <1>4, <1>13, <1>14
  <2>2. QED
    BY <1>19, <1>20, <2>1, FallbackPlace, Zenon
<1>22. Placed(sp, a, sf, b + 1, sm \o <<sf[b + 1]>>, cp, cf)
  BY <1>13, <1>18, <1>20, <1>21, FallbackTaken
<1>24. turn[m] \in Inputs(m) /\ turn[m] # Primary(m)
  BY <1>0, <1>1, <1>3
<1>25. /\ turn'[m] \in {p, f} /\ alive' = alive
       /\ IF taken[m] + 1 >= N THEN turn'[m] = p /\ taken'[m] = 0
          ELSE turn'[m] # p /\ taken'[m] = taken[m] + 1
  BY <1>0, <1>1, <1>2, <1>3, <1>14, <1>24, TurnTaken
<1>26. Turns(turn'[m], taken'[m], alive[m], p, f, a, b + 1) /\ taken'[m] \in 0..(N - 1)
  <2>1. PICK u : u = taken'[m]
    OBVIOUS
  <2>2. PICK nxt : nxt = turn'[m]
    OBVIOUS
  <2>3. IF taken[m] + 1 >= N THEN nxt = p /\ u = 0 ELSE nxt # p /\ u = taken[m] + 1
    BY <1>25, <2>1, <2>2, Zenon
  <2>4. Turns(nxt, u, alive[m], p, f, a, b + 1) /\ u \in 0..(N - 1)
    BY <1>0, <1>3, <1>4, <1>13, <1>14, <1>19, <1>20, <2>3, FallbackTurn
  <2>5. QED
    BY <2>1, <2>2, <2>4
<1>27. Turns(turn'[m], taken'[m], alive'[m], p, f, Got(p)', Got(f)')
  BY <1>7, <1>8, <1>9, <1>25, <1>26, Zenon
<1>28. Placed(sent'[p], Got(p)', sent'[f], Got(f)', sent'[m], p \in shut', f \in shut')
  <2>1. Placed(sp, a, sf, b + 1, sm \o <<sf[b + 1]>>, p \in shut', f \in shut')
    BY <1>7, <1>16, <1>17, <1>22 DEF Placed
  <2>2. QED
    BY <1>7, <1>8, <1>9, <1>10, <1>11, <1>12, <2>1, Zenon
<1>29. /\ alive'[m] \subseteq Inputs(m) /\ turn'[m] \in Inputs(m)
       /\ p \in alive'[m] \/ p \in shut'
       /\ f \in alive'[m] \/ f \in shut'
       /\ m \in shut' => alive'[m] = {}
  BY <1>3, <1>4, <1>7, <1>14, <1>25, Zenon
<1>30. QED
  BY <1>1, <1>2, <1>26, <1>27, <1>28, <1>29, Zenon DEF MixInv

\* The turn of an input that has nothing more to send is over.
LEMMA TurnOver ==
  ASSUME PolicyTypes, Flow, NEW m \in Mixers, MixInv(m), SwitchTurn(m), m \notin shut,
         turn[m] \in alive[m] => turn[m] \in shut,
         alive'[m] = alive[m] \ {turn[m]},
         todo' = todo, sent' = sent, shut' = shut
  PROVE  MixInv(m)'
<1>1. PICK p : p = Primary(m)
  OBVIOUS
<1>2. PICK f : f = Fallback(m)
  OBVIOUS
<1>3. p \in Chans /\ f \in Chans /\ p # f /\ Inputs(m) = {p, f}
  BY <1>1, <1>2, MixChans
<1>4. /\ alive[m] \subseteq {p, f} /\ turn[m] \in {p, f} /\ taken[m] \in 0..(N - 1)
      /\ p \in alive[m] \/ p \in shut
      /\ f \in alive[m] \/ f \in shut
  BY <1>1, <1>2, <1>3 DEF MixInv
<1>5. /\ turn'[m] \in {p, f} /\ taken'[m] = 0
      /\ turn'[m] = p <=> turn[m] # p
  BY <1>1, <1>2, <1>3, <1>4, TurnSwitched
<1>6. Got(p)' = Got(p) /\ Got(f)' = Got(f)
  BY DEF Got
<1>7. Got(p) \in Nat /\ Got(f) \in Nat
  BY <1>3, FlowOf
<1>8. PICK a : a = Got(p)
  OBVIOUS
<1>9. PICK b : b = Got(f)
  OBVIOUS
<1>10. PICK nxt : nxt = turn'[m]
  OBVIOUS
<1>11. PICK rest : rest = alive'[m]
  OBVIOUS
<1>12. rest = alive[m] \ {turn[m]} /\ (nxt = p <=> turn[m] # p)
  BY <1>5, <1>10, <1>11
<1>13. a \in Nat /\ b \in Nat /\ taken[m] \in 0..(N - 1)
  BY <1>4, <1>7, <1>8, <1>9
<1>16. Turns(turn[m], taken[m], alive[m], p, f, a, b)
  BY <1>1, <1>2, <1>8, <1>9, Zenon DEF MixInv
<1>17. Turns(nxt, 0, rest, p, f, a, b)
  <2>1. CASE turn[m] = p
    <3>1. nxt # p /\ p \notin rest /\ (f \in rest <=> f \in alive[m])
      BY <1>3, <1>12, <2>1
    <3>2. QED
      BY <1>13, <1>16, <2>1, <3>1, PrimaryOver
  <2>2. CASE turn[m] # p
    <3>1. turn[m] = f
      BY <1>4, <2>2
    <3>2. nxt = p /\ f \notin rest /\ (p \in rest <=> p \in alive[m])
      BY <1>3, <1>12, <2>2, <3>1
    <3>3. QED
      BY <1>13, <1>16, <2>2, <3>2, FallbackOver
  <2>3. QED
    BY <2>1, <2>2
<1>18. Turns(turn'[m], taken'[m], alive'[m], p, f, Got(p)', Got(f)')
  BY <1>5, <1>6, <1>8, <1>9, <1>10, <1>11, <1>17, Zenon
<1>19. Placed(sent'[p], Got(p)', sent'[f], Got(f)', sent'[m], p \in shut', f \in shut')
  <2>1. Placed(sent[p], Got(p), sent[f], Got(f), sent[m], p \in shut, f \in shut)
    BY <1>1, <1>2, Zenon DEF MixInv
  <2>2. QED
    BY <1>6, <2>1, Zenon
<1>20. /\ alive'[m] \subseteq Inputs(m) /\ turn'[m] \in Inputs(m)
       /\ p \in alive'[m] \/ p \in shut'
       /\ f \in alive'[m] \/ f \in shut'
       /\ m \in shut' => alive'[m] = {}
  BY <1>3, <1>4, <1>5
<1>21. taken'[m] \in 0..(N - 1)
  BY <1>5, NPositive
<1>22. QED
  BY <1>1, <1>2, <1>18, <1>19, <1>20, <1>21, Zenon DEF MixInv

-----------------------------------------------------------------------------
(* The either-or policy and the filters.                                   *)

LEMMA DedupedGrows ==
  ASSUME NEW u, NEW s, NEW r, NEW g \in Nat, NEW ss, Deduped(u, s, g, ss),
         \A i \in 1..g : r[i] = s[i]
  PROVE  Deduped(u, r, g, ss)
BY DEF Deduped

\* The next element is not new.
LEMMA DedupedOld ==
  ASSUME NEW u \in Seq(Tacs), NEW s, NEW g \in Nat, NEW ss, Deduped(u, s, g, ss), s[g + 1] \in ss
  PROVE  Deduped(u, s, g + 1, ss \cup {s[g + 1]})
<1>1. PICK t : t = s[g + 1]
  OBVIOUS
<1>2. PICK h : h = g + 1
  OBVIOUS
<1>3. ss \cup {t} = ss /\ ss = ToSet(u)
  BY <1>1 DEF Deduped
<1>4. DOMAIN u = 1..Len(u) /\ Len(u) \in Nat
  OBVIOUS
<1>5. PICK k \in 1..Len(u) : u[k] = t
  BY <1>1, <1>3, <1>4 DEF ToSet
<1>6. Len(u) <= h /\ k <= h
  BY <1>2, <1>4 DEF Deduped
<1>7. \A j \in 1..h : j \in 1..g \/ j = h
  BY <1>2
<1>8. \A j \in 1..g : j \in 1..h
  BY <1>2
<1>9. \A j \in 1..h : \E i \in 1..Len(u) : i <= j /\ u[i] = s[j]
  <2>1. \A j \in 1..g : \E i \in 1..Len(u) : i <= j /\ u[i] = s[j]
    BY DEF Deduped
  <2>2. \E i \in 1..Len(u) : i <= h /\ u[i] = s[h]
    BY <1>1, <1>2, <1>5, <1>6
  <2>3. QED
    BY <1>7, <2>1, <2>2, Zenon
<1>10. \A i \in 1..Len(u) : \E j \in 1..h : u[i] = s[j]
  <2>1. \A i \in 1..Len(u) : \E j \in 1..g : u[i] = s[j]
    BY DEF Deduped
  <2>2. QED
    BY <1>8, <2>1, Zenon
<1>11. Deduped(u, s, h, ss)
  BY <1>3, <1>6, <1>9, <1>10 DEF Deduped
<1>12. QED
  BY <1>1, <1>2, <1>3, <1>11

\* The next element is new.
LEMMA DedupedNew ==
  ASSUME NEW u \in Seq(Tacs), NEW s, NEW g \in Nat, NEW ss, Deduped(u, s, g, ss),
         s[g + 1] \notin ss, s[g + 1] \in Tacs
  PROVE  Deduped(u \o <<s[g + 1]>>, s, g + 1, ss \cup {s[g + 1]})
<1>1. PICK t : t = s[g + 1]
  OBVIOUS
<1>2. PICK h : h = g + 1
  OBVIOUS
<1>3. PICK v : v = u \o <<t>>
  OBVIOUS
<1>4. PICK l : l = Len(u)
  OBVIOUS
<1>5. /\ v \in Seq(Tacs) /\ Len(v) = l + 1 /\ v[l + 1] = t
      /\ \A k \in 1..l : v[k] = u[k]
  BY <1>1, <1>3, <1>4, OneMore
<1>6. l \in Nat /\ DOMAIN u = 1..l
  BY <1>4
<1>7. DOMAIN v = 1..(l + 1)
  BY <1>5
<1>8. PICK e : e = l + 1
  OBVIOUS
<1>9. /\ DOMAIN v = 1..e /\ Len(v) = e /\ v[e] = t
      /\ \A k \in 1..e : k \in 1..l \/ k = e
      /\ \A k \in 1..l : k \in 1..e
      /\ e \in 1..e /\ l <= g /\ e <= h
  BY <1>2, <1>4, <1>5, <1>6, <1>7, <1>8 DEF Deduped
<1>10. /\ \A j \in 1..h : j \in 1..g \/ j = h
       /\ \A j \in 1..g : j \in 1..h
       /\ h \in 1..h /\ s[h] = t
  BY <1>1, <1>2
<1>11. ss = ToSet(u)
  BY DEF Deduped
<1>12. ss \cup {t} = ToSet(v)
  BY <1>5, <1>6, <1>9, <1>11 DEF ToSet
<1>13. \A k \in 1..l : v[k] # t
  BY <1>1, <1>5, <1>6, <1>11 DEF ToSet
<1>14. \A i, j \in 1..e : v[i] = v[j] => i = j
  <2>1. \A i, j \in 1..l : v[i] = v[j] => i = j
    BY <1>4, <1>5 DEF Deduped
  <2>2. QED
    BY <1>9, <1>13, <2>1, Zenon
<1>15. \A j \in 1..h : \E i \in 1..e : i <= j /\ v[i] = s[j]
  <2>1. \A j \in 1..g : \E i \in 1..l : i <= j /\ v[i] = s[j]
    BY <1>4, <1>5 DEF Deduped
  <2>2. \A j \in 1..g : \E i \in 1..e : i <= j /\ v[i] = s[j]
    BY <1>9, <2>1, Zenon
  <2>3. \E i \in 1..e : i <= h /\ v[i] = s[h]
    BY <1>9, <1>10, Zenon
  <2>4. QED
    BY <1>10, <2>2, <2>3, Zenon
<1>16. \A i \in 1..e : \E j \in 1..h : v[i] = s[j]
  <2>1. \A i \in 1..l : \E j \in 1..g : v[i] = s[j]
    <3>1. \A i \in 1..l : \E j \in 1..g : u[i] = s[j]
      BY <1>4 DEF Deduped
    <3>2. QED
      BY <1>5, <3>1, Zenon
  <2>2. \A i \in 1..l : \E j \in 1..h : v[i] = s[j]
    BY <1>10, <2>1, Zenon
  <2>3. \E j \in 1..h : v[e] = s[j]
    BY <1>9, <1>10, Zenon
  <2>4. QED
    BY <1>9, <2>2, <2>3, Zenon
<1>17. Deduped(v, s, h, ss \cup {t})
  BY <1>9, <1>12, <1>14, <1>15, <1>16 DEF Deduped
<1>18. QED
  BY <1>1, <1>2, <1>3, <1>17

LEMMA RootType == Root \in Chans /\ Root \in {"outer", "either"}
BY DEF Root, Chans, Composed, Mixers

LEMMA TheChans ==
  /\ {"user", "either", "nonnil", "uniq", "outer", "inner", "ext", "dns", "stats", "bridges"} = Chans
  /\ Mixers = {"inner", "outer"}
  /\ Primary("inner") = "stats" /\ Fallback("inner") = "bridges"
  /\ Primary("outer") = "ext" /\ Fallback("outer") = "inner"
BY DEF Chans, Composed, Mixers, Primary, Fallback

\* What was received from a channel is not changed by what it is to send now.
LEMMA KeptGot ==
  ASSUME PolicyTypes, Flow, Steady, NEW c \in Chans
  PROVE  \A i \in 1..Got(c) : i \in 1..Len(sent[c]) /\ sent'[c][i] = sent[c][i]
<1>1. Got(c) \in 0..Len(sent[c]) /\ Len(sent[c]) \in Nat
  BY FlowOf
<1>2. Grows(c)
  BY DEF Steady
<1>3. \A i \in 1..Len(sent[c]) : sent'[c][i] = sent[c][i]
  BY <1>2, KeptFront
<1>4. \A i \in 1..Got(c) : i \in 1..Len(sent[c])
  BY <1>1
<1>5. QED
  BY <1>3, <1>4

LEMMA EitherKept ==
  ASSUME PolicyTypes, Flow, Steady, EitherInv, user' = user, count' = count,
         Got("user")' = Got("user"), Got("outer")' = Got("outer"),
         sent'["either"] = sent["either"], sent'["user"] = sent["user"],
         "outer" \in begun' <=> "outer" \in begun,
         "user" \in begun' <=> "user" \in begun,
         "either" \in begun' <=> "either" \in begun,
         "either" \in shut' => "either" \in shut
  PROVE  EitherInv'
<1>1. shut \subseteq shut'
  BY DEF Steady
<1>2. \A i \in 1..Got("outer") : sent'["outer"][i] = sent["outer"][i]
  BY KeptGot, TheChans
<1>3. user = << >> => begun' \cap {"user", "either"} = {}
  BY DEF EitherInv
<1>4. ASSUME user # << >>
      PROVE  /\ count' = Got("user")'
             /\ "outer" \in begun' => "user" \in shut' /\ count' = 0
             /\ Len(sent'["either"]) = Got("user")' + Got("outer")'
             /\ \A i \in 1..Got("user")' : sent'["either"][i] = sent'["user"][i]
             /\ \A i \in 1..Got("outer")' : sent'["either"][i] = sent'["outer"][i]
             /\ "either" \in shut' => "user" \in shut' /\ (count' > 0 \/ "outer" \in shut')
  <2>1. /\ count = Got("user")
        /\ "outer" \in begun => "user" \in shut /\ count = 0
        /\ Len(sent["either"]) = Got("user") + Got("outer")
        /\ \A i \in 1..Got("user") : sent["either"][i] = sent["user"][i]
        /\ \A i \in 1..Got("outer") : sent["either"][i] = sent["outer"][i]
        /\ "either" \in shut => "user" \in shut /\ (count > 0 \/ "outer" \in shut)
    BY <1>4, Zenon DEF EitherInv
  <2>2. \A i \in 1..Got("outer") : sent'["either"][i] = sent'["outer"][i]
    BY <1>2, <2>1
  <2>3. QED
    BY <1>1, <2>1, <2>2
<1>5. QED
  BY <1>3, <1>4, Zenon DEF EitherInv

LEMMA FilterKept ==
  ASSUME PolicyTypes, Flow, Steady, FilterInv, user' = user,
         Got(Root)' = Got(Root), sent'["nonnil"] = sent["nonnil"],
         "nonnil" \in shut' => "nonnil" \in shut, "uniq" \in shut' => "uniq" \in shut
  PROVE  FilterInv'
<1>1. Root' = Root
  BY DEF Root
<1>2. shut \subseteq shut'
  BY DEF Steady
<1>3. \A i \in 1..Got(Root) : sent'[Root][i] = sent[Root][i]
  BY KeptGot, RootType
<1>4. /\ Len(sent["nonnil"]) = Got(Root)
      /\ \A i \in 1..Got(Root) : sent["nonnil"][i] = sent[Root][i]
      /\ "nonnil" \in shut => Root \in shut
      /\ "uniq" \in shut => "nonnil" \in shut
  BY DEF FilterInv
<1>5. \A i \in 1..Got(Root) : sent'["nonnil"][i] = sent'[Root][i]
  BY <1>3, <1>4
<1>6. /\ Len(sent'["nonnil"]) = Got(Root)'
      /\ \A i \in 1..Got(Root)' : sent'["nonnil"][i] = sent'[Root][i]
      /\ "nonnil" \in shut' => Root \in shut'
      /\ "uniq" \in shut' => "nonnil" \in shut'
  BY <1>2, <1>4, <1>5
<1>7. QED
  BY <1>1, <1>6, Zenon DEF FilterInv

LEMMA UniqueKept ==
  ASSUME PolicyTypes, Flow, Steady, UniqueInv, seen' = seen, emitted' = emitted,
         sent'["uniq"] = sent["uniq"], Got("nonnil")' = Got("nonnil"), Got("uniq")' = Got("uniq")
  PROVE  UniqueInv'
<1>1. \A i \in 1..Got("nonnil") : sent'["nonnil"][i] = sent["nonnil"][i]
  BY KeptGot, TheChans
<1>2. Got("nonnil") \in Nat
  <2>1. "nonnil" \in Chans
    BY TheChans
  <2>2. QED
    BY <2>1, FlowOf
<1>3. PICK s : s = sent'["nonnil"]
  OBVIOUS
<1>4. Deduped(sent["uniq"], s, Got("nonnil"), seen)
  <2>1. Deduped(sent["uniq"], sent["nonnil"], Got("nonnil"), seen)
    BY DEF UniqueInv
  <2>2. QED
    BY <1>1, <1>2, <1>3, <2>1, DedupedGrows
<1>5. Deduped(sent'["uniq"], sent'["nonnil"], Got("nonnil")', seen')
  BY <1>3, <1>4, Zenon
<1>6. Len(emitted') = Got("uniq")' /\ \A i \in 1..Len(emitted') : emitted'[i] = sent'["uniq"][i]
  BY DEF UniqueInv
<1>7. QED
  BY <1>5, <1>6, Zenon DEF UniqueInv

-----------------------------------------------------------------------------
(* The steps of the policies.                                              *)

LEMMA TypesKept ==
  ASSUME PolicyTypes, Steady, UNCHANGED configVars,
         turn' \in [Mixers -> Chans], taken' \in [Mixers -> Nat],
         alive' \in [Mixers -> SUBSET Chans],
         later' \in Seq(Tacs), emitted' \in Seq(Tacs), count' \in Nat
  PROVE  PolicyTypes'
BY DEF PolicyTypes, Steady, configVars

LEMMA SameTypes ==
  ASSUME PolicyTypes
  PROVE  /\ turn \in [Mixers -> Chans] /\ taken \in [Mixers -> Nat]
         /\ alive \in [Mixers -> SUBSET Chans]
         /\ later \in Seq(Tacs) /\ emitted \in Seq(Tacs) /\ count \in Nat
BY DEF PolicyTypes

\* A step of a policy does not touch what is after it.
LEMMA DownstreamKept ==
  ASSUME PolicyInv, Steady, UNCHANGED <<configVars, count, seen, emitted>>,
         \A x \in {"user", "either", "nonnil", "uniq"} : sent'[x] = sent[x],
         \A x \in {"user", "outer", "either", "nonnil", "uniq"} :
           Got(x)' = Got(x) /\ (x \in begun' <=> x \in begun),
         \A x \in {"either", "nonnil", "uniq"} : x \in shut' => x \in shut
  PROVE  EitherInv' /\ FilterInv' /\ UniqueInv'
<1>1. PolicyTypes /\ Flow /\ EitherInv /\ FilterInv /\ UniqueInv
  BY DEF PolicyInv
<1>2. user' = user /\ count' = count /\ seen' = seen /\ emitted' = emitted
  BY DEF configVars
<1>3. EitherInv'
  BY <1>1, <1>2, EitherKept
<1>4. Got(Root)' = Got(Root)
  <2>1. Root' = Root
    BY <1>2 DEF Root
  <2>2. CASE Root = "outer"
    BY <2>1, <2>2
  <2>3. CASE Root = "either"
    BY <2>1, <2>3
  <2>4. QED
    BY <2>2, <2>3, RootType
<1>5. FilterInv'
  BY <1>1, <1>2, <1>4, FilterKept
<1>6. UniqueInv'
  BY <1>1, <1>2, UniqueKept
<1>7. QED
  BY <1>3, <1>5, <1>6

LEMMA MixersKept ==
  ASSUME PolicyInv, Steady, UNCHANGED mixVars,
         \A x \in {"stats", "bridges", "ext", "inner"} : Got(x)' = Got(x),
         \A m \in Mixers : sent'[m] = sent[m] /\ (m \in shut' => alive[m] = {})
  PROVE  MixInv("inner")' /\ MixInv("outer")'
<1>1. PolicyTypes /\ Flow /\ MixInv("inner") /\ MixInv("outer")
  BY DEF PolicyInv
<1>2. turn' = turn /\ taken' = taken /\ alive' = alive
  BY DEF mixVars
<1>3. "inner" \in Mixers /\ "outer" \in Mixers
  BY TheChans
<1>4. /\ Got(Primary("inner"))' = Got(Primary("inner"))
      /\ Got(Fallback("inner"))' = Got(Fallback("inner"))
      /\ Got(Primary("outer"))' = Got(Primary("outer"))
      /\ Got(Fallback("outer"))' = Got(Fallback("outer"))
  BY TheChans
<1>5. MixInv("inner")'
  BY <1>1, <1>2, <1>3, <1>4, MixKept
<1>6. MixInv("outer")'
  BY <1>1, <1>2, <1>3, <1>4, MixKept
<1>7. QED
  BY <1>5, <1>6

LEMMA InvParts ==
  ASSUME PolicyInv
  PROVE  /\ PolicyTypes /\ Flow /\ MixInv("inner") /\ MixInv("outer")
         /\ EitherInv /\ FilterInv /\ UniqueInv
BY DEF PolicyInv

\* A source finds out what to send.
LEMMA ProduceStep ==
  ASSUME PolicyInv, NEW c \in {"stats", "bridges", "dns", "ext"}, NEW tactics \in Seq(Tacs),
         Runs(c), Produce(c, tactics), begun' = begun,
         UNCHANGED <<configVars, mixVars, count, seen, emitted>>, later' \in Seq(Tacs)
  PROVE  PolicyInv'
<1>1. c \in Chans /\ PolicyTypes /\ Flow /\ Mixers \subseteq Chans
  BY InvParts, TheChans
<1>2. /\ Steady /\ shut' = shut
      /\ \A x \in Chans \ {c} : sent'[x] = sent[x]
      /\ \A x \in Chans : Got(x)' = Got(x)
  BY <1>1, ProduceSteady
<1>3. PolicyTypes'
  BY <1>1, <1>2, SameTypes, TypesKept DEF mixVars
<1>4. \A m \in Mixers : sent'[m] = sent[m] /\ (m \in shut' => alive[m] = {})
  BY <1>2, TheChans, InvParts DEF MixInv
<1>5. MixInv("inner")' /\ MixInv("outer")'
  BY <1>2, <1>4, TheChans, MixersKept
<1>6. EitherInv' /\ FilterInv' /\ UniqueInv'
  BY <1>2, TheChans, DownstreamKept
<1>7. QED
  BY <1>2, <1>3, <1>5, <1>6 DEF PolicyInv, Steady

\* A policy closes its channel.
LEMMA CloseStep ==
  ASSUME PolicyInv, NEW c \in {"stats", "bridges", "dns", "user", "ext", "inner", "outer"},
         Runs(c), CloseChan(c), c \in Mixers => alive[c] = {},
         UNCHANGED <<configVars, mixVars, count, later, seen, emitted>>
  PROVE  PolicyInv'
<1>1. c \in Chans /\ PolicyTypes /\ Flow /\ Mixers \subseteq Chans
  BY InvParts, TheChans
<1>2. /\ Steady /\ begun' = begun /\ shut' = shut \cup {c}
      /\ \A x \in Chans : sent'[x] = sent[x] /\ Got(x)' = Got(x)
  BY <1>1, CloseSteady
<1>3. PolicyTypes'
  BY <1>1, <1>2, SameTypes, TypesKept DEF mixVars
<1>4. \A m \in Mixers : sent'[m] = sent[m] /\ (m \in shut' => alive[m] = {})
  BY <1>1, <1>2, TheChans, InvParts DEF MixInv
<1>5. MixInv("inner")' /\ MixInv("outer")'
  BY <1>2, <1>4, TheChans, MixersKept
<1>6. EitherInv' /\ FilterInv' /\ UniqueInv'
  BY <1>2, TheChans, DownstreamKept
<1>7. QED
  BY <1>2, <1>3, <1>5, <1>6 DEF PolicyInv, Steady

LEMMA StatsStep == PolicyInv /\ StatsPolicy => PolicyInv'
<1> SUFFICES ASSUME PolicyInv, StatsPolicy PROVE PolicyInv'
  OBVIOUS
<1>1. stats \in Seq(Tacs) /\ later \in Seq(Tacs)
  BY InvParts DEF PolicyTypes
<1>2. /\ Runs("stats") /\ Produce("stats", stats) /\ begun' = begun /\ later' = later
      /\ UNCHANGED <<configVars, mixVars, count, seen, emitted>>
  BY DEF StatsPolicy
<1>3. QED
  BY <1>1, <1>2, ProduceStep

LEMMA BridgesStep == PolicyInv /\ BridgesPolicy => PolicyInv'
<1> SUFFICES ASSUME PolicyInv, BridgesPolicy PROVE PolicyInv'
  OBVIOUS
<1>1. later \in Seq(Tacs)
  BY InvParts DEF PolicyTypes
<1>2. /\ Runs("bridges") /\ begun' = begun /\ later' = later /\ domain = "api"
      /\ UNCHANGED <<configVars, mixVars, count, seen, emitted>>
  BY DEF BridgesPolicy
<1>3. PICK tactics \in BridgesTactics : Produce("bridges", tactics)
  BY DEF BridgesPolicy
<1>4. tactics \in Seq(Tacs)
  BY <1>2, BridgesType
<1>5. QED
  BY <1>1, <1>2, <1>3, <1>4, ProduceStep

LEMMA DNSStep == PolicyInv /\ DNSLookup => PolicyInv'
<1> SUFFICES ASSUME PolicyInv, DNSLookup PROVE PolicyInv'
  OBVIOUS
<1>1. later \in Seq(Tacs)
  BY InvParts DEF PolicyTypes
<1>2. /\ Runs("dns") /\ begun' = begun /\ later' = later
      /\ UNCHANGED <<configVars, mixVars, count, seen, emitted>>
  BY DEF DNSLookup
<1>3. PICK n \in 1..Len(DNSAddrs) : Produce("dns", DNSTactics(n))
  BY DEF DNSLookup
<1>4. DNSTactics(n) \in Seq(Tacs)
  BY InvParts, DNSType
<1>5. QED
  BY <1>1, <1>2, <1>3, <1>4, ProduceStep

LEMMA CloseSourceStep ==
  ASSUME PolicyInv, NEW c \in {"dns", "stats", "bridges", "user"}, CloseSource(c)
  PROVE  PolicyInv'
<1>1. /\ Runs(c) /\ CloseChan(c)
      /\ UNCHANGED <<configVars, mixVars, count, later, seen, emitted>>
  BY DEF CloseSource
<1>2. c \notin Mixers
  BY TheChans
<1>3. QED
  BY <1>1, <1>2, CloseStep

\* The test helpers policy
LEMMA ExtendReceivesStep == PolicyInv /\ ExtendReceives => PolicyInv'
<1> SUFFICES ASSUME PolicyInv, ExtendReceives PROVE PolicyInv'
  OBVIOUS
<1>1. PolicyTypes /\ Flow /\ Mixers \subseteq Chans /\ "ext" \in Chans /\ "dns" \in Chans
  BY InvParts, TheChans
<1>2. /\ Receive("ext", "dns", <<Head(todo["dns"])>>) /\ todo["dns"] # << >>
      /\ later' = IF domain = "th" THEN Append(later, Head(todo["dns"])) ELSE later
      /\ UNCHANGED <<configVars, mixVars, count, seen, emitted>>
  BY DEF ExtendReceives, Sends
<1>3. Head(todo["dns"]) \in Tacs
  BY <1>1, <1>2, FlowOf, SuffixTail
<1>4. PICK h : h = Head(todo["dns"])
  OBVIOUS
<1>5. <<h>> \in Seq(Tacs) /\ Receive("ext", "dns", <<h>>)
  BY <1>2, <1>3, <1>4
<1>6. /\ Steady /\ begun' = begun /\ shut' = shut
      /\ \A x \in Chans \ {"ext"} : sent'[x] = sent[x]
      /\ \A x \in Chans \ {"dns"} : Got(x)' = Got(x)
  BY <1>1, <1>5, ReceiveSteady
<1>7. later' \in Seq(Tacs)
  <2>1. later \in Seq(Tacs)
    BY <1>1, SameTypes
  <2>2. QED
    BY <1>2, <1>3, <2>1
<1>8. PolicyTypes'
  BY <1>1, <1>2, <1>6, <1>7, SameTypes, TypesKept DEF mixVars
<1>9. \A m \in Mixers : sent'[m] = sent[m] /\ (m \in shut' => alive[m] = {})
  BY <1>6, TheChans, InvParts DEF MixInv
<1>10. MixInv("inner")' /\ MixInv("outer")'
  BY <1>2, <1>6, <1>9, TheChans, MixersKept
<1>11. EitherInv' /\ FilterInv' /\ UniqueInv'
  BY <1>2, <1>6, TheChans, DownstreamKept
<1>12. QED
  BY <1>6, <1>8, <1>10, <1>11 DEF PolicyInv, Steady

LEMMA ExtendOneStep == PolicyInv /\ ExtendOne => PolicyInv'
<1> SUFFICES ASSUME PolicyInv, ExtendOne PROVE PolicyInv'
  OBVIOUS
<1>1. later \in Seq(Tacs)
  BY InvParts DEF PolicyTypes
<1>2. /\ Runs("ext") /\ begun' = begun /\ later # << >> /\ later' = Tail(later)
      /\ UNCHANGED <<configVars, mixVars, count, seen, emitted>>
  BY DEF ExtendOne
<1>3. later' \in Seq(Tacs) /\ Head(later) \in Tacs
  BY <1>1, <1>2
<1>4. PICK order \in SNIOrders : Produce("ext", WithSNIs(Head(later).addr, order))
  BY DEF ExtendOne
<1>5. Head(later).addr \in Addrs
  BY <1>3 DEF Tacs
<1>6. WithSNIs(Head(later).addr, order) \in Seq(Tacs)
  BY <1>5, WithSNIsType
<1>7. QED
  BY <1>2, <1>3, <1>4, <1>6, ProduceStep

LEMMA ExtendEndsStep == PolicyInv /\ ExtendEnds => PolicyInv'
<1> SUFFICES ASSUME PolicyInv, ExtendEnds PROVE PolicyInv'
  OBVIOUS
<1>1. /\ Runs("ext") /\ CloseChan("ext")
      /\ UNCHANGED <<configVars, mixVars, count, later, seen, emitted>>
  BY DEF ExtendEnds
<1>2. "ext" \notin Mixers
  BY TheChans
<1>3. QED
  BY <1>1, <1>2, CloseStep

\* A mixer starts its inputs.
LEMMA MixBeginsStep ==
  ASSUME PolicyInv, NEW m \in Mixers, MixBegins(m)
  PROVE  PolicyInv'
<1>1. PolicyTypes /\ Flow
  BY InvParts
<1>2. PICK cs : cs = Inputs(m) \cup IF m = "outer" THEN {"dns"} ELSE {}
  OBVIOUS
<1>3. cs \subseteq {"ext", "inner", "stats", "bridges", "dns"}
  BY <1>2, TheChans, MixChans
<1>4. cs \in SUBSET Chans
  BY <1>3, TheChans
<1>5. /\ begun' = begun \cup cs /\ todo' = todo /\ sent' = sent /\ shut' = shut /\ later' = later
      /\ UNCHANGED <<configVars, mixVars, count, seen, emitted>>
  BY <1>2 DEF MixBegins
<1>6. Steady /\ \A x \in Chans : sent'[x] = sent[x] /\ Got(x)' = Got(x)
  BY <1>1, <1>4, <1>5, StartSteady
<1>7. PolicyTypes'
  BY <1>1, <1>5, <1>6, SameTypes, TypesKept DEF mixVars
<1>8. \A o \in Mixers : sent'[o] = sent[o] /\ (o \in shut' => alive[o] = {})
  BY <1>5, TheChans, InvParts DEF MixInv
<1>9. MixInv("inner")' /\ MixInv("outer")'
  BY <1>5, <1>6, <1>8, TheChans, MixersKept
<1>10. \A x \in {"user", "outer", "either", "nonnil", "uniq"} :
         Got(x)' = Got(x) /\ (x \in begun' <=> x \in begun)
  BY <1>3, <1>5, <1>6, TheChans
<1>11. EitherInv' /\ FilterInv' /\ UniqueInv'
  BY <1>5, <1>6, <1>10, TheChans, DownstreamKept
<1>12. QED
  BY <1>6, <1>7, <1>9, <1>11 DEF PolicyInv, Steady

LEMMA MixOf ==
  ASSUME PolicyInv, NEW m \in Mixers
  PROVE  /\ MixInv(m) /\ turn[m] \in Inputs(m) /\ taken[m] \in 0..(N - 1)
         /\ m \in shut => alive[m] = {}
<1>1. MixInv(m)
  BY TheChans, InvParts
<1>2. QED
  BY <1>1 DEF MixInv

\* A mixer takes a tactic.
LEMMA MixTakesStep ==
  ASSUME PolicyInv, NEW m \in Mixers, MixTakes(m)
  PROVE  PolicyInv'
<1>1. /\ PolicyTypes /\ Flow /\ Mixers \subseteq Chans /\ m \in Chans
      /\ MixInv(m) /\ turn[m] \in Inputs(m) /\ taken[m] \in 0..(N - 1)
  BY InvParts, TheChans, MixOf
<1>2. PICK c : c = turn[m]
  OBVIOUS
<1>3. c \in Chans /\ m # c /\ c \in {"stats", "bridges", "ext", "inner"}
  BY <1>1, <1>2, TheChans, MixChans
<1>4. /\ Receive(m, c, <<Head(todo[c])>>) /\ todo[c] # << >> /\ later' = later
      /\ UNCHANGED <<configVars, count, seen, emitted>>
  BY <1>2 DEF MixTakes, Sends
<1>5. Head(todo[c]) \in Tacs
  BY <1>1, <1>3, <1>4, FlowOf, SuffixTail
<1>6. PICK h : h = Head(todo[c])
  OBVIOUS
<1>7. <<h>> \in Seq(Tacs) /\ Receive(m, c, <<h>>)
  BY <1>4, <1>5, <1>6
<1>8. /\ Steady /\ begun' = begun /\ shut' = shut
      /\ \A x \in Chans \ {m} : sent'[x] = sent[x]
      /\ \A x \in Chans \ {c} : Got(x)' = Got(x)
  BY <1>1, <1>3, <1>7, ReceiveSteady
<1>9. /\ alive' = alive
      /\ \A o \in Mixers \ {m} : turn'[o] = turn[o] /\ taken'[o] = taken[o]
      /\ turn' \in [Mixers -> Chans] /\ taken' \in [Mixers -> Nat]
  BY <1>1, TurnTaken
<1>10. PolicyTypes'
  BY <1>1, <1>4, <1>8, <1>9, SameTypes, TypesKept
<1>11. MixInv(m)'
  BY <1>1, MixTakesPrimary, MixTakesFallback
<1>12. ASSUME NEW o \in Mixers \ {m} PROVE MixInv(o)'
  <2>1. o \in Chans /\ MixInv(o) /\ (o \in shut' => alive[o] = {})
    BY <1>1, <1>8, MixOf
  <2>2. Primary(o) # c /\ Fallback(o) # c /\ Primary(o) \in Chans /\ Fallback(o) \in Chans
    BY <1>1, <1>2, TheChans, MixChans
  <2>3. /\ Got(Primary(o))' = Got(Primary(o)) /\ Got(Fallback(o))' = Got(Fallback(o))
        /\ sent'[o] = sent[o]
    BY <1>8, <2>1, <2>2
  <2>4. QED
    BY <1>1, <1>8, <1>9, <2>1, <2>3, MixKept
<1>13. MixInv("inner")' /\ MixInv("outer")'
  BY <1>11, <1>12, TheChans
<1>14. EitherInv' /\ FilterInv' /\ UniqueInv'
  BY <1>3, <1>4, <1>8, TheChans, DownstreamKept
<1>15. QED
  BY <1>8, <1>10, <1>13, <1>14 DEF PolicyInv, Steady

\* A mixer finds that an input is drained, or that it was.
LEMMA TurnOverStep ==
  ASSUME PolicyInv, NEW m \in Mixers, SwitchTurn(m), m \notin shut,
         turn[m] \in alive[m] => turn[m] \in shut,
         alive' = [alive EXCEPT ![m] = alive[m] \ {turn[m]}],
         UNCHANGED <<chanVars, configVars, count, later, seen, emitted>>
  PROVE  PolicyInv'
<1>1. /\ PolicyTypes /\ Flow /\ Mixers \subseteq Chans /\ m \in Chans
      /\ MixInv(m) /\ turn[m] \in Inputs(m)
  BY InvParts, TheChans, MixOf
<1>2. /\ begun' = begun /\ todo' = todo /\ sent' = sent /\ shut' = shut
  BY DEF chanVars
<1>3. Steady /\ \A x \in Chans : sent'[x] = sent[x] /\ Got(x)' = Got(x)
  <2>1. {} \in SUBSET Chans /\ begun' = begun \cup {}
    BY <1>2
  <2>2. QED
    BY <1>1, <1>2, <2>1, StartSteady
<1>4. /\ \A o \in Mixers \ {m} : turn'[o] = turn[o] /\ taken'[o] = taken[o]
      /\ turn' \in [Mixers -> Chans] /\ taken' \in [Mixers -> Nat]
  BY <1>1, TurnSwitched
<1>5. /\ alive' \in [Mixers -> SUBSET Chans] /\ alive'[m] = alive[m] \ {turn[m]}
      /\ \A o \in Mixers \ {m} : alive'[o] = alive[o]
  BY <1>1, SameTypes
<1>6. PolicyTypes'
  BY <1>1, <1>3, <1>4, <1>5, SameTypes, TypesKept
<1>7. MixInv(m)'
  BY <1>1, <1>2, <1>5, TurnOver
<1>8. ASSUME NEW o \in Mixers \ {m} PROVE MixInv(o)'
  <2>1. o \in Chans /\ MixInv(o) /\ (o \in shut' => alive[o] = {})
    BY <1>1, <1>2, MixOf
  <2>2. Primary(o) \in Chans /\ Fallback(o) \in Chans
    BY MixChans
  <2>3. /\ Got(Primary(o))' = Got(Primary(o)) /\ Got(Fallback(o))' = Got(Fallback(o))
        /\ sent'[o] = sent[o]
    BY <1>3, <2>1, <2>2
  <2>4. QED
    BY <1>1, <1>3, <1>4, <1>5, <2>1, <2>3, MixKept
<1>9. MixInv("inner")' /\ MixInv("outer")'
  BY <1>7, <1>8, TheChans
<1>10. EitherInv' /\ FilterInv' /\ UniqueInv'
  BY <1>2, <1>3, TheChans, DownstreamKept
<1>11. QED
  BY <1>3, <1>6, <1>9, <1>10 DEF PolicyInv, Steady

LEMMA MixDrainsStep ==
  ASSUME PolicyInv, NEW m \in Mixers, MixDrains(m)
  PROVE  PolicyInv'
<1>1. /\ m \notin shut /\ turn[m] \in shut /\ SwitchTurn(m)
      /\ alive' = [alive EXCEPT ![m] = alive[m] \ {turn[m]}]
      /\ UNCHANGED <<chanVars, configVars, count, later, seen, emitted>>
  BY DEF MixDrains, Runs
<1>2. QED
  BY <1>1, TurnOverStep

LEMMA MixGoesOnStep ==
  ASSUME PolicyInv, NEW m \in Mixers, MixSkips(m) \/ MixLoops(m)
  PROVE  PolicyInv'
<1>1. /\ m \notin shut /\ turn[m] \notin alive[m] /\ SwitchTurn(m) /\ alive' = alive
      /\ UNCHANGED <<chanVars, configVars, count, later, seen, emitted>>
  BY DEF MixSkips, MixLoops, Runs
<1>2. alive' = [alive EXCEPT ![m] = alive[m] \ {turn[m]}]
  <2>1. alive \in [Mixers -> SUBSET Chans] /\ alive[m] \ {turn[m]} = alive[m]
    BY <1>1, InvParts, SameTypes
  <2>2. alive = [alive EXCEPT ![m] = alive[m]]
    BY <2>1
  <2>3. QED
    BY <1>1, <2>1, <2>2
<1>3. QED
  BY <1>1, <1>2, TurnOverStep

LEMMA MixEndsStep ==
  ASSUME PolicyInv, NEW m \in Mixers, MixEnds(m)
  PROVE  PolicyInv'
<1>1. /\ Runs(m) /\ CloseChan(m) /\ alive[m] = {}
      /\ UNCHANGED <<configVars, mixVars, count, later, seen, emitted>>
  BY DEF MixEnds
<1>2. QED
  BY <1>1, TheChans, CloseStep

-----------------------------------------------------------------------------
(* The steps of the either-or policy, of the filters and of the workers.   *)

LEMMA EitherReceivesStep ==
  ASSUME PolicyInv, NEW c \in {"user", "outer"}, EitherReceives(c)
  PROVE  PolicyInv'
<1>1. /\ PolicyTypes /\ Flow /\ Mixers \subseteq Chans /\ c \in Chans /\ c # "either"
      /\ "either" \in Chans /\ "user" \in Chans /\ "outer" \in Chans
      /\ EitherInv /\ FilterInv /\ UniqueInv
  BY InvParts, TheChans
<1>2. /\ Receive("either", c, <<Head(todo[c])>>) /\ todo[c] # << >>
      /\ count' = IF c = "user" THEN count + 1 ELSE count
      /\ c = "user" \/ "user" \in shut
      /\ UNCHANGED <<configVars, mixVars, later, seen, emitted>>
  BY DEF EitherReceives, Sends
<1>3. Head(todo[c]) \in Tacs
  BY <1>1, <1>2, FlowOf, SuffixTail
<1>4. PICK h : h = Head(todo[c])
  OBVIOUS
<1>5. <<h>> \in Seq(Tacs) /\ Receive("either", c, <<h>>) /\ h \in Tacs
  BY <1>2, <1>3, <1>4
<1>6. /\ Steady /\ begun' = begun /\ shut' = shut /\ "either" \in begun \ shut
      /\ sent'["either"] = sent["either"] \o <<h>>
      /\ \A x \in Chans \ {"either"} : sent'[x] = sent[x]
      /\ Got(c)' = Got(c) + 1 /\ Got(c) < Len(sent[c]) /\ Got(c) \in Nat
      /\ \A x \in Chans \ {c} : Got(x)' = Got(x)
      /\ h = sent[c][Got(c) + 1] /\ c \notin shut
  BY <1>1, <1>4, <1>5, ReceiveSteady
<1>7. user # << >> /\ user' = user
  BY <1>1, <1>2, <1>6 DEF EitherInv, configVars
<1>8. /\ count = Got("user")
      /\ "outer" \in begun => "user" \in shut /\ count = 0
      /\ Len(sent["either"]) = Got("user") + Got("outer")
      /\ \A i \in 1..Got("user") : sent["either"][i] = sent["user"][i]
      /\ \A i \in 1..Got("outer") : sent["either"][i] = sent["outer"][i]
  BY <1>1, <1>7, Zenon DEF EitherInv
<1>9. count \in Nat /\ count' \in Nat
  BY <1>1, <1>2, SameTypes
<1>10. PolicyTypes'
  BY <1>1, <1>2, <1>6, <1>9, SameTypes, TypesKept DEF mixVars
<1>11. \A m \in Mixers : sent'[m] = sent[m] /\ (m \in shut' => alive[m] = {})
  BY <1>6, TheChans, MixOf
<1>12. MixInv("inner")' /\ MixInv("outer")'
  BY <1>2, <1>6, <1>11, TheChans, MixersKept
<1>13. FilterInv' /\ UniqueInv'
  <2>1. Root = "either"
    BY <1>7 DEF Root
  <2>2. Got(Root)' = Got(Root)
    <3>1. Root' = Root
      BY <1>7 DEF Root
    <3>2. QED
      BY <1>1, <1>6, <2>1, <3>1
  <2>3. FilterInv'
    BY <1>1, <1>6, <1>7, <2>2, TheChans, FilterKept
  <2>4. UniqueInv'
    BY <1>1, <1>2, <1>6, TheChans, UniqueKept
  <2>5. QED
    BY <2>3, <2>4
<1>14. PICK e : e = sent["either"]
  OBVIOUS
<1>15. PICK g : g = sent'["either"]
  OBVIOUS
<1>16. /\ Len(g) = Len(e) + 1 /\ g[Len(e) + 1] = h /\ Len(e) \in Nat
       /\ \A k \in 1..Len(e) : g[k] = e[k]
  BY <1>1, <1>5, <1>6, <1>14, <1>15, FlowOf, OneMore
<1>17. CASE c = "user"
  <2>1. "outer" \notin begun
    BY <1>6, <1>8, <1>17
  <2>2. Got("outer") = 0 /\ Got("outer")' = 0
    BY <1>1, <1>6, <1>17, <2>1, FlowOf
  <2>3. PICK k : k = Got("user")
    OBVIOUS
  <2>4. k \in Nat /\ Got("user")' = k + 1 /\ Len(e) = k /\ h = sent["user"][k + 1] /\ count' = k + 1
    BY <1>2, <1>6, <1>8, <1>14, <1>17, <2>2, <2>3
  <2>5. \A i \in 1..k : e[i] = sent["user"][i]
    BY <1>8, <1>14, <2>3
  <2>6. \A i \in 1..(k + 1) : g[i] = sent["user"][i]
    BY <1>16, <2>4, <2>5
  <2>7. sent'["user"] = sent["user"]
    BY <1>1, <1>6
  <2>8. /\ count' = Got("user")'
        /\ "outer" \in begun' => "user" \in shut' /\ count' = 0
        /\ Len(sent'["either"]) = Got("user")' + Got("outer")'
        /\ \A i \in 1..Got("user")' : sent'["either"][i] = sent'["user"][i]
        /\ \A i \in 1..Got("outer")' : sent'["either"][i] = sent'["outer"][i]
        /\ "either" \in shut' => "user" \in shut' /\ (count' > 0 \/ "outer" \in shut')
    <3>1. count' = Got("user")' /\ ("outer" \in begun' => "user" \in shut' /\ count' = 0)
      BY <1>6, <2>1, <2>2, <2>4
    <3>2. Len(sent'["either"]) = Got("user")' + Got("outer")'
      BY <1>15, <1>16, <2>2, <2>4
    <3>3. \A i \in 1..Got("user")' : sent'["either"][i] = sent'["user"][i]
      BY <1>15, <2>4, <2>6, <2>7, Zenon
    <3>4. \A i \in 1..Got("outer")' : FALSE
      BY <2>2
    <3>5. "either" \notin shut'
      BY <1>6
    <3>6. QED
      BY <3>1, <3>2, <3>3, <3>4, <3>5, Zenon
  <2>9. EitherInv'
    BY <1>7, <2>8 DEF EitherInv
  <2>10. QED
    BY <1>6, <1>10, <1>12, <1>13, <2>9 DEF PolicyInv, Steady
<1>18. CASE c = "outer"
  <2>1. "outer" \in begun
    BY <1>1, <1>2, <1>6, <1>18, FlowOf
  <2>2. Got("user") = 0 /\ Got("user")' = 0 /\ "user" \in shut /\ count' = 0
    BY <1>1, <1>2, <1>6, <1>8, <1>18, <2>1
  <2>3. PICK k : k = Got("outer")
    OBVIOUS
  <2>4. k \in Nat /\ Got("outer")' = k + 1 /\ Len(e) = k /\ h = sent["outer"][k + 1]
    BY <1>6, <1>8, <1>14, <1>18, <2>2, <2>3
  <2>5. \A i \in 1..k : e[i] = sent["outer"][i]
    BY <1>8, <1>14, <2>3
  <2>6. \A i \in 1..(k + 1) : g[i] = sent["outer"][i]
    BY <1>16, <2>4, <2>5
  <2>7. sent'["outer"] = sent["outer"]
    BY <1>1, <1>6, <1>18
  <2>8. /\ count' = Got("user")'
        /\ "outer" \in begun' => "user" \in shut' /\ count' = 0
        /\ Len(sent'["either"]) = Got("user")' + Got("outer")'
        /\ \A i \in 1..Got("user")' : sent'["either"][i] = sent'["user"][i]
        /\ \A i \in 1..Got("outer")' : sent'["either"][i] = sent'["outer"][i]
        /\ "either" \in shut' => "user" \in shut' /\ (count' > 0 \/ "outer" \in shut')
    <3>1. count' = Got("user")' /\ ("outer" \in begun' => "user" \in shut' /\ count' = 0)
      BY <1>6, <2>2, <2>4
    <3>2. Len(sent'["either"]) = Got("user")' + Got("outer")'
      BY <1>15, <1>16, <2>2, <2>4
    <3>3. \A i \in 1..Got("outer")' : sent'["either"][i] = sent'["outer"][i]
      BY <1>15, <2>4, <2>6, <2>7, Zenon
    <3>4. \A i \in 1..Got("user")' : FALSE
      BY <2>2
    <3>5. "either" \notin shut'
      BY <1>6
    <3>6. QED
      BY <3>1, <3>2, <3>3, <3>4, <3>5, Zenon
  <2>9. EitherInv'
    BY <1>7, <2>8 DEF EitherInv
  <2>10. QED
    BY <1>6, <1>10, <1>12, <1>13, <2>9 DEF PolicyInv, Steady
<1>19. QED
  BY <1>17, <1>18

LEMMA EitherFallsBackStep == PolicyInv /\ EitherFallsBack => PolicyInv'
<1> SUFFICES ASSUME PolicyInv, EitherFallsBack PROVE PolicyInv'
  OBVIOUS
<1>1. /\ PolicyTypes /\ Flow /\ Mixers \subseteq Chans
      /\ EitherInv /\ FilterInv /\ UniqueInv
  BY InvParts, TheChans
<1>2. /\ "either" \in begun \ shut /\ "user" \in shut /\ count = 0
      /\ begun' = begun \cup {"outer"} /\ todo' = todo /\ sent' = sent /\ shut' = shut
      /\ UNCHANGED <<configVars, mixVars, count, later, seen, emitted>>
  BY DEF EitherFallsBack, Runs
<1>3. {"outer"} \in SUBSET Chans
  BY TheChans
<1>4. Steady /\ \A x \in Chans : sent'[x] = sent[x] /\ Got(x)' = Got(x)
  BY <1>1, <1>2, <1>3, StartSteady
<1>5. PolicyTypes'
  BY <1>1, <1>2, <1>4, SameTypes, TypesKept DEF mixVars
<1>6. \A m \in Mixers : sent'[m] = sent[m] /\ (m \in shut' => alive[m] = {})
  BY <1>2, MixOf
<1>7. MixInv("inner")' /\ MixInv("outer")'
  BY <1>2, <1>4, <1>6, TheChans, MixersKept
<1>8. user' = user /\ user # << >> /\ Root' = Root
  BY <1>1, <1>2 DEF EitherInv, configVars, Root
<1>9. Got("user")' = Got("user") /\ Got("outer")' = Got("outer")
  BY <1>4, TheChans
<1>10. EitherInv'
  <2>1. /\ count = Got("user")
        /\ Len(sent["either"]) = Got("user") + Got("outer")
        /\ \A i \in 1..Got("user") : sent["either"][i] = sent["user"][i]
        /\ \A i \in 1..Got("outer") : sent["either"][i] = sent["outer"][i]
    BY <1>1, <1>8, Zenon DEF EitherInv
  <2>2. /\ count' = Got("user")'
        /\ "outer" \in begun' => "user" \in shut' /\ count' = 0
        /\ Len(sent'["either"]) = Got("user")' + Got("outer")'
        /\ \A i \in 1..Got("user")' : sent'["either"][i] = sent'["user"][i]
        /\ \A i \in 1..Got("outer")' : sent'["either"][i] = sent'["outer"][i]
        /\ "either" \in shut' => "user" \in shut' /\ (count' > 0 \/ "outer" \in shut')
    BY <1>2, <1>9, <2>1
  <2>3. QED
    BY <1>8, <2>2 DEF EitherInv
<1>11. FilterInv' /\ UniqueInv'
  <2>1. Got(Root)' = Got(Root)
    BY <1>4, <1>8, RootType
  <2>2. FilterInv'
    BY <1>1, <1>2, <1>4, <1>8, <2>1, TheChans, FilterKept
  <2>3. UniqueInv'
    BY <1>1, <1>2, <1>4, TheChans, UniqueKept
  <2>4. QED
    BY <2>2, <2>3
<1>12. QED
  BY <1>4, <1>5, <1>7, <1>10, <1>11 DEF PolicyInv, Steady

\* The either-or policy and the filters close their channels.
LEMMA CloseDownstream ==
  ASSUME PolicyInv, NEW c \in {"either", "nonnil", "uniq"}, Runs(c), CloseChan(c),
         c = "either" => "user" \in shut /\ (count > 0 \/ "outer" \in shut),
         c = "nonnil" => Root \in shut,
         c = "uniq" => "nonnil" \in shut,
         UNCHANGED <<configVars, mixVars, count, later, seen, emitted>>
  PROVE  PolicyInv'
<1>1. /\ PolicyTypes /\ Flow /\ Mixers \subseteq Chans /\ c \in Chans /\ c \notin Mixers
      /\ EitherInv /\ FilterInv /\ UniqueInv
  BY InvParts, TheChans
<1>2. /\ Steady /\ begun' = begun /\ shut' = shut \cup {c}
      /\ \A x \in Chans : sent'[x] = sent[x] /\ Got(x)' = Got(x)
  BY <1>1, CloseSteady
<1>3. PolicyTypes'
  BY <1>1, <1>2, SameTypes, TypesKept DEF mixVars
<1>4. \A m \in Mixers : sent'[m] = sent[m] /\ (m \in shut' => alive[m] = {})
  BY <1>1, <1>2, MixOf
<1>5. MixInv("inner")' /\ MixInv("outer")'
  BY <1>2, <1>4, TheChans, MixersKept
<1>6. user' = user /\ Root' = Root /\ count' = count
  BY DEF Root, configVars
<1>7. /\ Got("user")' = Got("user") /\ Got("outer")' = Got("outer") /\ Got(Root)' = Got(Root)
      /\ sent' ["user"] = sent["user"] /\ sent'["outer"] = sent["outer"]
      /\ sent'["either"] = sent["either"] /\ sent'["nonnil"] = sent["nonnil"]
      /\ sent'[Root] = sent[Root]
  BY <1>2, <1>6, TheChans, RootType
<1>8. EitherInv'
  <2>1. user = << >> => begun' \cap {"user", "either"} = {}
    BY <1>1, <1>2 DEF EitherInv
  <2>2. ASSUME user # << >>
        PROVE  /\ count' = Got("user")'
               /\ "outer" \in begun' => "user" \in shut' /\ count' = 0
               /\ Len(sent'["either"]) = Got("user")' + Got("outer")'
               /\ \A i \in 1..Got("user")' : sent'["either"][i] = sent'["user"][i]
               /\ \A i \in 1..Got("outer")' : sent'["either"][i] = sent'["outer"][i]
               /\ "either" \in shut' => "user" \in shut' /\ (count' > 0 \/ "outer" \in shut')
    <3>1. /\ count = Got("user")
          /\ "outer" \in begun => "user" \in shut /\ count = 0
          /\ Len(sent["either"]) = Got("user") + Got("outer")
          /\ \A i \in 1..Got("user") : sent["either"][i] = sent["user"][i]
          /\ \A i \in 1..Got("outer") : sent["either"][i] = sent["outer"][i]
          /\ "either" \in shut => "user" \in shut /\ (count > 0 \/ "outer" \in shut)
      BY <1>1, <2>2, Zenon DEF EitherInv
    <3>2. QED
      BY <1>2, <1>6, <1>7, <3>1
  <2>3. QED
    BY <1>6, <2>1, <2>2, Zenon DEF EitherInv
<1>9. FilterInv'
  <2>1. /\ Len(sent["nonnil"]) = Got(Root)
        /\ \A i \in 1..Got(Root) : sent["nonnil"][i] = sent[Root][i]
        /\ "nonnil" \in shut => Root \in shut
        /\ "uniq" \in shut => "nonnil" \in shut
    BY <1>1 DEF FilterInv
  <2>2. /\ Len(sent'["nonnil"]) = Got(Root)'
        /\ \A i \in 1..Got(Root)' : sent'["nonnil"][i] = sent'[Root][i]
        /\ "nonnil" \in shut' => Root \in shut'
        /\ "uniq" \in shut' => "nonnil" \in shut'
    BY <1>2, <1>7, <2>1
  <2>3. QED
    BY <1>6, <2>2, Zenon DEF FilterInv
<1>10. UniqueInv'
  BY <1>1, <1>2, TheChans, UniqueKept
<1>11. QED
  BY <1>2, <1>3, <1>5, <1>8, <1>9, <1>10 DEF PolicyInv, Steady

LEMMA EitherEndsStep == PolicyInv /\ EitherEnds => PolicyInv'
<1> SUFFICES ASSUME PolicyInv, EitherEnds PROVE PolicyInv'
  OBVIOUS
<1>1. /\ Runs("either") /\ CloseChan("either")
      /\ "user" \in shut /\ (count > 0 \/ "outer" \in shut)
      /\ UNCHANGED <<configVars, mixVars, count, later, seen, emitted>>
  BY DEF EitherEnds
<1>2. QED
  BY <1>1, CloseDownstream

LEMMA FilterEndsStep ==
  ASSUME PolicyInv, NEW c \in {"nonnil", "uniq"}, FilterEnds(c)
  PROVE  PolicyInv'
<1>1. /\ Runs(c) /\ CloseChan(c)
      /\ (IF c = "nonnil" THEN Root ELSE "nonnil") \in shut
      /\ UNCHANGED <<configVars, mixVars, count, later, seen, emitted>>
  BY DEF FilterEnds
<1>2. (c = "nonnil" => Root \in shut) /\ (c = "uniq" => "nonnil" \in shut) /\ c # "either"
  BY <1>1
<1>3. QED
  BY <1>1, <1>2, CloseDownstream

LEMMA FilterOutNilStep == PolicyInv /\ FilterOutNil => PolicyInv'
<1> SUFFICES ASSUME PolicyInv, FilterOutNil PROVE PolicyInv'
  OBVIOUS
<1>1. /\ PolicyTypes /\ Flow /\ Mixers \subseteq Chans /\ Root \in Chans /\ "nonnil" \in Chans
      /\ "nonnil" # Root /\ "uniq" # Root
      /\ EitherInv /\ FilterInv /\ UniqueInv
  BY InvParts, TheChans, RootType
<1>2. PICK c : c = Root
  OBVIOUS
<1>3. /\ Receive("nonnil", c, IF Head(todo[c]) # Nil THEN <<Head(todo[c])>> ELSE << >>)
      /\ todo[c] # << >>
      /\ UNCHANGED <<configVars, mixVars, count, later, seen, emitted>>
  BY <1>2 DEF FilterOutNil, Sends
<1>4. Head(todo[c]) \in Tacs
  BY <1>1, <1>2, <1>3, FlowOf, SuffixTail
<1>5. PICK h : h = Head(todo[c])
  OBVIOUS
<1>6. <<h>> \in Seq(Tacs) /\ h \in Tacs /\ h # Nil
  BY <1>4, <1>5, NilIsNone
<1>7. Receive("nonnil", c, <<h>>)
  BY <1>3, <1>5, <1>6
<1>8. /\ Steady /\ begun' = begun /\ shut' = shut /\ "nonnil" \in begun \ shut
      /\ sent'["nonnil"] = sent["nonnil"] \o <<h>>
      /\ \A x \in Chans \ {"nonnil"} : sent'[x] = sent[x]
      /\ Got(c)' = Got(c) + 1 /\ Got(c) \in Nat
      /\ \A x \in Chans \ {c} : Got(x)' = Got(x)
      /\ h = sent[c][Got(c) + 1]
  BY <1>1, <1>2, <1>5, <1>6, <1>7, ReceiveSteady
<1>9. PolicyTypes'
  BY <1>1, <1>3, <1>8, SameTypes, TypesKept DEF mixVars
<1>10. \A m \in Mixers : sent'[m] = sent[m] /\ (m \in shut' => alive[m] = {})
  BY <1>8, TheChans, MixOf
<1>11. c \in {"outer", "either"}
  BY <1>2, RootType
<1>12. MixInv("inner")' /\ MixInv("outer")'
  BY <1>3, <1>8, <1>10, <1>11, TheChans, MixersKept
<1>13. user' = user /\ Root' = Root /\ count' = count /\ seen' = seen /\ emitted' = emitted
  BY <1>3 DEF Root, configVars
<1>14. EitherInv'
  <2>1. CASE user = << >>
    BY <1>1, <1>8, <1>13, <2>1 DEF EitherInv
  <2>2. CASE user # << >>
    <3>1. c = "either"
      BY <1>2, <2>2 DEF Root
    <3>2. QED
      BY <1>1, <1>8, <1>13, <3>1, TheChans, EitherKept
  <2>3. QED
    BY <2>1, <2>2
<1>15. UniqueInv'
  BY <1>1, <1>2, <1>8, <1>11, <1>13, TheChans, UniqueKept
<1>16. FilterInv'
  <2>1. PICK k : k = Got(c)
    OBVIOUS
  <2>2. PICK s : s = sent["nonnil"]
    OBVIOUS
  <2>3. PICK g : g = sent'["nonnil"]
    OBVIOUS
  <2>4. k \in Nat /\ Len(s) = k /\ \A i \in 1..k : s[i] = sent[c][i]
    BY <1>1, <1>2, <1>8, <2>1, <2>2 DEF FilterInv
  <2>5. Len(g) = Len(s) + 1 /\ g[Len(s) + 1] = h /\ \A i \in 1..Len(s) : g[i] = s[i]
    BY <1>1, <1>6, <1>8, <2>2, <2>3, FlowOf, OneMore
  <2>6. sent'[c] = sent[c] /\ Got(c)' = k + 1 /\ h = sent[c][k + 1]
    BY <1>1, <1>2, <1>8, <2>1
  <2>7. \A i \in 1..(k + 1) : g[i] = sent[c][i]
    BY <2>4, <2>5, <2>6
  <2>8. ("uniq" \in shut => "nonnil" \in shut) /\ "nonnil" \notin shut
    BY <1>1, <1>8 DEF FilterInv
  <2>9. /\ Len(sent'["nonnil"]) = Got(c)'
        /\ \A i \in 1..Got(c)' : sent'["nonnil"][i] = sent'[c][i]
        /\ "nonnil" \in shut' => c \in shut'
        /\ "uniq" \in shut' => "nonnil" \in shut'
    <3>1. Len(sent'["nonnil"]) = Got(c)'
      BY <2>3, <2>4, <2>5, <2>6
    <3>2. \A i \in 1..Got(c)' : sent'["nonnil"][i] = sent'[c][i]
      BY <2>3, <2>6, <2>7, Zenon
    <3>3. QED
      BY <1>8, <2>8, <3>1, <3>2, Zenon
  <2>10. QED
    BY <1>2, <1>13, <2>9, Zenon DEF FilterInv
<1>17. QED
  BY <1>8, <1>9, <1>12, <1>14, <1>15, <1>16 DEF PolicyInv, Steady

LEMMA KeepUniqueStep == PolicyInv /\ KeepUnique => PolicyInv'
<1> SUFFICES ASSUME PolicyInv, KeepUnique PROVE PolicyInv'
  OBVIOUS
<1>1. /\ PolicyTypes /\ Flow /\ Mixers \subseteq Chans /\ Root \in Chans
      /\ "nonnil" \in Chans /\ "uniq" \in Chans /\ "uniq" # "nonnil"
      /\ EitherInv /\ FilterInv /\ UniqueInv
  BY InvParts, TheChans, RootType
<1>2. PICK h : h = Head(todo["nonnil"])
  OBVIOUS
<1>3. /\ Receive("uniq", "nonnil", IF h \in seen THEN << >> ELSE <<h>>)
      /\ todo["nonnil"] # << >> /\ seen' = seen \cup {h}
      /\ UNCHANGED <<configVars, mixVars, count, later, emitted>>
  BY <1>2 DEF KeepUnique, Sends
<1>4. h \in Tacs
  BY <1>1, <1>2, <1>3, FlowOf, SuffixTail
<1>5. PICK new : new = IF h \in seen THEN << >> ELSE <<h>>
  OBVIOUS
<1>6. new \in Seq(Tacs) /\ Receive("uniq", "nonnil", new)
  BY <1>3, <1>4, <1>5
<1>7. /\ Steady /\ begun' = begun /\ shut' = shut
      /\ sent'["uniq"] = sent["uniq"] \o new
      /\ \A x \in Chans \ {"uniq"} : sent'[x] = sent[x]
      /\ Got("nonnil")' = Got("nonnil") + 1 /\ Got("nonnil") \in Nat
      /\ \A x \in Chans \ {"nonnil"} : Got(x)' = Got(x)
      /\ h = sent["nonnil"][Got("nonnil") + 1]
  BY <1>1, <1>2, <1>6, ReceiveSteady
<1>8. PolicyTypes'
  BY <1>1, <1>3, <1>7, SameTypes, TypesKept DEF mixVars
<1>9. \A m \in Mixers : sent'[m] = sent[m] /\ (m \in shut' => alive[m] = {})
  BY <1>7, TheChans, MixOf
<1>10. MixInv("inner")' /\ MixInv("outer")'
  BY <1>3, <1>7, <1>9, TheChans, MixersKept
<1>11. user' = user /\ Root' = Root /\ count' = count /\ emitted' = emitted
  BY <1>3 DEF Root, configVars
<1>12. EitherInv'
  BY <1>1, <1>7, <1>11, TheChans, EitherKept
<1>13. FilterInv'
  <2>1. Got(Root)' = Got(Root)
    BY <1>1, <1>7, <1>11, RootType
  <2>2. QED
    BY <1>1, <1>7, <1>11, <2>1, TheChans, FilterKept
<1>14. UniqueInv'
  <2>1. PICK s : s = sent["nonnil"]
    OBVIOUS
  <2>2. PICK u : u = sent["uniq"]
    OBVIOUS
  <2>3. PICK g : g = Got("nonnil")
    OBVIOUS
  <2>4. Deduped(u, s, g, seen) /\ u \in Seq(Tacs) /\ g \in Nat /\ h = s[g + 1]
    BY <1>1, <1>7, <2>1, <2>2, <2>3, FlowOf DEF UniqueInv
  <2>5. Deduped(u \o new, s, g + 1, seen \cup {h})
    <3>1. CASE h \in seen
      <4>1. u \o new = u
        BY <1>5, <2>4, <3>1
      <4>2. QED
        BY <2>4, <3>1, <4>1, DedupedOld
    <3>2. CASE h \notin seen
      <4>1. new = <<h>>
        BY <1>5, <3>2
      <4>2. QED
        BY <1>4, <2>4, <3>2, <4>1, DedupedNew
    <3>3. QED
      BY <3>1, <3>2
  <2>6. Deduped(sent'["uniq"], sent'["nonnil"], Got("nonnil")', seen')
    <3>1. sent'["nonnil"] = s /\ sent'["uniq"] = u \o new /\ Got("nonnil")' = g + 1
      BY <1>1, <1>7, <2>1, <2>2, <2>3
    <3>2. QED
      BY <1>3, <2>5, <3>1, Zenon
  <2>7. Got("uniq")' = Got("uniq")
    BY <1>1, <1>7
  <2>8. Len(emitted) = Got("uniq") /\ \A i \in 1..Len(emitted) : emitted[i] = sent["uniq"][i]
    BY <1>1 DEF UniqueInv
  <2>9. \A i \in 1..Got("uniq") : sent'["uniq"][i] = sent["uniq"][i]
    BY <1>1, <1>7, KeptGot
  <2>10. Len(emitted') = Got("uniq")' /\ \A i \in 1..Len(emitted') : emitted'[i] = sent'["uniq"][i]
    BY <1>11, <2>7, <2>8, <2>9
  <2>11. QED
    BY <2>6, <2>10 DEF UniqueInv
<1>15. QED
  BY <1>7, <1>8, <1>10, <1>12, <1>13, <1>14 DEF PolicyInv, Steady

LEMMA WorkerReceivesStep == PolicyInv /\ WorkerReceives => PolicyInv'
<1> SUFFICES ASSUME PolicyInv, WorkerReceives PROVE PolicyInv'
  OBVIOUS
<1>1. /\ PolicyTypes /\ Flow /\ Mixers \subseteq Chans /\ Root \in Chans /\ "uniq" \in Chans
      /\ EitherInv /\ FilterInv /\ UniqueInv
  BY InvParts, TheChans, RootType
<1>2. PICK h : h = Head(todo["uniq"])
  OBVIOUS
<1>3. /\ Sends("uniq") /\ todo' = [todo EXCEPT !["uniq"] = Tail(todo["uniq"])]
      /\ begun' = begun /\ sent' = sent /\ shut' = shut
      /\ emitted' = Append(emitted, h)
      /\ UNCHANGED <<configVars, mixVars, count, later, seen>>
  BY <1>2 DEF WorkerReceives
<1>4. /\ Steady /\ Got("uniq")' = Got("uniq") + 1 /\ Got("uniq") \in Nat
      /\ h = sent["uniq"][Got("uniq") + 1] /\ h \in Tacs
      /\ \A x \in Chans \ {"uniq"} : Got(x)' = Got(x)
  BY <1>1, <1>2, <1>3, TakeSteady
<1>5. PICK e : e = emitted'
  OBVIOUS
<1>6. /\ e \in Seq(Tacs) /\ Len(e) = Len(emitted) + 1 /\ e[Len(emitted) + 1] = h
      /\ \A k \in 1..Len(emitted) : e[k] = emitted[k]
  <2>1. emitted \in Seq(Tacs)
    BY <1>1, SameTypes
  <2>2. QED
    BY <1>3, <1>4, <1>5, <2>1
<1>7. PolicyTypes'
  BY <1>1, <1>3, <1>4, <1>5, <1>6, SameTypes, TypesKept DEF mixVars
<1>8. \A m \in Mixers : sent'[m] = sent[m] /\ (m \in shut' => alive[m] = {})
  BY <1>3, MixOf
<1>9. MixInv("inner")' /\ MixInv("outer")'
  BY <1>3, <1>4, <1>8, TheChans, MixersKept
<1>10. user' = user /\ Root' = Root /\ count' = count /\ seen' = seen
  BY <1>3 DEF Root, configVars
<1>11. EitherInv'
  BY <1>1, <1>3, <1>4, <1>10, TheChans, EitherKept
<1>12. FilterInv'
  <2>1. Got(Root)' = Got(Root)
    BY <1>1, <1>4, <1>10, RootType
  <2>2. QED
    BY <1>1, <1>3, <1>4, <1>10, <2>1, FilterKept
<1>13. UniqueInv'
  <2>1. PICK g : g = Got("uniq")
    OBVIOUS
  <2>2. Len(emitted) = g /\ \A i \in 1..g : emitted[i] = sent["uniq"][i]
    BY <1>1, <2>1 DEF UniqueInv
  <2>3. g \in Nat /\ Got("uniq")' = g + 1 /\ h = sent["uniq"][g + 1]
    BY <1>4, <2>1
  <2>4. Len(e) = g + 1 /\ \A i \in 1..(g + 1) : e[i] = sent["uniq"][i]
    BY <1>6, <2>2, <2>3
  <2>5. Got("nonnil")' = Got("nonnil")
    BY <1>4, TheChans
  <2>6. Deduped(sent'["uniq"], sent'["nonnil"], Got("nonnil")', seen')
    BY <1>1, <1>3, <1>10, <2>5 DEF UniqueInv
  <2>7. Len(emitted') = Got("uniq")' /\ \A i \in 1..Len(emitted') : emitted'[i] = sent'["uniq"][i]
    BY <1>3, <1>5, <2>3, <2>4, Zenon
  <2>8. QED
    BY <2>6, <2>7, Zenon DEF UniqueInv
<1>14. QED
  BY <1>4, <1>7, <1>9, <1>11, <1>12, <1>13 DEF PolicyInv, Steady

\* Nothing that the invariant is about changes.
LEMMA QuietStep ==
  ASSUME PolicyInv, UNCHANGED <<chanVars, configVars, mixVars, count, later, seen, emitted>>
  PROVE  PolicyInv'
<1>1. PolicyTypes /\ Flow /\ Mixers \subseteq Chans
  BY InvParts, TheChans
<1>2. /\ begun' = begun \cup {} /\ begun' = begun /\ todo' = todo /\ sent' = sent /\ shut' = shut
      /\ {} \in SUBSET Chans
  BY DEF chanVars
<1>3. Steady /\ \A x \in Chans : sent'[x] = sent[x] /\ Got(x)' = Got(x)
  BY <1>1, <1>2, StartSteady
<1>4. PolicyTypes'
  BY <1>1, <1>3, SameTypes, TypesKept DEF mixVars
<1>5. \A m \in Mixers : sent'[m] = sent[m] /\ (m \in shut' => alive[m] = {})
  BY <1>2, MixOf
<1>6. MixInv("inner")' /\ MixInv("outer")'
  BY <1>3, <1>5, TheChans, MixersKept
<1>7. EitherInv' /\ FilterInv' /\ UniqueInv'
  BY <1>2, <1>3, TheChans, DownstreamKept
<1>8. QED
  BY <1>3, <1>4, <1>6, <1>7 DEF PolicyInv, Steady

LEMMA PolicyStep == PolicyInv /\ [PolicyNext]_policyVars => PolicyInv'
<1> SUFFICES ASSUME PolicyInv, [PolicyNext]_policyVars PROVE PolicyInv'
  OBVIOUS
<1>1. CASE Sources
  BY <1>1, StatsStep, BridgesStep, DNSStep, CloseSourceStep DEF Sources
<1>2. CASE TestHelpers
  BY <1>2, ExtendReceivesStep, ExtendOneStep, ExtendEndsStep DEF TestHelpers
<1>3. CASE \E m \in Mixers : MixPolicy(m)
  BY <1>3, MixBeginsStep, MixTakesStep, MixDrainsStep, MixGoesOnStep, MixEndsStep DEF MixPolicy
<1>4. CASE EitherOr
  BY <1>4, EitherReceivesStep, EitherFallsBackStep, EitherEndsStep DEF EitherOr
<1>5. CASE Filters
  BY <1>5, FilterOutNilStep, KeepUniqueStep, FilterEndsStep DEF Filters
<1>6. CASE WorkerReceives
  BY <1>6, WorkerReceivesStep
<1>7. CASE Cancel \/ UNCHANGED policyVars
  BY <1>7, QuietStep DEF Cancel, policyVars
<1>8. QED
  BY <1>1, <1>2, <1>3, <1>4, <1>5, <1>6, <1>7 DEF PolicyNext, Pipeline, Drained

-----------------------------------------------------------------------------
(* The initial states.                                                     *)

LEMMA UserListType ==
  ASSUME domain \in SNIs, user \in UserPolicies, user # << >>
  PROVE  userPolicyRemoveNilEntries(user[1]) \in Seq(Tacs)
<1>1. PICK u : u = Tactic("user", domain)
  OBVIOUS
<1>2. "user" \in Addrs
  BY DEF Addrs
<1>3. u \in Tacs
  BY <1>1, <1>2, TacticType
<1>4. PICK list : list = user[1]
  OBVIOUS
<1>5. list = << >> \/ list = <<Nil>> \/ list = <<Nil, u, u>>
  BY <1>1, <1>4 DEF UserPolicies
<1>6. CASE list = << >>
  <2>1. Len(list) = 0
    BY <1>6
  <2>2. QED
    BY <1>3, <1>4, <2>1, UserType
<1>7. CASE list = <<Nil>>
  <2>1. Len(list) = 1 /\ list[1] = Nil
    BY <1>7
  <2>2. QED
    BY <1>3, <1>4, <2>1, UserType
<1>8. CASE list = <<Nil, u, u>>
  <2>1. Len(list) = 3 /\ list[1] = Nil /\ list[2] = u /\ list[3] = u
    BY <1>8
  <2>2. QED
    BY <1>3, <1>4, <2>1, UserType
<1>9. QED
  BY <1>5, <1>6, <1>7, <1>8

LEMMA PolicyStart == PolicyInit => PolicyInv
<1> SUFFICES ASSUME PolicyInit PROVE PolicyInv
  OBVIOUS
<1>1. /\ domain \in {"api", "th", "other"} /\ domain \in SNIs
      /\ user \in UserPolicies /\ stats \in WorkingTactics
      /\ begun = {"uniq", "nonnil"} \cup IF user = << >> THEN {"outer"} ELSE {"either", "user"}
      /\ todo = [c \in Chans |-> IF c = "user" /\ user # << >>
                                 THEN userPolicyRemoveNilEntries(user[1]) ELSE << >>]
      /\ shut = {} /\ turn = [m \in Mixers |-> Primary(m)] /\ taken = [m \in Mixers |-> 0]
      /\ alive = [m \in Mixers |-> Inputs(m)] /\ count = 0 /\ later = << >> /\ seen = {}
      /\ sent = todo /\ emitted = << >>
  <2>1. domain \in DialNames /\ DialNames \subseteq {"api", "th", "other"}
    BY PolicyAssumption DEF PolicyInit
  <2>2. QED
    BY <2>1 DEF PolicyInit, SNIs
<1>2. stats \in Seq(Tacs)
  BY <1>1, WorkingType
<1>3. PICK l : l = IF user # << >> THEN userPolicyRemoveNilEntries(user[1]) ELSE << >>
  OBVIOUS
<1>4. l \in Seq(Tacs) /\ << >> \in Seq(Tacs)
  BY <1>1, <1>3, UserListType
<1>5. todo = [c \in Chans |-> IF c = "user" THEN l ELSE << >>]
  BY <1>1, <1>3
<1>6. \A c \in Chans : todo[c] = IF c = "user" THEN l ELSE << >>
  BY <1>5
<1>7. todo \in [Chans -> Seq(Tacs)] /\ sent \in [Chans -> Seq(Tacs)]
  BY <1>1, <1>4, <1>5
<1>8. PolicyTypes
  <2>1. begun \subseteq Chans /\ shut \subseteq begun
    BY <1>1, TheChans
  <2>2. turn \in [Mixers -> Chans] /\ alive \in [Mixers -> SUBSET Chans]
    <3>1. \A m \in Mixers : Primary(m) \in Chans /\ Inputs(m) \subseteq Chans
      BY MixChans
    <3>2. QED
      BY <1>1, <3>1
  <2>3. taken \in [Mixers -> Nat]
    BY <1>1
  <2>4. QED
    BY <1>1, <1>2, <1>4, <1>7, <2>1, <2>2, <2>3 DEF PolicyTypes
<1>9. \A c \in Chans : Got(c) = 0
  <2>1. ASSUME NEW c \in Chans PROVE Got(c) = 0
    <3>1. todo[c] \in Seq(Tacs)
      BY <1>7
    <3>2. Len(todo[c]) \in Nat
      BY <3>1
    <3>3. Got(c) = Len(todo[c]) - Len(todo[c])
      BY <1>1 DEF Got
    <3>4. QED
      BY <3>2, <3>3
  <2>2. QED
    BY <2>1
<1>10. Flow
  <2>1. ASSUME NEW c \in Chans
        PROVE  /\ Suffix(todo[c], sent[c]) /\ (c \in shut => todo[c] = << >>)
               /\ (c \notin begun => sent[c] = << >>)
    <3>1. PICK t : t = todo[c]
      OBVIOUS
    <3>2. t \in Seq(Tacs) /\ sent[c] = t
      BY <1>1, <1>7, <3>1
    <3>3. Len(t) \in Nat
      BY <3>2
    <3>4. Suffix(t, t)
      BY <3>3 DEF Suffix
    <3>5. c \notin begun => t = << >>
      BY <1>1, <1>3, <1>6, <3>1
    <3>6. QED
      BY <1>1, <3>1, <3>2, <3>4, <3>5
  <2>2. QED
    BY <2>1 DEF Flow
<1>11. ASSUME NEW m \in Mixers, m \in Chans PROVE MixInv(m)
  <2>1. PICK p : p = Primary(m)
    OBVIOUS
  <2>2. PICK f : f = Fallback(m)
    OBVIOUS
  <2>3. p \in Chans /\ f \in Chans /\ Inputs(m) = {p, f}
    BY <2>1, <2>2, MixChans
  <2>4. p # "user" /\ f # "user" /\ m # "user"
    BY <2>1, <2>2, TheChans
  <2>5. /\ Got(p) = 0 /\ Got(f) = 0 /\ sent[p] = << >> /\ sent[f] = << >> /\ sent[m] = << >>
    BY <1>1, <1>6, <1>9, <1>11, <2>3, <2>4
  <2>6. turn[m] = p /\ taken[m] = 0 /\ alive[m] = {p, f} /\ shut = {}
    BY <1>1, <2>1, <2>3
  <2>7. Placed(sent[p], Got(p), sent[f], Got(f), sent[m], p \in shut, f \in shut)
    <3>1. Len(sent[m]) = 0 + 0 /\ 1..0 = {} /\ 1..Len(sent[m]) = {}
      BY <2>5
    <3>2. QED
      BY <2>5, <3>1 DEF Placed
  <2>8. Turns(turn[m], taken[m], alive[m], p, f, Got(p), Got(f))
    <3>1. 0 \in Nat /\ IsBlock(0) /\ 0 + 0 = 0
      BY Blocks
    <3>2. QED
      BY <2>5, <2>6, <3>1 DEF Turns
  <2>9. 0 \in 0..(N - 1)
    BY NPositive
  <2>10. QED
    BY <2>1, <2>2, <2>3, <2>6, <2>7, <2>8, <2>9 DEF MixInv
<1>12. MixInv("inner") /\ MixInv("outer")
  BY <1>11, TheChans
<1>13. EitherInv
  <2>1. user = << >> => begun \cap {"user", "either"} = {}
    BY <1>1
  <2>2. ASSUME user # << >>
        PROVE  /\ count = Got("user")
               /\ "outer" \in begun => "user" \in shut /\ count = 0
               /\ Len(sent["either"]) = Got("user") + Got("outer")
               /\ \A i \in 1..Got("user") : sent["either"][i] = sent["user"][i]
               /\ \A i \in 1..Got("outer") : sent["either"][i] = sent["outer"][i]
               /\ "either" \in shut => "user" \in shut /\ (count > 0 \/ "outer" \in shut)
    <3>1. Got("user") = 0 /\ Got("outer") = 0 /\ sent["either"] = << >>
      BY <1>1, <1>6, <1>9, TheChans
    <3>2. Len(sent["either"]) = 0 /\ 1..0 = {}
      BY <3>1
    <3>3. "outer" \notin begun
      BY <1>1, <2>2
    <3>4. QED
      BY <1>1, <3>1, <3>2, <3>3
  <2>3. QED
    BY <2>1, <2>2, Zenon DEF EitherInv
<1>14. FilterInv
  <2>1. Got(Root) = 0 /\ sent["nonnil"] = << >>
    BY <1>1, <1>6, <1>9, TheChans, RootType
  <2>2. Len(sent["nonnil"]) = 0 /\ 1..0 = {}
    BY <2>1
  <2>3. QED
    BY <1>1, <2>1, <2>2 DEF FilterInv
<1>15. UniqueInv
  <2>1. Got("nonnil") = 0 /\ Got("uniq") = 0 /\ sent["uniq"] = << >> /\ sent["nonnil"] = << >>
    BY <1>1, <1>6, <1>9, TheChans
  <2>2. Len(<< >>) = 0 /\ 1..0 = {} /\ ToSet(<< >>) = {}
    BY DEF ToSet
  <2>3. Deduped(sent["uniq"], sent["nonnil"], Got("nonnil"), seen)
    BY <1>1, <2>1, <2>2 DEF Deduped
  <2>4. QED
    BY <1>1, <2>1, <2>2, <2>3 DEF UniqueInv
<1>16. QED
  BY <1>8, <1>10, <1>12, <1>13, <1>14, <1>15 DEF PolicyInv

\* The inductive invariant of the policies: where each tactic is between the policy
\* that produced it and the workers, and the place it has in every channel.
THEOREM PolicyInvariance == PolicySpec => []PolicyInv
<1>1. PolicyInit => PolicyInv
  BY PolicyStart
<1>2. PolicyInv /\ [PolicyNext]_policyVars => PolicyInv'
  BY PolicyStep
<1>3. QED
  BY <1>1, <1>2, PTL DEF PolicySpec

-----------------------------------------------------------------------------
(* What the workers get.                                                   *)

\* A mixer that is done has received everything from its inputs.
LEMMA MixerDone ==
  ASSUME PolicyInv, NEW m \in Mixers, m \in shut
  PROVE  /\ Primary(m) \in shut /\ Fallback(m) \in shut
         /\ sent[Primary(m)] \in Seq(Tacs) /\ sent[Fallback(m)] \in Seq(Tacs) /\ sent[m] \in Seq(Tacs)
         /\ Placed(sent[Primary(m)], Len(sent[Primary(m)]), sent[Fallback(m)], Len(sent[Fallback(m)]),
                   sent[m], Primary(m) \in shut, Fallback(m) \in shut)
<1>1. PICK p : p = Primary(m)
  OBVIOUS
<1>2. PICK f : f = Fallback(m)
  OBVIOUS
<1>3. PolicyTypes /\ Flow /\ m \in Chans /\ p \in Chans /\ f \in Chans /\ MixInv(m)
  BY <1>1, <1>2, InvParts, MixChans, MixOf
<1>4. p \in shut /\ f \in shut
  BY <1>1, <1>2, <1>3 DEF MixInv
<1>5. Got(p) = Len(sent[p]) /\ Got(f) = Len(sent[f])
  BY <1>3, <1>4, FlowOf
<1>6. Placed(sent[p], Got(p), sent[f], Got(f), sent[m], p \in shut, f \in shut)
  BY <1>1, <1>2, <1>3, Zenon DEF MixInv
<1>7. sent[p] \in Seq(Tacs) /\ sent[f] \in Seq(Tacs) /\ sent[m] \in Seq(Tacs)
  BY <1>3, FlowOf
<1>8. QED
  BY <1>1, <1>2, <1>4, <1>5, <1>6, <1>7, Zenon

LEMMA Interleaved == PolicyInv => MixIsInterleaving
<1> SUFFICES ASSUME PolicyInv, NEW m \in Mixers \cap shut
             PROVE  sent[m] = InterleavingOf(sent[Primary(m)], sent[Fallback(m)])
  BY DEF MixIsInterleaving
<1>1. /\ sent[Primary(m)] \in Seq(Tacs) /\ sent[Fallback(m)] \in Seq(Tacs) /\ sent[m] \in Seq(Tacs)
      /\ Placed(sent[Primary(m)], Len(sent[Primary(m)]), sent[Fallback(m)], Len(sent[Fallback(m)]),
                sent[m], Primary(m) \in shut, Fallback(m) \in shut)
  BY MixerDone
<1>2. PICK cp \in BOOLEAN : cp <=> Primary(m) \in shut
  OBVIOUS
<1>3. PICK cf \in BOOLEAN : cf <=> Fallback(m) \in shut
  OBVIOUS
<1>4. Placed(sent[Primary(m)], Len(sent[Primary(m)]), sent[Fallback(m)], Len(sent[Fallback(m)]),
             sent[m], cp, cf)
  BY <1>1, <1>2, <1>3 DEF Placed
<1>5. QED
  BY <1>1, <1>4, PlacedDone

\* The tactics of a mixer are those of its inputs.
LEMMA PlacedSet ==
  ASSUME NEW sp \in Seq(Tacs), NEW sf \in Seq(Tacs), NEW sm \in Seq(Tacs), NEW cp, NEW cf,
         Placed(sp, Len(sp), sf, Len(sf), sm, cp, cf)
  PROVE  ToSet(sm) = ToSet(sp) \cup ToSet(sf)
<1>1. DOMAIN sp = 1..Len(sp) /\ DOMAIN sf = 1..Len(sf) /\ DOMAIN sm = 1..Len(sm)
  OBVIOUS
<1>2. \A i \in 1..Len(sp) : sp[i] \in ToSet(sm)
  BY <1>1 DEF Placed, ToSet
<1>3. \A j \in 1..Len(sf) : sf[j] \in ToSet(sm)
  BY <1>1 DEF Placed, ToSet
<1>4. \A k \in 1..Len(sm) : (\E i \in 1..Len(sp) : sm[k] = sp[i]) \/ (\E j \in 1..Len(sf) : sm[k] = sf[j])
  <2>1. /\ \A i \in 1..Len(sp) : sm[At(i, Len(sf), 0)] = sp[i]
        /\ \A j \in 1..Len(sf) : sm[At(j, Len(sp), 1)] = sf[j]
        /\ \A k \in 1..Len(sm) : \/ \E i \in 1..Len(sp) : At(i, Len(sf), 0) = k
                                 \/ \E j \in 1..Len(sf) : At(j, Len(sp), 1) = k
    BY Zenon DEF Placed
  <2>2. QED
    BY <2>1, Zenon
<1>5. ToSet(sm) \subseteq ToSet(sp) \cup ToSet(sf)
  BY <1>1, <1>4 DEF ToSet
<1>6. ToSet(sp) \subseteq ToSet(sm) /\ ToSet(sf) \subseteq ToSet(sm)
  BY <1>1, <1>2, <1>3 DEF ToSet
<1>7. QED
  BY <1>5, <1>6

LEMMA MixerSet ==
  ASSUME PolicyInv, NEW m \in Mixers, m \in shut
  PROVE  ToSet(sent[m]) = ToSet(sent[Primary(m)]) \cup ToSet(sent[Fallback(m)])
<1>1. /\ sent[Primary(m)] \in Seq(Tacs) /\ sent[Fallback(m)] \in Seq(Tacs) /\ sent[m] \in Seq(Tacs)
      /\ Placed(sent[Primary(m)], Len(sent[Primary(m)]), sent[Fallback(m)], Len(sent[Fallback(m)]),
                sent[m], Primary(m) \in shut, Fallback(m) \in shut)
  BY MixerDone
<1>2. PICK cp \in BOOLEAN : cp <=> Primary(m) \in shut
  OBVIOUS
<1>3. PICK cf \in BOOLEAN : cf <=> Fallback(m) \in shut
  OBVIOUS
<1>4. Placed(sent[Primary(m)], Len(sent[Primary(m)]), sent[Fallback(m)], Len(sent[Fallback(m)]),
             sent[m], cp, cf)
  BY <1>1, <1>2, <1>3 DEF Placed
<1>5. QED
  BY <1>1, <1>4, PlacedSet

\* Two lists with the same elements in the same order
SameList(x, y) == Len(x) = Len(y) /\ \A i \in 1..Len(x) : x[i] = y[i]

LEMMA SameSet ==
  ASSUME NEW x \in Seq(Tacs), NEW y \in Seq(Tacs), SameList(x, y)
  PROVE  ToSet(x) = ToSet(y)
BY DEF SameList, ToSet

\* When the workers see that the channel is closed, every stage has passed on
\* what it was given.
LEMMA AllThrough ==
  ASSUME PolicyInv, "uniq" \in shut
  PROVE  /\ Len(emitted) = Len(sent["uniq"])
         /\ SameList(emitted, sent["uniq"])
         /\ Got("nonnil") = Len(sent["nonnil"])
         /\ SameList(sent["nonnil"], sent[Root])
         /\ IF sent["user"] # << >> THEN SameList(sent[Root], sent["user"])
            ELSE "outer" \in shut /\ SameList(sent[Root], sent["outer"])
<1>1. /\ PolicyTypes /\ Flow /\ EitherInv /\ FilterInv /\ UniqueInv
      /\ "uniq" \in Chans /\ "nonnil" \in Chans /\ "user" \in Chans /\ "outer" \in Chans
      /\ "either" \in Chans /\ Root \in Chans
  BY InvParts, TheChans, RootType
<1>2. Got("uniq") = Len(sent["uniq"]) /\ "nonnil" \in shut
  BY <1>1, FlowOf DEF FilterInv
<1>3. Got("nonnil") = Len(sent["nonnil"]) /\ Root \in shut
  BY <1>1, <1>2, FlowOf DEF FilterInv
<1>4. Got(Root) = Len(sent[Root])
  BY <1>1, <1>3, FlowOf
<1>5. SameList(emitted, sent["uniq"]) /\ Len(emitted) = Len(sent["uniq"])
  BY <1>1, <1>2 DEF UniqueInv, SameList
<1>6. SameList(sent["nonnil"], sent[Root])
  BY <1>1, <1>4 DEF FilterInv, SameList
<1>7. CASE user = << >>
  <2>1. Root = "outer" /\ "user" \notin begun
    BY <1>1, <1>7 DEF Root, EitherInv
  <2>2. sent["user"] = << >>
    BY <1>1, <2>1, FlowOf
  <2>3. SameList(sent["outer"], sent["outer"])
    BY DEF SameList
  <2>4. QED
    BY <1>3, <1>5, <1>6, <2>1, <2>2, <2>3
<1>8. CASE user # << >>
  <2>1. Root = "either"
    BY <1>8 DEF Root
  <2>2. /\ count = Got("user")
        /\ "outer" \in begun => "user" \in shut /\ count = 0
        /\ Len(sent["either"]) = Got("user") + Got("outer")
        /\ \A i \in 1..Got("user") : sent["either"][i] = sent["user"][i]
        /\ \A i \in 1..Got("outer") : sent["either"][i] = sent["outer"][i]
        /\ "user" \in shut /\ (count > 0 \/ "outer" \in shut)
    BY <1>1, <1>3, <1>8, <2>1 DEF EitherInv
  <2>3. Got("user") = Len(sent["user"]) /\ sent["user"] \in Seq(Tacs) /\ Got("user") \in Nat
    BY <1>1, <2>2, FlowOf
  <2>4. CASE sent["user"] # << >>
    <3>1. count # 0
      BY <2>2, <2>3, <2>4
    <3>2. Got("outer") = 0
      BY <1>1, <2>2, <3>1, FlowOf
    <3>3. Len(sent["either"]) = Got("user")
      BY <2>2, <2>3, <3>2
    <3>4. SameList(sent["either"], sent["user"])
      BY <2>2, <2>3, <3>3 DEF SameList
    <3>5. QED
      BY <1>3, <1>5, <1>6, <2>1, <2>4, <3>4
  <2>5. CASE sent["user"] = << >>
    <3>1. count = 0
      BY <2>2, <2>3, <2>5
    <3>2. "outer" \in shut
      BY <2>2, <3>1
    <3>3. Got("outer") = Len(sent["outer"]) /\ Len(sent["outer"]) \in Nat
      BY <1>1, <3>2, FlowOf
    <3>4. Len(sent["either"]) = Len(sent["outer"])
      BY <2>2, <3>1, <3>3
    <3>5. SameList(sent["either"], sent["outer"])
      BY <2>2, <3>3, <3>4 DEF SameList
    <3>6. QED
      BY <1>3, <1>5, <1>6, <2>1, <2>5, <3>2, <3>5
  <2>6. QED
    BY <2>4, <2>5
<1>9. QED
  BY <1>7, <1>8

\* Each tactic that was received is new
LEMMA EmittedOnce == PolicyInv => IsInjective(emitted)
<1> SUFFICES ASSUME PolicyInv PROVE IsInjective(emitted)
  OBVIOUS
<1>1. PolicyTypes /\ Flow /\ UniqueInv /\ "uniq" \in Chans
  BY InvParts, TheChans
<1>2. Got("uniq") \in 0..Len(sent["uniq"]) /\ Len(sent["uniq"]) \in Nat
  BY <1>1, FlowOf
<1>3. emitted \in Seq(Tacs)
  BY <1>1, SameTypes
<1>4. DOMAIN emitted = 1..Len(emitted)
  BY <1>3
<1>5. /\ Len(emitted) = Got("uniq") /\ \A i \in 1..Len(emitted) : emitted[i] = sent["uniq"][i]
      /\ \A i, j \in 1..Len(sent["uniq"]) : sent["uniq"][i] = sent["uniq"][j] => i = j
  BY <1>1 DEF UniqueInv, Deduped
<1>6. \A i \in 1..Len(emitted) : i \in 1..Len(sent["uniq"])
  BY <1>2, <1>5
<1>7. QED
  BY <1>4, <1>5, <1>6, Zenon DEF IsInjective

LEMMA EveryOnce == PolicyInv => EveryTacticOnce
<1> SUFFICES ASSUME PolicyInv PROVE EveryTacticOnce
  OBVIOUS
<1>1. ASSUME "uniq" \in shut
      PROVE  ToSet(emitted) = IF sent["user"] # << >> THEN ToSet(sent["user"])
                              ELSE UNION {ToSet(sent[c]) : c \in {"ext", "stats", "bridges"}}
  <2>1. /\ PolicyTypes /\ Flow /\ UniqueInv /\ "uniq" \in Chans /\ "nonnil" \in Chans
        /\ "user" \in Chans /\ "outer" \in Chans /\ Root \in Chans
    BY InvParts, TheChans, RootType
  <2>2. /\ SameList(emitted, sent["uniq"])
        /\ Got("nonnil") = Len(sent["nonnil"])
        /\ SameList(sent["nonnil"], sent[Root])
        /\ IF sent["user"] # << >> THEN SameList(sent[Root], sent["user"])
           ELSE "outer" \in shut /\ SameList(sent[Root], sent["outer"])
    BY <1>1, AllThrough
  <2>3. /\ emitted \in Seq(Tacs) /\ sent["uniq"] \in Seq(Tacs) /\ sent["nonnil"] \in Seq(Tacs)
        /\ sent[Root] \in Seq(Tacs) /\ sent["user"] \in Seq(Tacs) /\ sent["outer"] \in Seq(Tacs)
    BY <2>1, FlowOf, SameTypes
  <2>4. ToSet(emitted) = ToSet(sent["uniq"]) /\ ToSet(sent["nonnil"]) = ToSet(sent[Root])
    BY <2>2, <2>3, SameSet
  <2>5. ToSet(sent["uniq"]) = ToSet(sent["nonnil"])
    <3>1. PICK u : u = sent["uniq"]
      OBVIOUS
    <3>2. PICK s : s = sent["nonnil"]
      OBVIOUS
    <3>3. DOMAIN u = 1..Len(u) /\ DOMAIN s = 1..Len(s)
      BY <2>3, <3>1, <3>2
    <3>4. /\ \A j \in 1..Len(s) : \E i \in 1..Len(u) : i <= j /\ u[i] = s[j]
          /\ \A i \in 1..Len(u) : \E j \in 1..Len(s) : u[i] = s[j]
      BY <2>1, <2>2, <3>1, <3>2 DEF UniqueInv, Deduped
    <3>5. ToSet(u) = ToSet(s)
      <4>1. \A i \in 1..Len(u) : u[i] \in ToSet(s)
        BY <3>3, <3>4, Zenon DEF ToSet
      <4>2. \A j \in 1..Len(s) : s[j] \in ToSet(u)
        BY <3>3, <3>4, Zenon DEF ToSet
      <4>3. ToSet(u) \subseteq ToSet(s)
        BY <3>3, <4>1 DEF ToSet
      <4>4. ToSet(s) \subseteq ToSet(u)
        BY <3>3, <4>2 DEF ToSet
      <4>5. QED
        BY <4>3, <4>4
    <3>6. QED
      BY <3>1, <3>2, <3>5
  <2>6. CASE sent["user"] # << >>
    <3>1. ToSet(sent[Root]) = ToSet(sent["user"])
      BY <2>2, <2>3, <2>6, SameSet
    <3>2. QED
      BY <2>4, <2>5, <2>6, <3>1
  <2>7. CASE sent["user"] = << >>
    <3>1. ToSet(sent[Root]) = ToSet(sent["outer"]) /\ "outer" \in shut
      BY <2>2, <2>3, <2>7, SameSet
    <3>2. "inner" \in shut /\ "outer" \in Mixers /\ "inner" \in Mixers
      BY <3>1, TheChans, MixerDone
    <3>3. ToSet(sent["outer"]) = ToSet(sent["ext"]) \cup ToSet(sent["inner"])
      BY <3>1, <3>2, TheChans, MixerSet
    <3>4. ToSet(sent["inner"]) = ToSet(sent["stats"]) \cup ToSet(sent["bridges"])
      BY <3>2, TheChans, MixerSet
    <3>5. UNION {ToSet(sent[c]) : c \in {"ext", "stats", "bridges"}}
            = ToSet(sent["ext"]) \cup (ToSet(sent["stats"]) \cup ToSet(sent["bridges"]))
      OBVIOUS
    <3>6. QED
      BY <2>4, <2>5, <2>7, <3>1, <3>3, <3>4, <3>5
  <2>8. QED
    BY <2>6, <2>7
<1>2. QED
  BY <1>1, EmittedOnce DEF EveryTacticOnce

LEMMA Early == PolicyInv => FallbackIsEarly
<1> SUFFICES ASSUME PolicyInv, "uniq" \in shut, sent["user"] = << >>, sent["inner"] # << >>
             PROVE  \E k \in 1..Min({Len(emitted), N + 1}) : emitted[k] \in ToSet(sent["inner"])
  BY DEF FallbackIsEarly
<1>1. /\ PolicyTypes /\ Flow /\ UniqueInv /\ "uniq" \in Chans /\ "nonnil" \in Chans
      /\ "inner" \in Chans /\ "ext" \in Chans /\ "outer" \in Mixers
  BY InvParts, TheChans
<1>2. /\ Len(emitted) = Len(sent["uniq"]) /\ SameList(emitted, sent["uniq"])
      /\ Got("nonnil") = Len(sent["nonnil"])
      /\ SameList(sent["nonnil"], sent[Root])
      /\ "outer" \in shut /\ SameList(sent[Root], sent["outer"])
  BY AllThrough
<1>3. /\ sent["inner"] \in Seq(Tacs) /\ sent["ext"] \in Seq(Tacs) /\ sent["outer"] \in Seq(Tacs)
      /\ Placed(sent["ext"], Len(sent["ext"]), sent["inner"], Len(sent["inner"]), sent["outer"],
                "ext" \in shut, "inner" \in shut)
  BY <1>1, <1>2, TheChans, MixerDone
<1>4. PICK n \in Nat : n = Len(sent["ext"])
  BY <1>3
<1>5. 1 \in 1..Len(sent["inner"]) /\ sent["inner"][1] \in ToSet(sent["inner"])
  BY <1>3 DEF ToSet
<1>6. PICK k : k = At(1, n, 1)
  OBVIOUS
<1>7. k \in 1..Len(sent["outer"]) /\ sent["outer"][k] = sent["inner"][1]
  BY <1>3, <1>4, <1>5, <1>6 DEF Placed
<1>8. k <= N + 1
  <2>1. PICK b : b = Before(1, 1)
    OBVIOUS
  <2>2. 0 \in Nat /\ IsBlock(0) /\ 0 \in 0..(N - 1) /\ N \in Nat
    BY Blocks, NPositive
  <2>3. Before(0 + 0 + 1, 1) = 0 + N
    BY <2>2, InBlock
  <2>4. b = N
    BY <2>1, <2>2, <2>3
  <2>5. k = 1 + (IF n <= b THEN n ELSE b)
    BY <1>6, <2>1, Zenon DEF At
  <2>6. QED
    BY <2>2, <2>4, <2>5
<1>9. k \in 1..Len(sent["nonnil"]) /\ sent["nonnil"][k] = sent["inner"][1]
  BY <1>2, <1>7 DEF SameList
<1>10. PICK i \in 1..Len(sent["uniq"]) : i <= k /\ sent["uniq"][i] = sent["nonnil"][k]
  BY <1>1, <1>2, <1>9 DEF UniqueInv, Deduped
<1>11. i \in 1..Len(emitted) /\ emitted[i] = sent["inner"][1]
  BY <1>2, <1>9, <1>10 DEF SameList
<1>12. i \in 1..Min({Len(emitted), N + 1})
  <2>1. Len(emitted) \in Nat
    BY <1>1, SameTypes
  <2>2. PICK l \in Nat : l = Len(emitted)
    BY <2>1
  <2>3. PICK b \in Nat : b = N + 1
    BY NPositive
  <2>4. Min({l, b}) = IF l <= b THEN l ELSE b
    BY Smaller
  <2>5. k \in Nat /\ i <= b /\ i <= l /\ i >= 1 /\ i \in Nat
    BY <1>7, <1>8, <1>10, <1>11, <2>2, <2>3
  <2>6. i \in 1..Min({l, b})
    BY <2>4, <2>5
  <2>7. QED
    BY <2>2, <2>3, <2>6
<1>13. QED
  BY <1>5, <1>11, <1>12

\* Whatever the speed of the policies, what the workers get is the interleaving of
\* what they produced, each tactic once, with a tactic of the stats or bridges
\* policies among the first N + 1 (mixPolicyInterleave, mixPolicyEitherOr and
\* httpsDialerFilterTactics), for every interleaving factor, every list of
\* addresses and of bridges and every set of SNIs.
THEOREM TacticsAreWellMixed == PolicySpec => []TacticsWellMixed
<1>1. PolicyInv => TacticsWellMixed
  BY Interleaved, EveryOnce, Early DEF TacticsWellMixed
<1>2. QED
  BY <1>1, PolicyInvariance, PTL

-----------------------------------------------------------------------------
(* The types.                                                              *)

\* The mixers and the filters send one tactic at a time.
Short == \A c \in {"outer", "uniq"} : Len(todo[c]) <= 1

LEMMA TailShorter ==
  ASSUME NEW t \in Seq(Tacs), t # << >>, Len(t) <= 1
  PROVE  Len(Tail(t)) <= 1
OBVIOUS

LEMMA ReceiveShort ==
  ASSUME PolicyTypes, Short, NEW r \in Chans, NEW c \in Chans, r # c, NEW tactics,
         Receive(r, c, tactics), r \in {"outer", "uniq"} => Len(tactics) <= 1
  PROVE  Short'
<1>1. todo \in [Chans -> Seq(Tacs)] /\ todo[c] # << >>
  BY DEF PolicyTypes, Receive, Sends
<1>2. PICK tc : tc = Tail(todo[c])
  OBVIOUS
<1>3. todo' = [todo EXCEPT ![c] = tc, ![r] = tactics]
  BY <1>2 DEF Receive
<1>4. /\ todo'[c] = tc /\ todo'[r] = tactics
      /\ \A x \in Chans \ {r, c} : todo'[x] = todo[x]
  BY <1>1, <1>3
<1>5. c \in {"outer", "uniq"} => Len(tc) <= 1
  BY <1>1, <1>2, TailShorter DEF Short
<1>6. QED
  BY <1>4, <1>5, TheChans DEF Short

LEMMA OneLong == \A h : Len(<<h>>) = 1 /\ Len(<< >>) = 0
OBVIOUS

LEMMA ShortStep == PolicyInv /\ Short /\ [PolicyNext]_policyVars => Short'
<1> SUFFICES ASSUME PolicyInv, Short, [PolicyNext]_policyVars PROVE Short'
  OBVIOUS
<1>1. PolicyTypes /\ todo \in [Chans -> Seq(Tacs)]
  BY InvParts DEF PolicyTypes
<1>2. ASSUME NEW c \in Chans \ {"outer", "uniq"}, NEW tactics, Produce(c, tactics) PROVE Short'
  <2>1. todo' = [todo EXCEPT ![c] = tactics]
    BY <1>2 DEF Produce
  <2>2. \A x \in Chans \ {c} : todo'[x] = todo[x]
    BY <1>1, <2>1
  <2>3. QED
    BY <2>2, TheChans DEF Short
<1>3. ASSUME todo' = todo PROVE Short'
  BY <1>3 DEF Short
<1>4. CASE Sources
  <2>1. ASSUME NEW c \in {"dns", "stats", "bridges", "user"}, CloseSource(c) PROVE Short'
    BY <1>3, <2>1 DEF CloseSource, CloseChan
  <2>2. QED
    BY <1>2, <1>4, <2>1, TheChans DEF Sources, StatsPolicy, BridgesPolicy, DNSLookup
<1>5. CASE TestHelpers
  <2>1. CASE ExtendReceives
    <3>1. Receive("ext", "dns", <<Head(todo["dns"])>>)
      BY <2>1 DEF ExtendReceives
    <3>2. QED
      BY <1>1, <3>1, TheChans, ReceiveShort
  <2>2. CASE ExtendOne
    BY <1>2, <2>2, TheChans DEF ExtendOne
  <2>3. CASE ExtendEnds
    BY <1>3, <2>3 DEF ExtendEnds, CloseChan
  <2>4. QED
    BY <1>5, <2>1, <2>2, <2>3 DEF TestHelpers
<1>6. ASSUME NEW m \in Mixers, MixPolicy(m) PROVE Short'
  <2>1. CASE MixTakes(m)
    <3>1. Receive(m, turn[m], <<Head(todo[turn[m]])>>)
      BY <2>1 DEF MixTakes
    <3>2. m \in Chans /\ turn[m] \in Chans /\ m # turn[m]
      BY MixOf, MixChans
    <3>3. Len(<<Head(todo[turn[m]])>>) <= 1
      BY OneLong
    <3>4. QED
      BY <1>1, <3>1, <3>2, <3>3, ReceiveShort
  <2>2. CASE ~ MixTakes(m)
    BY <1>3, <1>6, <2>2
      DEF MixPolicy, MixBegins, MixDrains, MixSkips, MixEnds, MixLoops, CloseChan, chanVars
  <2>3. QED
    BY <2>1, <2>2
<1>7. CASE EitherOr
  <2>1. ASSUME NEW c \in {"user", "outer"}, EitherReceives(c) PROVE Short'
    <3>1. Receive("either", c, <<Head(todo[c])>>)
      BY <2>1 DEF EitherReceives
    <3>2. QED
      BY <1>1, <3>1, TheChans, ReceiveShort
  <2>2. CASE EitherFallsBack \/ EitherEnds
    BY <1>3, <2>2 DEF EitherFallsBack, EitherEnds, CloseChan
  <2>3. QED
    BY <1>7, <2>1, <2>2 DEF EitherOr
<1>8. CASE Filters
  <2>1. CASE FilterOutNil
    <3>1. PICK new : Receive("nonnil", Root, new)
      BY <2>1, Zenon DEF FilterOutNil
    <3>2. Root \in Chans /\ "nonnil" \in Chans /\ "nonnil" # Root
      BY TheChans, RootType
    <3>3. QED
      BY <1>1, <3>1, <3>2, ReceiveShort
  <2>2. CASE KeepUnique
    <3>1. PICK h : Receive("uniq", "nonnil", IF h \in seen THEN << >> ELSE <<h>>)
      BY <2>2, Zenon DEF KeepUnique
    <3>2. PICK new : new = IF h \in seen THEN << >> ELSE <<h>>
      OBVIOUS
    <3>3. Len(new) <= 1 /\ Receive("uniq", "nonnil", new)
      BY <3>1, <3>2, OneLong
    <3>4. QED
      BY <1>1, <3>3, TheChans, ReceiveShort
  <2>3. ASSUME NEW c \in {"nonnil", "uniq"}, FilterEnds(c) PROVE Short'
    BY <1>3, <2>3 DEF FilterEnds, CloseChan
  <2>4. QED
    BY <1>8, <2>1, <2>2, <2>3 DEF Filters
<1>9. CASE WorkerReceives
  <2>1. PICK t : t = Tail(todo["uniq"])
    OBVIOUS
  <2>2. todo' = [todo EXCEPT !["uniq"] = t] /\ todo["uniq"] # << >>
    BY <1>9, <2>1 DEF WorkerReceives, Sends
  <2>3. todo["uniq"] \in Seq(Tacs) /\ Len(todo["uniq"]) <= 1
    BY <1>1, TheChans DEF Short
  <2>4. Len(t) <= 1
    BY <2>1, <2>2, <2>3, TailShorter
  <2>5. todo'["uniq"] = t /\ todo'["outer"] = todo["outer"]
    BY <1>1, <2>2, TheChans
  <2>6. QED
    BY <2>4, <2>5 DEF Short
<1>10. CASE Cancel \/ Drained \/ UNCHANGED policyVars
  BY <1>3, <1>10 DEF Cancel, Drained, policyVars, chanVars
<1>11. QED
  BY <1>4, <1>5, <1>6, <1>7, <1>8, <1>9, <1>10 DEF PolicyNext, Pipeline

\* The variables of the policies have the values they should: a goroutine that has
\* closed its channel sends nothing, the mixers and the filters send one tactic at
\* a time, and the count of a turn never reaches its length.
THEOREM PolicyTypeCorrectness == PolicySpec => []PolicyTypeOK
<1>1. PolicyInit => Short
  <2> SUFFICES ASSUME PolicyInit PROVE Short
    OBVIOUS
  <2>1. todo["outer"] = << >> /\ todo["uniq"] = << >>
    BY TheChans DEF PolicyInit
  <2>2. QED
    BY <2>1 DEF Short
<1>2. PolicyInv /\ Short /\ [PolicyNext]_policyVars => Short'
  BY ShortStep
<1>3. PolicyInv /\ Short => PolicyTypeOK
  <2> SUFFICES ASSUME PolicyInv, Short PROVE PolicyTypeOK
    OBVIOUS
  <2>1. begun \subseteq Chans /\ shut \subseteq begun /\ count \in Nat
    BY InvParts DEF PolicyTypes
  <2>2. \A c \in shut : todo[c] = << >>
    BY <2>1, InvParts DEF Flow
  <2>3. \A m \in Mixers : /\ turn[m] \in Inputs(m)
                          /\ taken[m] \in 0..(Max({1, Factor}) - 1)
                          /\ alive[m] \subseteq Inputs(m)
    <3>1. ASSUME NEW m \in Mixers
          PROVE  turn[m] \in Inputs(m) /\ taken[m] \in 0..(N - 1) /\ alive[m] \subseteq Inputs(m)
      <4>1. MixInv(m)
        BY MixOf
      <4>2. QED
        BY <4>1 DEF MixInv
    <3>2. QED
      BY <3>1, Zenon DEF N
  <2>4. QED
    BY <2>1, <2>2, <2>3 DEF PolicyTypeOK, Short
<1>4. QED
  BY <1>1, <1>2, <1>3, PolicyInvariance, PTL DEF PolicySpec
=============================================================================
