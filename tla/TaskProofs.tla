------------------------------ MODULE TaskProofs ------------------------------
(***************************************************************************)
(* Theorems about Task, for any capacity of the channel, any number of     *)
(* targets and any number of log events.                                   *)
(*                                                                         *)
(* What the runner has to say is split in three: what the app has          *)
(* received, what is in the channel, and what the runner is still          *)
(* emitting.  The invariant is about the three in a row (All).  A step of  *)
(* the runner appends to it.  A step of the emitter or of the app moves an *)
(* event from one part to the next and leaves All alone, but for the quiet *)
(* events (logs, and the nil that ends the channel), and the parts of the  *)
(* invariant do not see those (Same).                                      *)
(*                                                                         *)
(* The parts are stated on values: s is a sequence of events, st a stage,  *)
(* tg the number of targets, ix the current one, se the session, ip        *)
(* whether the experiment can be interrupted, md whether the context is    *)
(* done and ct the targets that were cut short.                            *)
(***************************************************************************)
EXTENDS Task, SequenceTheorems, TLAPS

All == received \o out \o pending

EventKeys ==
  {"status.queued", "status.started", "status.progress", "status.geoip_lookup",
   "status.resolver_lookup", "status.report_create", "status.measurement_start",
   "status.measurement_submission", "status.measurement_done", "status.end",
   "failure.startup", "failure.ip_lookup", "failure.asn_lookup",
   "failure.cc_lookup", "failure.resolver_lookup", "failure.report_create",
   "failure.measurement", "failure.measurement_submission", "measurement",
   "log", "nil"}

Events == [key : EventKeys, idx : {NoIdx} \cup Nat]
Quiet == {Log, Nil}
QuietKeys == {"log", "nil"}
Loud == [key : EventKeys \ QuietKeys, idx : {NoIdx} \cup Nat]

\* What was said about a target, or about none, without the quiet events.
Said(s, n, i) == Keys(s, n, i) \ QuietKeys
SaidAll(s, i) == Said(s, Len(s), i)

\* An event about a target comes after what has to precede it.
InOrder(s, k) ==
  s[k].idx # NoIdx =>
    /\ Said(s, k - 1, s[k].idx) \in Pasts(s[k].key)
    /\ \A i \in 0..(s[k].idx - 1) : Said(s, k - 1, i) \cap Finals # {}

Protocol(s) == \A k \in DOMAIN s : InOrder(s, k)

\* The last event that is not quiet has the given key, and status.end does not
\* come before it.
EndsWith(s, key) ==
  \E k \in DOMAIN s :
    /\ s[k].key = key
    /\ \A j \in DOMAIN s : j > k => s[j] \in Quiet
    /\ \A j \in DOMAIN s : j < k => s[j].key # "status.end"

Early == {"settings", "newsession", "builder", "backends", "location", "load"}
InLoop == {"measure", "measured", "failed", "submit", "done"}
Ended == {"return", "signalled", "stopped"}
Late == Ended \cup {"deferred"}

\* What may have been said about the current target, by stage.
Current(st) ==
  CASE st \in InLoop \ {"submit", "done"} -> {{"status.measurement_start"}}
    [] st = "submit" -> {{"status.measurement_start", "measurement"}}
    [] st = "done" -> Pasts("status.measurement_done")
    [] OTHER -> {{}}

\* Where the runner is and what it has said of each target.
Progress(s, st, tg, ix) ==
  /\ st \in Early => tg = 0
  /\ st \in Early \cup {"report"} => ix = 0
  /\ st \in InLoop => ix < tg
  /\ st \notin Late =>
       /\ \A i \in Nat : i < ix => SaidAll(s, i) \cap Finals # {}
       /\ SaidAll(s, ix) \in Current(st)
       /\ \A i \in Nat : i > ix => SaidAll(s, i) = {}

\* Why the runner has stopped before the last target.
Excused(s, st, tg, md) ==
  st \in Late => \A i \in 0..(tg - 1) :
    \/ SaidAll(s, i) \cap Finals # {}
    \/ md
    \/ SaidAll(s, NoIdx) \cap {"failure.startup", "failure.report_create"} # {}

\* How the events end.
Ending(s, st, se) ==
  /\ st \in {"settings", "newsession"} => se = "none"
  /\ st \notin Ended \cup {"settings", "newsession"} => se = "open"
  /\ st \in Ended => \/ se = "none" /\ EndsWith(s, "failure.startup")
                     \/ se = "closed" /\ EndsWith(s, "status.end")
  /\ st \notin Ended => \A i \in {NoIdx} \cup Nat : "status.end" \notin SaidAll(s, i)

\* A target that was cut short is the last one, and nothing is said of it after
\* its start.
CutInv(s, st, ix, ip, md, ct) ==
  \A i \in ct : /\ i = ix /\ ip /\ md
                /\ st \in Late \cup {"measured", "failed"}
                /\ SaidAll(s, i) \subseteq {"status.measurement_start"}

RunnerInv(s, st, tg, ix, se, ip, md, ct) ==
  /\ Protocol(s)
  /\ Progress(s, st, tg, ix)
  /\ Excused(s, st, tg, md)
  /\ Ending(s, st, se)
  /\ CutInv(s, st, ix, ip, md, ct)

\* The nil is sent once, after everything else but log events.
NilInv ==
  /\ stage \notin {"signalled", "stopped"} =>
       ~isdone /\ \A j \in DOMAIN out : out[j] # Nil
  /\ stage \in {"signalled", "stopped"} => pending = << >>
  /\ stage \in {"signalled", "stopped"} /\ isdone => \A j \in DOMAIN out : out[j] = Log
  /\ stage \in {"signalled", "stopped"} /\ ~isdone =>
       \E n \in DOMAIN out :
         /\ out[n] = Nil
         /\ \A j \in DOMAIN out : (j > n => out[j] = Log) /\ (j < n => out[j] # Nil)

SeqTypes == /\ received \in Seq(Loud)
            /\ out \in Seq(Loud \cup Quiet)
            /\ pending \in Seq(Loud)

IInv ==
  /\ TypeOK /\ SeqTypes /\ NilInv
  /\ RunnerInv(All, stage, targets, idx, session, settings.interruptible, measDone, cut)

-----------------------------------------------------------------------------
(* Sequences of events.                                                    *)

\* Elements of a concatenation.
LEMMA Concat ==
  ASSUME NEW S, NEW s \in Seq(S), NEW t \in Seq(S)
  PROVE  /\ s \o t \in Seq(S) /\ Len(s \o t) = Len(s) + Len(t)
         /\ DOMAIN (s \o t) = 1..(Len(s) + Len(t))
         /\ \A k \in 1..Len(s) : (s \o t)[k] = s[k]
         /\ \A k \in 1..Len(t) : (s \o t)[Len(s) + k] = t[k]
OBVIOUS

\* What a key in Said comes from.
LEMMA SaidMember ==
  ASSUME NEW s, NEW n, NEW i, NEW key
  PROVE  key \in Said(s, n, i) <=>
           key \notin QuietKeys /\ \E j \in 1..n : s[j].idx = i /\ s[j].key = key
BY DEF Said, Keys

\* What was said in a beginning of the sequence does not depend on the rest.
LEMMA SaidPrefix ==
  ASSUME NEW s, NEW t, NEW n \in Nat, \A k \in 1..n : s[k] = t[k], NEW i
  PROVE  Said(s, n, i) = Said(t, n, i)
<1>1. ASSUME NEW key
      PROVE  key \in Said(s, n, i) <=> key \in Said(t, n, i)
  BY SaidMember
<1> QED BY <1>1

\* What is said in two parts is said in one of them.
LEMMA SaidConcat ==
  ASSUME NEW s \in Seq(Events), NEW t \in Seq(Events), NEW i
  PROVE  SaidAll(s \o t, i) = SaidAll(s, i) \cup SaidAll(t, i)
<1> DEFINE u == s \o t
<1>1. /\ Len(u) = Len(s) + Len(t) /\ Len(s) \in Nat /\ Len(t) \in Nat
      /\ \A k \in 1..Len(s) : u[k] = s[k]
      /\ \A k \in 1..Len(t) : u[Len(s) + k] = t[k]
  BY Concat
<1> HIDE DEF u
<1>2. ASSUME NEW key, key \in SaidAll(u, i)
      PROVE  key \in SaidAll(s, i) \cup SaidAll(t, i)
  <2>1. key \notin QuietKeys
    BY <1>2, SaidMember DEF SaidAll
  <2>2. PICK j \in 1..Len(u) : u[j].idx = i /\ u[j].key = key
    BY <1>2, SaidMember DEF SaidAll
  <2>3. CASE j \in 1..Len(s)
    BY <1>1, <2>1, <2>2, <2>3, SaidMember DEF SaidAll
  <2>4. CASE j \notin 1..Len(s)
    <3>1. PICK k \in 1..Len(t) : j = Len(s) + k
      <4>1. j - Len(s) \in 1..Len(t) /\ j = Len(s) + (j - Len(s))
        BY <1>1, <2>2, <2>4
      <4> QED BY <4>1
    <3> QED BY <1>1, <2>1, <2>2, <3>1, SaidMember DEF SaidAll
  <2> QED BY <2>3, <2>4
<1>3. ASSUME NEW key, key \in SaidAll(s, i)
      PROVE  key \in SaidAll(u, i)
  <2>1. PICK j \in 1..Len(s) : s[j].idx = i /\ s[j].key = key
    BY <1>3, SaidMember DEF SaidAll
  <2>2. j \in 1..Len(u) /\ u[j] = s[j]
    BY <1>1
  <2> QED BY <1>3, <2>1, <2>2, SaidMember DEF SaidAll
<1>4. ASSUME NEW key, key \in SaidAll(t, i)
      PROVE  key \in SaidAll(u, i)
  <2>1. PICK j \in 1..Len(t) : t[j].idx = i /\ t[j].key = key
    BY <1>4, SaidMember DEF SaidAll
  <2>2. Len(s) + j \in 1..Len(u) /\ u[Len(s) + j] = t[j]
    BY <1>1
  <2> QED BY <1>4, <2>1, <2>2, SaidMember DEF SaidAll
<1>5. SaidAll(u, i) = SaidAll(s, i) \cup SaidAll(t, i)
  BY <1>2, <1>3, <1>4
<1> QED BY <1>5 DEF u

\* The runner keeps the protocol when, of what it appends, only the first event
\* is about a target, and comes in order.
LEMMA ProtocolConcat ==
  ASSUME NEW s \in Seq(Events), NEW t \in Seq(Events), Protocol(s),
         \A k \in 1..Len(t) : k > 1 => t[k].idx = NoIdx,
         (t # << >> /\ t[1].idx # NoIdx) =>
           /\ SaidAll(s, t[1].idx) \in Pasts(t[1].key)
           /\ \A i \in 0..(t[1].idx - 1) : SaidAll(s, i) \cap Finals # {}
  PROVE  Protocol(s \o t)
<1> DEFINE u == s \o t
<1>1. /\ Len(u) = Len(s) + Len(t) /\ Len(s) \in Nat /\ Len(t) \in Nat
      /\ DOMAIN u = 1..(Len(s) + Len(t)) /\ DOMAIN s = 1..Len(s)
      /\ \A k \in 1..Len(s) : u[k] = s[k]
      /\ \A k \in 1..Len(t) : u[Len(s) + k] = t[k]
      /\ t # << >> <=> Len(t) # 0
  BY Concat
<1> HIDE DEF u
<1>2. \A n \in 0..Len(s) : \A i : Said(u, n, i) = Said(s, n, i)
  <2> TAKE n \in 0..Len(s)
  <2> TAKE i
  <2>1. n \in Nat /\ \A k \in 1..n : u[k] = s[k]
    BY <1>1
  <2>2. ASSUME NEW key PROVE key \in Said(u, n, i) <=> key \in Said(s, n, i)
    BY <2>1, SaidMember
  <2> QED BY <2>2
<1>3. ASSUME NEW k \in 1..Len(s)
      PROVE  InOrder(u, k)
  <2>1. u[k] = s[k] /\ k - 1 \in 0..Len(s) /\ InOrder(s, k)
    BY <1>1 DEF Protocol
  <2> QED BY <1>2, <2>1 DEF InOrder
<1>4. ASSUME NEW k \in 1..Len(t)
      PROVE  InOrder(u, Len(s) + k)
  <2>1. CASE k > 1
    BY <1>1, <2>1 DEF InOrder
  <2>2. CASE k = 1
    <3>1. u[Len(s) + 1] = t[1] /\ (Len(s) + 1) - 1 = Len(s) /\ t # << >>
          /\ Len(s) \in 0..Len(s)
      BY <1>1, <2>2
    <3>2. \A i : Said(u, (Len(s) + 1) - 1, i) = SaidAll(s, i)
      BY <1>2, <3>1 DEF SaidAll
    <3> QED BY <2>2, <3>1, <3>2 DEF InOrder
  <2> QED BY <2>1, <2>2
<1>5. ASSUME NEW k \in DOMAIN u
      PROVE  InOrder(u, k)
  <2>1. CASE k \in 1..Len(s)
    BY <1>3, <2>1
  <2>2. CASE k \notin 1..Len(s)
    <3>1. PICK j \in 1..Len(t) : k = Len(s) + j
      <4>1. k - Len(s) \in 1..Len(t) /\ k = Len(s) + (k - Len(s))
        BY <1>1, <2>2
      <4> QED BY <4>1
    <3> QED BY <1>4, <3>1
  <2> QED BY <2>1, <2>2
<1>6. Protocol(u)
  BY <1>5 DEF Protocol
<1> QED BY <1>6 DEF u

-----------------------------------------------------------------------------
(* Quiet events.                                                           *)

\* Where the elements of a sequence are when there is one more at position n.
Shift(n, j) == IF j < n THEN j ELSE j + 1

\* t is s without the quiet event at position n.
Without(s, n, t) ==
  /\ n \in 1..Len(s) /\ s[n] \in Quiet
  /\ Len(s) = Len(t) + 1
  /\ \A j \in 1..Len(t) : t[j] = s[Shift(n, j)]

\* The invariant cannot tell the two sequences apart.
Same(s, t) ==
  /\ \A i : SaidAll(s, i) = SaidAll(t, i)
  /\ Protocol(s) <=> Protocol(t)
  /\ \A key \in EventKeys \ QuietKeys : EndsWith(s, key) <=> EndsWith(t, key)

\* Log events and the nil are about no target.
LEMMA QuietType ==
  ASSUME NEW e \in Quiet
  PROVE  e \in Events /\ e.idx = NoIdx /\ e.key \in QuietKeys /\ e.key # "status.end"
<1>1. e = [key |-> "log", idx |-> NoIdx] \/ e = [key |-> "nil", idx |-> NoIdx]
  BY DEF Quiet, Log, Nil, Event
<1>2. e.idx = NoIdx /\ e.key \in {"log", "nil"}
  BY <1>1
<1>3. e \in Events
  BY <1>1 DEF Events, EventKeys
<1> QED BY <1>2, <1>3 DEF QuietKeys

\* Every position but the one of the quiet event is the shift of a position.
LEMMA Shifts ==
  ASSUME NEW s \in Seq(Events), NEW t \in Seq(Events), NEW n, Without(s, n, t)
  PROVE  /\ Len(s) \in Nat /\ Len(t) \in Nat /\ DOMAIN s = 1..Len(s)
         /\ DOMAIN t = 1..Len(t)
         /\ \A j \in 1..Len(t) : Shift(n, j) \in 1..Len(s) /\ Shift(n, j) # n
         /\ \A j, k \in 1..Len(t) : j < k <=> Shift(n, j) < Shift(n, k)
         /\ \A k \in 1..Len(s) : k # n => \E j \in 1..Len(t) : k = Shift(n, j)
<1>1. Len(s) \in Nat /\ Len(t) \in Nat /\ DOMAIN s = 1..Len(s) /\ DOMAIN t = 1..Len(t)
  OBVIOUS
<1>2. Len(s) = Len(t) + 1 /\ n \in 1..Len(s)
  BY DEF Without
<1>3. ASSUME NEW k \in 1..Len(s), k # n
      PROVE  \E j \in 1..Len(t) : k = Shift(n, j)
  <2>1. CASE k < n
    <3>1. k \in 1..Len(t) /\ Shift(n, k) = k
      BY <1>1, <1>2, <2>1 DEF Shift
    <3> QED BY <3>1
  <2>2. CASE k > n
    <3>1. k - 1 \in 1..Len(t) /\ Shift(n, k - 1) = k
      BY <1>1, <1>2, <2>2 DEF Shift
    <3> QED BY <3>1
  <2> QED BY <1>2, <1>3, <2>1, <2>2
<1>4. \A j \in 1..Len(t) : Shift(n, j) \in 1..Len(s) /\ Shift(n, j) # n
  BY <1>1, <1>2 DEF Shift
<1>5. \A j, k \in 1..Len(t) : j < k <=> Shift(n, j) < Shift(n, k)
  BY <1>1, <1>2 DEF Shift
<1> QED BY <1>1, <1>3, <1>4, <1>5

\* What is said before a position does not depend on the quiet event.
LEMMA SaidWithout ==
  ASSUME NEW s \in Seq(Events), NEW t \in Seq(Events), NEW n, Without(s, n, t),
         NEW p \in 1..(Len(t) + 1), NEW i
  PROVE  Said(t, p - 1, i) = Said(s, Shift(n, p) - 1, i)
<1>1. /\ Len(s) \in Nat /\ Len(t) \in Nat /\ Len(s) = Len(t) + 1 /\ n \in 1..Len(s)
      /\ \A j \in 1..Len(t) : t[j] = s[Shift(n, j)]
      /\ s[n] \in Quiet
  BY Shifts DEF Without
<1>2. ASSUME NEW key, key \in Said(t, p - 1, i)
      PROVE  key \in Said(s, Shift(n, p) - 1, i)
  <2>1. key \notin QuietKeys
    BY <1>2, SaidMember
  <2>2. PICK j \in 1..(p - 1) : t[j].idx = i /\ t[j].key = key
    BY <1>2, SaidMember
  <2>3. j \in 1..Len(t) /\ Shift(n, j) \in 1..(Shift(n, p) - 1)
    BY <1>1, <2>2 DEF Shift
  <2>4. t[j] = s[Shift(n, j)]
    BY <1>1, <2>3
  <2> QED BY <2>1, <2>2, <2>3, <2>4, SaidMember
<1>3. ASSUME NEW key, key \in Said(s, Shift(n, p) - 1, i)
      PROVE  key \in Said(t, p - 1, i)
  <2>1. key \notin QuietKeys
    BY <1>3, SaidMember
  <2>2. PICK k \in 1..(Shift(n, p) - 1) : s[k].idx = i /\ s[k].key = key
    BY <1>3, SaidMember
  <2>3. k # n
    BY <1>1, <2>1, <2>2, QuietType
  <2>4. k \in 1..Len(s)
    BY <1>1, <2>2, <2>3 DEF Shift
  <2>5. PICK j \in 1..Len(t) : k = Shift(n, j)
    BY <2>3, <2>4, Shifts
  <2>6. j \in 1..(p - 1)
    BY <1>1, <2>2, <2>3, <2>5 DEF Shift
  <2>7. t[j] = s[k]
    BY <1>1, <2>5
  <2> QED BY <2>1, <2>2, <2>6, <2>7, SaidMember
<1> QED BY <1>2, <1>3

\* A quiet event changes nothing that the invariant sees.
LEMMA WithoutSame ==
  ASSUME NEW s \in Seq(Events), NEW t \in Seq(Events), NEW n, Without(s, n, t)
  PROVE  Same(s, t) /\ Same(t, s)
<1>1. /\ Len(s) \in Nat /\ Len(t) \in Nat /\ Len(s) = Len(t) + 1 /\ n \in 1..Len(s)
      /\ DOMAIN s = 1..Len(s) /\ DOMAIN t = 1..Len(t)
      /\ \A j \in 1..Len(t) : t[j] = s[Shift(n, j)]
      /\ \A j \in 1..Len(t) : Shift(n, j) \in 1..Len(s) /\ Shift(n, j) # n
      /\ \A j, k \in 1..Len(t) : j < k <=> Shift(n, j) < Shift(n, k)
      /\ \A k \in 1..Len(s) : k # n => \E j \in 1..Len(t) : k = Shift(n, j)
  <2>1. /\ Len(s) \in Nat /\ Len(t) \in Nat /\ DOMAIN s = 1..Len(s)
        /\ DOMAIN t = 1..Len(t)
        /\ \A j \in 1..Len(t) : Shift(n, j) \in 1..Len(s) /\ Shift(n, j) # n
        /\ \A j, k \in 1..Len(t) : j < k <=> Shift(n, j) < Shift(n, k)
        /\ \A k \in 1..Len(s) : k # n => \E j \in 1..Len(t) : k = Shift(n, j)
    BY Shifts
  <2>2. /\ Len(s) = Len(t) + 1 /\ n \in 1..Len(s)
        /\ \A j \in 1..Len(t) : t[j] = s[Shift(n, j)]
    BY DEF Without
  <2> QED BY <2>1, <2>2
<1>2. s[n] \in Quiet /\ s[n].idx = NoIdx /\ s[n].key \in QuietKeys /\ s[n].key # "status.end"
  BY QuietType DEF Without
<1>3. \A i : SaidAll(s, i) = SaidAll(t, i)
  <2> TAKE i
  <2>1. Len(t) + 1 \in 1..(Len(t) + 1)
    BY <1>1
  <2>2. Said(t, (Len(t) + 1) - 1, i) = Said(s, Shift(n, Len(t) + 1) - 1, i)
    BY <2>1, SaidWithout
  <2>3. (Len(t) + 1) - 1 = Len(t)
    BY <1>1
  <2>4. CASE n < Len(s)
    BY <1>1, <2>2, <2>3, <2>4 DEF SaidAll, Shift
  <2>5. CASE n = Len(s)
    <3>1. Shift(n, Len(t) + 1) - 1 = Len(s)
      BY <1>1, <2>5 DEF Shift
    <3> QED BY <2>2, <2>3, <3>1 DEF SaidAll
  <2> QED BY <1>1, <2>4, <2>5
<1>4. ASSUME NEW j \in 1..Len(t)
      PROVE  InOrder(t, j) <=> InOrder(s, Shift(n, j))
  <2>1. \A i : Said(t, j - 1, i) = Said(s, Shift(n, j) - 1, i)
    <3> TAKE i
    <3>1. j \in 1..(Len(t) + 1)
      BY <1>1
    <3> QED BY <3>1, SaidWithout
  <2>2. t[j] = s[Shift(n, j)]
    BY <1>1
  <2> QED BY <2>1, <2>2, Zenon DEF InOrder
<1>5. Protocol(s) <=> Protocol(t)
  <2>1. ASSUME Protocol(s) PROVE Protocol(t)
    BY <1>1, <1>4, <2>1 DEF Protocol
  <2>2. ASSUME Protocol(t), NEW k \in 1..Len(s) PROVE InOrder(s, k)
    <3>1. CASE k = n
      BY <1>2, <3>1 DEF InOrder
    <3>2. CASE k # n
      BY <1>1, <1>4, <2>2, <3>2 DEF Protocol
    <3> QED BY <3>1, <3>2
  <2> QED BY <1>1, <2>1, <2>2 DEF Protocol
<1>6. ASSUME NEW key \in EventKeys \ QuietKeys, EndsWith(s, key)
      PROVE  EndsWith(t, key)
  <2>1. PICK k \in DOMAIN s :
          /\ s[k].key = key
          /\ \A j \in DOMAIN s : j > k => s[j] \in Quiet
          /\ \A j \in DOMAIN s : j < k => s[j].key # "status.end"
    BY <1>6 DEF EndsWith
  <2>2. k # n
    BY <1>2, <1>6, <2>1
  <2>3. PICK m \in 1..Len(t) : k = Shift(n, m)
    BY <1>1, <2>2
  <2>4. t[m].key = key
    BY <1>1, <2>1, <2>3
  <2>5. ASSUME NEW j \in DOMAIN t, j > m PROVE t[j] \in Quiet
    <3>1. Shift(n, j) \in DOMAIN s /\ Shift(n, j) > k
      BY <1>1, <2>3, <2>5
    <3> QED BY <1>1, <2>1, <3>1
  <2>6. ASSUME NEW j \in DOMAIN t, j < m PROVE t[j].key # "status.end"
    <3>1. Shift(n, j) \in DOMAIN s /\ Shift(n, j) < k
      BY <1>1, <2>3, <2>6
    <3> QED BY <1>1, <2>1, <3>1
  <2> QED BY <1>1, <2>4, <2>5, <2>6 DEF EndsWith
<1>7. ASSUME NEW key \in EventKeys \ QuietKeys, EndsWith(t, key)
      PROVE  EndsWith(s, key)
  <2>1. PICK m \in DOMAIN t :
          /\ t[m].key = key
          /\ \A j \in DOMAIN t : j > m => t[j] \in Quiet
          /\ \A j \in DOMAIN t : j < m => t[j].key # "status.end"
    BY <1>7 DEF EndsWith
  <2>2. Shift(n, m) \in DOMAIN s /\ s[Shift(n, m)].key = key
    BY <1>1, <2>1
  <2>3. ASSUME NEW k \in DOMAIN s, k > Shift(n, m) PROVE s[k] \in Quiet
    <3>1. CASE k = n
      BY <1>2, <3>1
    <3>2. CASE k # n
      <4>1. PICK j \in 1..Len(t) : k = Shift(n, j)
        BY <1>1, <3>2
      <4>2. j > m
        BY <1>1, <2>3, <4>1
      <4> QED BY <1>1, <2>1, <4>1, <4>2
    <3> QED BY <3>1, <3>2
  <2>4. ASSUME NEW k \in DOMAIN s, k < Shift(n, m) PROVE s[k].key # "status.end"
    <3>1. CASE k = n
      BY <1>2, <3>1
    <3>2. CASE k # n
      <4>1. PICK j \in 1..Len(t) : k = Shift(n, j)
        BY <1>1, <3>2
      <4>2. j < m
        BY <1>1, <2>4, <4>1
      <4> QED BY <1>1, <2>1, <4>1, <4>2
    <3> QED BY <3>1, <3>2
  <2> QED BY <2>2, <2>3, <2>4 DEF EndsWith
<1> QED BY <1>3, <1>5, <1>6, <1>7 DEF Same

-----------------------------------------------------------------------------
(* What the runner appends.                                                *)

\* Events about no target, status.end not included.
Plain(t) ==
  /\ t \in Seq(Events)
  /\ \A k \in 1..Len(t) : t[k].idx = NoIdx /\ t[k].key # "status.end"

\* NoIdx is not the index of a target.
LEMMA NoIdxType == NoIdx \in Int /\ NoIdx \notin Nat
BY DEF NoIdx

\* An event is in the set of events.
LEMMA EventType ==
  ASSUME NEW key \in EventKeys
  PROVE  /\ Event(key) \in Events /\ Event(key).key = key /\ Event(key).idx = NoIdx
         /\ \A i \in Nat : /\ EventOf(key, i) \in Events
                           /\ EventOf(key, i).key = key /\ EventOf(key, i).idx = i
         /\ key \notin QuietKeys => /\ Event(key) \notin Quiet
                                    /\ \A i \in Nat : EventOf(key, i) \notin Quiet
<1>1. /\ Event(key) \in Events /\ Event(key).key = key /\ Event(key).idx = NoIdx
      /\ \A i \in Nat : /\ EventOf(key, i) \in Events
                        /\ EventOf(key, i).key = key /\ EventOf(key, i).idx = i
  BY DEF Event, EventOf, Events
<1>2. ASSUME NEW e \in Events, e.key \notin QuietKeys
      PROVE  e \notin Quiet
  BY <1>2, QuietType
<1> QED BY <1>1, <1>2

\* Plain events say nothing about targets.
LEMMA PlainSaid ==
  ASSUME NEW s \in Seq(Events), NEW t, Plain(t)
  PROVE  /\ s \o t \in Seq(Events)
         /\ \A i \in Nat : SaidAll(s \o t, i) = SaidAll(s, i)
         /\ SaidAll(s \o t, NoIdx) = SaidAll(s, NoIdx) \cup SaidAll(t, NoIdx)
         /\ "status.end" \notin SaidAll(t, NoIdx)
         /\ Protocol(s) => Protocol(s \o t)
<1>1. t \in Seq(Events) /\ Len(t) \in Nat
  BY DEF Plain
<1>2. ASSUME NEW i \in Nat PROVE SaidAll(t, i) = {}
  <2>1. ASSUME NEW key \in SaidAll(t, i) PROVE FALSE
    <3>1. PICK j \in 1..Len(t) : t[j].idx = i
      BY <2>1, SaidMember DEF SaidAll
    <3> QED BY <3>1, NoIdxType DEF Plain
  <2> QED BY <2>1
<1>3. "status.end" \notin SaidAll(t, NoIdx)
  <2>1. ASSUME "status.end" \in SaidAll(t, NoIdx) PROVE FALSE
    <3>1. PICK j \in 1..Len(t) : t[j].key = "status.end"
      BY <2>1, SaidMember DEF SaidAll
    <3> QED BY <3>1 DEF Plain
  <2> QED BY <2>1
<1>4. \A i : SaidAll(s \o t, i) = SaidAll(s, i) \cup SaidAll(t, i)
  BY <1>1, SaidConcat
<1>5. ASSUME Protocol(s) PROVE Protocol(s \o t)
  <2>1. \A k \in 1..Len(t) : t[k].idx = NoIdx
    BY DEF Plain
  <2>2. t # << >> => t[1].idx = NoIdx
    BY <1>1, <2>1
  <2> QED BY <1>1, <1>5, <2>1, <2>2, ProtocolConcat
<1>6. s \o t \in Seq(Events)
  BY <1>1, Concat
<1> QED BY <1>2, <1>3, <1>4, <1>5, <1>6

\* The runner says something about a target.
Tell(s, key, ix, p) == s \o (<<EventOf(key, ix)>> \o p)

\* What it has said then.
LEMMA TellSaid ==
  ASSUME NEW s \in Seq(Events), NEW ix \in Nat, NEW p, Plain(p),
         NEW key \in EventKeys \ QuietKeys, key # "status.end"
  PROVE  /\ SaidAll(Tell(s, key, ix, p), ix) = SaidAll(s, ix) \cup {key}
         /\ \A i \in Nat : i # ix => SaidAll(Tell(s, key, ix, p), i) = SaidAll(s, i)
         /\ SaidAll(Tell(s, key, ix, p), NoIdx) = SaidAll(s, NoIdx) \cup SaidAll(p, NoIdx)
         /\ "status.end" \notin SaidAll(p, NoIdx)
         /\ (/\ Protocol(s) /\ SaidAll(s, ix) \in Pasts(key)
             /\ \A i \in Nat : i < ix => SaidAll(s, i) \cap Finals # {})
            => Protocol(Tell(s, key, ix, p))
<1> DEFINE e == EventOf(key, ix)
           h == <<e>>
           t == h \o p
<1>1. e \in Events /\ e.key = key /\ e.idx = ix
  BY EventType
<1> HIDE DEF e
<1>2. h \in Seq(Events) /\ Len(h) = 1 /\ h[1] = e
  BY <1>1
<1> HIDE DEF h
<1>3. p \in Seq(Events) /\ Len(p) \in Nat /\ Len(s) \in Nat
  BY DEF Plain
<1>4. /\ t \in Seq(Events) /\ Len(t) = 1 + Len(p) /\ t[1] = e
      /\ \A k \in 1..Len(p) : t[1 + k] = p[k]
  BY <1>2, <1>3, Concat
<1>5. \A i : SaidAll(t, i) = SaidAll(h, i) \cup SaidAll(p, i)
  BY <1>2, <1>3, SaidConcat
<1>6. SaidAll(h, ix) = {key}
  <2>1. key \in SaidAll(h, ix)
    BY <1>1, <1>2, SaidMember DEF SaidAll
  <2>2. ASSUME NEW k \in SaidAll(h, ix) PROVE k = key
    BY <1>1, <1>2, <2>2, SaidMember DEF SaidAll
  <2> QED BY <2>1, <2>2
<1>7. ASSUME NEW i, i # ix PROVE SaidAll(h, i) = {}
  <2>1. ASSUME NEW k \in SaidAll(h, i) PROVE FALSE
    BY <1>1, <1>2, <1>7, <2>1, SaidMember DEF SaidAll
  <2> QED BY <2>1
<1>8. /\ \A i \in Nat : SaidAll(p, i) = {}
      /\ "status.end" \notin SaidAll(p, NoIdx)
  <2>1. << >> \in Seq(Events)
    OBVIOUS
  <2>2. "status.end" \notin SaidAll(p, NoIdx)
    BY <2>1, PlainSaid
  <2>3. ASSUME NEW i \in Nat, NEW k \in SaidAll(p, i) PROVE FALSE
    <3>1. PICK j \in 1..Len(p) : p[j].idx = i
      BY <2>3, SaidMember DEF SaidAll
    <3> QED BY <3>1, NoIdxType DEF Plain
  <2> QED BY <2>2, <2>3
<1> HIDE DEF t
<1>9. \A i : SaidAll(s \o t, i) = SaidAll(s, i) \cup SaidAll(t, i)
  BY <1>4, SaidConcat
<1>10. ix # NoIdx
  BY NoIdxType
<1>11. ASSUME Protocol(s), SaidAll(s, ix) \in Pasts(key),
              \A i \in Nat : i < ix => SaidAll(s, i) \cap Finals # {}
       PROVE  Protocol(s \o t)
  <2>1. ASSUME NEW k \in 1..Len(t), k > 1 PROVE t[k].idx = NoIdx
    <3>1. k - 1 \in 1..Len(p) /\ k = 1 + (k - 1)
      BY <1>3, <1>4, <2>1
    <3>2. t[k] = p[k - 1]
      BY <1>4, <3>1
    <3> QED BY <3>1, <3>2 DEF Plain
  <2>2. t[1].idx = ix /\ t[1].key = key
    BY <1>1, <1>4
  <2>3. \A i \in 0..(ix - 1) : SaidAll(s, i) \cap Finals # {}
    BY <1>11
  <2> QED BY <1>4, <1>11, <2>1, <2>2, <2>3, ProtocolConcat
<1>13. SaidAll(s \o t, ix) = SaidAll(s, ix) \cup {key}
  BY <1>5, <1>6, <1>8, <1>9
<1>14. \A i \in Nat : i # ix => SaidAll(s \o t, i) = SaidAll(s, i)
  BY <1>5, <1>7, <1>8, <1>9
<1>15. SaidAll(s \o t, NoIdx) = SaidAll(s, NoIdx) \cup SaidAll(p, NoIdx)
  BY <1>5, <1>7, <1>9, <1>10
<1>16. Tell(s, key, ix, p) = s \o t
  BY DEF Tell, t, h, e
<1> QED BY <1>8, <1>11, <1>13, <1>14, <1>15, <1>16

\* What follows when one event is appended that is not quiet.
LEMMA EndsWithAppended ==
  ASSUME NEW s \in Seq(Events), NEW key \in EventKeys \ QuietKeys,
         \A i \in {NoIdx} \cup Nat : "status.end" \notin SaidAll(s, i)
  PROVE  EndsWith(s \o <<Event(key)>>, key)
<1> DEFINE t == <<Event(key)>>
           u == s \o t
<1>1. t \in Seq(Events) /\ Len(t) = 1 /\ t[1].key = key
  <2>1. Event(key) \in Events /\ Event(key).key = key
    BY EventType
  <2> QED BY <2>1
<1> HIDE DEF t
<1>2. /\ DOMAIN u = 1..(Len(s) + 1) /\ u[Len(s) + 1] = t[1] /\ Len(s) \in Nat
      /\ \A k \in 1..Len(s) : u[k] = s[k]
  <2>1. /\ DOMAIN u = 1..(Len(s) + Len(t))
        /\ \A k \in 1..Len(s) : u[k] = s[k]
        /\ \A k \in 1..Len(t) : u[Len(s) + k] = t[k]
    <3>1. t \in Seq(Events)
      BY <1>1
    <3> QED BY <3>1, Concat
  <2>2. 1 \in 1..Len(t)
    BY <1>1
  <2>3. u[Len(s) + 1] = t[1]
    BY <2>1, <2>2
  <2> QED BY <1>1, <2>1, <2>3
<1>3. ASSUME NEW j \in 1..Len(s) PROVE s[j].key # "status.end"
  <2>1. s[j] \in Events
    OBVIOUS
  <2>2. s[j].idx \in {NoIdx} \cup Nat
    BY <2>1 DEF Events
  <2>3. s[j].key \in QuietKeys \/ s[j].key \in SaidAll(s, s[j].idx)
    BY SaidMember DEF SaidAll
  <2> QED BY <2>2, <2>3 DEF QuietKeys
<1> HIDE DEF u
<1>4. Len(s) + 1 \in DOMAIN u /\ u[Len(s) + 1].key = key
  BY <1>1, <1>2
<1>5. ASSUME NEW j \in DOMAIN u, j < Len(s) + 1 PROVE u[j].key # "status.end"
  BY <1>2, <1>3, <1>5
<1>6. \A j \in DOMAIN u : ~(j > Len(s) + 1)
  BY <1>2
<1> QED BY <1>4, <1>5, <1>6 DEF EndsWith, u, t

-----------------------------------------------------------------------------
(* The steps of the runner, on values.                                     *)

\* The invariant does not see quiet events, and the context stays done.
LEMMA SameStep ==
  ASSUME NEW s, NEW t, Same(s, t), NEW st, NEW tg, NEW ix \in Nat, NEW se, NEW ip,
         NEW md, NEW md2, md => md2, NEW ct,
         RunnerInv(s, st, tg, ix, se, ip, md, ct)
  PROVE  RunnerInv(t, st, tg, ix, se, ip, md2, ct)
<1>1. \A i : SaidAll(t, i) = SaidAll(s, i)
  BY DEF Same
<1>2. Protocol(t)
  BY DEF Same, RunnerInv
<1>3. Progress(t, st, tg, ix)
  BY <1>1 DEF RunnerInv, Progress
<1>4. Excused(t, st, tg, md2)
  BY <1>1 DEF RunnerInv, Excused
<1>5. Ending(t, st, se)
  <2>1. {"failure.startup", "status.end"} \subseteq EventKeys \ QuietKeys
    BY DEF EventKeys, QuietKeys
  <2> QED BY <1>1, <2>1 DEF Same, RunnerInv, Ending
<1>6. CutInv(t, st, ix, ip, md2, ct)
  BY <1>1 DEF RunnerInv, CutInv
<1> QED BY <1>2, <1>3, <1>4, <1>5, <1>6 DEF RunnerInv

\* Before the loop, one stage follows the other.
LEMMA EarlyStep ==
  ASSUME NEW s \in Seq(Events), NEW t, Plain(t),
         NEW st \in Early \cup {"report"}, NEW st2 \in Early \cup {"report", "loop"},
         NEW tg, NEW tg2, st2 \in Early => tg2 = 0,
         NEW se, NEW se2, st2 = "settings" \/ st2 = "newsession" => se2 = "none",
         st2 # "settings" /\ st2 # "newsession" => se2 = "open",
         NEW ip, NEW md, NEW ct, RunnerInv(s, st, tg, 0, se, ip, md, ct)
  PROVE  RunnerInv(s \o t, st2, tg2, 0, se2, ip, md, ct)
<1>1. /\ \A i \in Nat : SaidAll(s \o t, i) = SaidAll(s, i)
      /\ SaidAll(s \o t, NoIdx) = SaidAll(s, NoIdx) \cup SaidAll(t, NoIdx)
      /\ "status.end" \notin SaidAll(t, NoIdx)
      /\ Protocol(s \o t)
  BY PlainSaid DEF RunnerInv
<1>2. st \notin Late /\ st2 \notin Late /\ st \notin InLoop /\ st2 \notin InLoop
      /\ st \notin Ended /\ st2 \notin Ended
  BY DEF Early, Late, InLoop, Ended
<1>3. Progress(s \o t, st2, tg2, 0)
  <2>1. SaidAll(s, 0) \in Current(st) /\ \A i \in Nat : i > 0 => SaidAll(s, i) = {}
    BY <1>2 DEF RunnerInv, Progress
  <2>2. Current(st) = {{}} /\ Current(st2) = {{}}
    BY <1>2 DEF Current, InLoop
  <2> QED BY <1>1, <1>2, <2>1, <2>2 DEF Progress
<1>4. Excused(s \o t, st2, tg2, md)
  BY <1>2 DEF Excused
<1>5. Ending(s \o t, st2, se2)
  BY <1>1, <1>2 DEF RunnerInv, Ending
<1>6. CutInv(s \o t, st2, 0, ip, md, ct)
  <2>1. ct = {}
    BY DEF RunnerInv, CutInv, Early, Late, Ended
  <2> QED BY <2>1 DEF CutInv
<1> QED BY <1>1, <1>3, <1>4, <1>5, <1>6 DEF RunnerInv

\* Without a session the task ends with a startup failure.
LEMMA StartupStep ==
  ASSUME NEW s \in Seq(Events), NEW st \in {"settings", "newsession"}, NEW tg, NEW ip,
         NEW se, NEW md, NEW ct, RunnerInv(s, st, tg, 0, se, ip, md, ct)
  PROVE  RunnerInv(s \o <<Event("failure.startup")>>, "return", tg, 0, se, ip, md, ct)
<1> DEFINE t == <<Event("failure.startup")>>
<1>0. "failure.startup" \in EventKeys \ QuietKeys
  BY DEF EventKeys, QuietKeys
<1>1. Plain(t)
  BY <1>0, EventType DEF Plain
<1>2. st \notin Ended /\ st \in Early /\ st \notin Late
  BY DEF Ended, Early, Late
<1>3. EndsWith(s \o t, "failure.startup")
  BY <1>0, <1>2, EndsWithAppended DEF RunnerInv, Ending
<1>4. Protocol(s \o t)
  BY <1>1, PlainSaid DEF RunnerInv
<1> HIDE DEF t
<1>5. se = "none" /\ tg = 0
  BY <1>2 DEF RunnerInv, Ending, Progress
<1>6. ct = {}
  BY DEF RunnerInv, CutInv, Late, Ended
<1>7. Progress(s \o t, "return", tg, 0)
  BY DEF Progress, Early, InLoop, Late, Ended
<1>8. Excused(s \o t, "return", tg, md)
  BY <1>5 DEF Excused
<1>9. Ending(s \o t, "return", se)
  BY <1>3, <1>5 DEF Ending, Ended
<1>10. CutInv(s \o t, "return", 0, ip, md, ct)
  BY <1>6 DEF CutInv
<1> QED BY <1>4, <1>7, <1>8, <1>9, <1>10 DEF RunnerInv, t

\* The deferred function runs next, and there is a reason for it.
LEMMA DeferStep ==
  ASSUME NEW s \in Seq(Events), NEW t, Plain(t),
         NEW st \in Stages \ (Late \cup {"settings", "newsession"}),
         NEW tg \in Nat, NEW ix \in Nat, NEW se, NEW ip, NEW md, NEW ct,
         RunnerInv(s, st, tg, ix, se, ip, md, ct),
         \A i \in 0..(tg - 1) :
           \/ SaidAll(s, i) \cap Finals # {}
           \/ md
           \/ SaidAll(t, NoIdx) \cap {"failure.startup", "failure.report_create"} # {}
  PROVE  RunnerInv(s \o t, "deferred", tg, ix, se, ip, md, ct)
<1>1. /\ \A i \in Nat : SaidAll(s \o t, i) = SaidAll(s, i)
      /\ SaidAll(s \o t, NoIdx) = SaidAll(s, NoIdx) \cup SaidAll(t, NoIdx)
      /\ "status.end" \notin SaidAll(t, NoIdx)
      /\ Protocol(s \o t)
  BY PlainSaid DEF RunnerInv
<1>2. st \notin Ended /\ st \notin Late
  BY DEF Late
<1>3. Progress(s \o t, "deferred", tg, ix)
  BY DEF Progress, Early, InLoop, Late, Ended
<1>4. Excused(s \o t, "deferred", tg, md)
  BY <1>1 DEF Excused
<1>5. Ending(s \o t, "deferred", se)
  BY <1>1, <1>2 DEF RunnerInv, Ending, Ended
<1>6. CutInv(s \o t, "deferred", ix, ip, md, ct)
  <2>1. ASSUME NEW i \in ct
        PROVE  /\ i = ix /\ ip /\ md
               /\ SaidAll(s \o t, i) \subseteq {"status.measurement_start"}
    <3>1. i = ix /\ ip /\ md /\ SaidAll(s, i) \subseteq {"status.measurement_start"}
      BY DEF RunnerInv, CutInv
    <3> QED BY <1>1, <3>1
  <2> QED BY <2>1 DEF CutInv, Late
<1> QED BY <1>1, <1>3, <1>4, <1>5, <1>6 DEF RunnerInv

\* What the runner may say about the current target, and what it knows then.
LEMMA TellStep ==
  ASSUME NEW s \in Seq(Events), NEW p, Plain(p),
         NEW key \in EventKeys \ QuietKeys, key # "status.end",
         NEW st \in {"loop"} \cup InLoop, NEW tg \in Nat, NEW ix \in Nat, ix < tg,
         NEW se, NEW ip, NEW md,
         RunnerInv(s, st, tg, ix, se, ip, md, {}), Current(st) \subseteq Pasts(key)
  PROVE  /\ \A st2 \in InLoop :
              (\A said \in Current(st) : said \cup {key} \in Current(st2)) =>
                RunnerInv(Tell(s, key, ix, p), st2, tg, ix, se, ip, md, {})
         /\ key \in Finals =>
              RunnerInv(Tell(s, key, ix, p), "loop", tg, ix + 1, se, ip, md, {})
<1> DEFINE u == Tell(s, key, ix, p)
<1>1. st \notin Late /\ st \notin Ended /\ st \notin Early \cup {"report"}
  BY DEF InLoop, Late, Ended, Early
<1>2. /\ \A i \in Nat : i < ix => SaidAll(s, i) \cap Finals # {}
      /\ SaidAll(s, ix) \in Current(st)
      /\ \A i \in Nat : i > ix => SaidAll(s, i) = {}
  BY <1>1 DEF RunnerInv, Progress
<1>3. /\ SaidAll(u, ix) = SaidAll(s, ix) \cup {key}
      /\ \A i \in Nat : i # ix => SaidAll(u, i) = SaidAll(s, i)
      /\ SaidAll(u, NoIdx) = SaidAll(s, NoIdx) \cup SaidAll(p, NoIdx)
      /\ "status.end" \notin SaidAll(p, NoIdx)
      /\ (/\ Protocol(s) /\ SaidAll(s, ix) \in Pasts(key)
          /\ \A i \in Nat : i < ix => SaidAll(s, i) \cap Finals # {}) => Protocol(u)
  BY TellSaid
<1> HIDE DEF u
<1>4. Protocol(u)
  BY <1>2, <1>3 DEF RunnerInv
<1>5. \A i \in {NoIdx} \cup Nat : "status.end" \notin SaidAll(s, i)
  BY <1>1 DEF RunnerInv, Ending
<1>6. \A i \in {NoIdx} \cup Nat : "status.end" \notin SaidAll(u, i)
  BY <1>3, <1>5
<1>7. se = "open"
  BY <1>1 DEF RunnerInv, Ending, Early
<1>8. ASSUME NEW st2 \in InLoop, \A said \in Current(st) : said \cup {key} \in Current(st2)
      PROVE  RunnerInv(u, st2, tg, ix, se, ip, md, {})
  <2>1. st2 \notin Late /\ st2 \notin Ended /\ st2 \notin Early \cup {"report"}
    BY DEF InLoop, Late, Ended, Early
  <2>2. SaidAll(u, ix) \in Current(st2)
    BY <1>2, <1>3, <1>8
  <2>3. Progress(u, st2, tg, ix)
    BY <1>2, <1>3, <2>1, <2>2 DEF Progress
  <2>4. Ending(u, st2, se)
    BY <1>6, <1>7, <2>1 DEF Ending, Early
  <2> QED BY <1>4, <2>1, <2>3, <2>4 DEF RunnerInv, Excused, CutInv
<1>9. ASSUME key \in Finals
      PROVE  RunnerInv(u, "loop", tg, ix + 1, se, ip, md, {})
  <2>1. /\ "loop" \notin Late /\ "loop" \notin Ended /\ "loop" \notin InLoop
        /\ "loop" \notin Early \cup {"report"}
    BY DEF InLoop, Late, Ended, Early
  <2>2. Current("loop") = {{}}
    BY DEF Current, InLoop
  <2>3. ASSUME NEW i \in Nat, i < ix + 1 PROVE SaidAll(u, i) \cap Finals # {}
    <3>1. CASE i = ix
      BY <1>3, <1>9, <3>1
    <3>2. CASE i < ix
      BY <1>2, <1>3, <3>2
    <3> QED BY <2>3, <3>1, <3>2
  <2>4. SaidAll(u, ix + 1) = {} /\ \A i \in Nat : i > ix + 1 => SaidAll(u, i) = {}
    BY <1>2, <1>3
  <2>5. Progress(u, "loop", tg, ix + 1)
    BY <2>1, <2>2, <2>3, <2>4 DEF Progress
  <2>6. Ending(u, "loop", se)
    BY <1>6, <1>7, <2>1 DEF Ending
  <2> QED BY <1>4, <2>1, <2>5, <2>6 DEF RunnerInv, Excused, CutInv
<1> QED BY <1>8, <1>9 DEF u

\* What may be said next.
LEMMA Nexts ==
  /\ Current("loop") = Pasts("status.measurement_start")
  /\ Current("failed") = Pasts("failure.measurement")
  /\ Current("measured") = Pasts("measurement")
  /\ \A key \in {"status.measurement_submission", "failure.measurement_submission"} :
       Current("submit") = Pasts(key)
  /\ Current("done") = Pasts("status.measurement_done")
  /\ \A said \in Current("loop") :
       said \cup {"status.measurement_start"} \in Current("measure")
  /\ \A said \in Current("measured") :
       /\ said \cup {"measurement"} \in Current("submit")
       /\ said \cup {"measurement"} \in Current("done")
  /\ \A said \in Current("submit") :
       \A key \in {"status.measurement_submission", "failure.measurement_submission"} :
         said \cup {key} \in Current("done")
  /\ Current("measure") = Current("measured") /\ Current("measure") = Current("failed")
<1>1. Current("loop") = {{}}
  BY DEF Current, InLoop
<1>2. /\ Current("measure") = {{"status.measurement_start"}}
      /\ Current("measured") = {{"status.measurement_start"}}
      /\ Current("failed") = {{"status.measurement_start"}}
  BY DEF Current, InLoop
<1>3. Current("submit") = {{"status.measurement_start", "measurement"}}
  BY DEF Current, InLoop
<1>4. Current("done") = Pasts("status.measurement_done")
  BY DEF Current, InLoop
<1>5. Pasts("status.measurement_start") = {{}}
  BY DEF Pasts
<1>6. /\ Pasts("failure.measurement") = {{"status.measurement_start"}}
      /\ Pasts("measurement") = {{"status.measurement_start"}}
  BY DEF Pasts
<1>7. ASSUME NEW key \in {"status.measurement_submission", "failure.measurement_submission"}
      PROVE  Pasts(key) = {{"status.measurement_start"} \cup {"measurement"}}
  BY <1>7 DEF Pasts
<1>8. Pasts("status.measurement_done") =
        {{"status.measurement_start"} \cup {"measurement"}} \cup
        {({"status.measurement_start"} \cup {"measurement"}) \cup {key} :
           key \in {"status.measurement_submission", "failure.measurement_submission"}}
  BY DEF Pasts
<1>9. {"status.measurement_start"} \cup {"measurement"} =
        {"status.measurement_start", "measurement"}
  OBVIOUS
<1>10. ASSUME NEW key \in {"status.measurement_submission", "failure.measurement_submission"}
       PROVE  {"status.measurement_start", "measurement"} \cup {key} \in Current("done")
  BY <1>4, <1>8, <1>9
<1>11. {"status.measurement_start", "measurement"} \in Current("done")
  BY <1>4, <1>8, <1>9
<1> QED BY <1>1, <1>2, <1>3, <1>4, <1>5, <1>6, <1>7, <1>9, <1>10, <1>11

\* The measurement returns; it may have been cut short.
LEMMA MeasureStep ==
  ASSUME NEW s, NEW tg, NEW ix, NEW se, NEW ip, NEW md, NEW ct, NEW ct2,
         ct2 = ct \/ (ct2 = ct \cup {ix} /\ ip /\ md), NEW st2 \in {"measured", "failed"},
         RunnerInv(s, "measure", tg, ix, se, ip, md, ct)
  PROVE  RunnerInv(s, st2, tg, ix, se, ip, md, ct2)
<1>1. /\ st2 \in InLoop /\ st2 \notin Late /\ st2 \notin Ended
      /\ st2 \notin Early \cup {"report"} /\ "measure" \in InLoop
      /\ "measure" \notin Late /\ "measure" \notin Ended
      /\ "measure" \notin Early \cup {"report"}
  BY DEF InLoop, Late, Ended, Early
<1>2. SaidAll(s, ix) = {"status.measurement_start"}
  <2>1. SaidAll(s, ix) \in Current("measure")
    BY <1>1 DEF RunnerInv, Progress
  <2> QED BY <2>1 DEF Current, InLoop
<1>3. ct = {}
  BY <1>1 DEF RunnerInv, CutInv
<1>4. CutInv(s, st2, ix, ip, md, ct2)
  BY <1>2, <1>3 DEF CutInv
<1>5. Current(st2) = Current("measure")
  BY Nexts
<1>6. Progress(s, st2, tg, ix)
  BY <1>1, <1>5 DEF RunnerInv, Progress
<1>7. Ending(s, st2, se)
  BY <1>1 DEF RunnerInv, Ending
<1> QED BY <1>1, <1>4, <1>6, <1>7 DEF RunnerInv, Excused

\* The session is closed and the end is announced.
LEMMA EndStep ==
  ASSUME NEW s \in Seq(Events), NEW tg, NEW ix \in Nat, NEW se, NEW ip, NEW md, NEW ct,
         RunnerInv(s, "deferred", tg, ix, se, ip, md, ct)
  PROVE  RunnerInv(s \o <<Event("status.end")>>, "return", tg, ix, "closed", ip, md, ct)
<1> DEFINE t == <<Event("status.end")>>
<1>0. "status.end" \in EventKeys \ QuietKeys
  BY DEF EventKeys, QuietKeys
<1>1. t \in Seq(Events) /\ Len(t) = 1 /\ t[1].idx = NoIdx
  <2>1. Event("status.end") \in Events /\ Event("status.end").idx = NoIdx
    BY <1>0, EventType
  <2> QED BY <2>1
<1>2. EndsWith(s \o t, "status.end")
  BY <1>0, EndsWithAppended DEF RunnerInv, Ending, Ended
<1> HIDE DEF t
<1>3. \A i : SaidAll(s \o t, i) = SaidAll(s, i) \cup SaidAll(t, i)
  BY <1>1, SaidConcat
<1>4. ASSUME NEW i \in Nat PROVE SaidAll(t, i) = {}
  <2>1. ASSUME NEW key \in SaidAll(t, i) PROVE FALSE
    <3>1. PICK j \in 1..Len(t) : t[j].idx = i
      BY <2>1, SaidMember DEF SaidAll
    <3> QED BY <1>1, <3>1, NoIdxType
  <2> QED BY <2>1
<1>5. Protocol(s \o t)
  <2>1. \A k \in 1..Len(t) : k > 1 => t[k].idx = NoIdx
    BY <1>1
  <2> QED BY <1>1, <2>1, ProtocolConcat DEF RunnerInv
<1>6. Progress(s \o t, "return", tg, ix)
  BY DEF Progress, Early, InLoop, Late, Ended
<1>7. Excused(s \o t, "return", tg, md)
  BY <1>3, <1>4 DEF RunnerInv, Excused, Late, Ended
<1>8. Ending(s \o t, "return", "closed")
  BY <1>2 DEF Ending, Ended
<1>9. CutInv(s \o t, "return", ix, ip, md, ct)
  BY <1>3, <1>4 DEF RunnerInv, CutInv, Late, Ended
<1> QED BY <1>5, <1>6, <1>7, <1>8, <1>9 DEF RunnerInv, t

\* After the end nothing else is said.
LEMMA QuitStep ==
  ASSUME NEW s, NEW tg, NEW ix, NEW se, NEW ip, NEW md, NEW ct,
         NEW st \in Ended, NEW st2 \in Ended,
         RunnerInv(s, st, tg, ix, se, ip, md, ct)
  PROVE  RunnerInv(s, st2, tg, ix, se, ip, md, ct)
<1>1. /\ st2 \in Late /\ st2 \notin Early \cup {"report"} /\ st2 \notin InLoop
      /\ st2 \notin {"settings", "newsession"} /\ st \in Late
  BY DEF Late, Ended, Early, InLoop
<1>2. Progress(s, st2, tg, ix)
  BY <1>1 DEF Progress
<1>3. Excused(s, st2, tg, md)
  BY <1>1 DEF RunnerInv, Excused
<1>4. Ending(s, st2, se)
  BY <1>1 DEF RunnerInv, Ending
<1>5. CutInv(s, st2, ix, ip, md, ct)
  BY <1>1 DEF RunnerInv, CutInv
<1> QED BY <1>2, <1>3, <1>4, <1>5 DEF RunnerInv

-----------------------------------------------------------------------------
(* What was received, what is in the channel and what is still to emit.    *)

\* The runner says events that are not quiet.
LEMMA LoudType ==
  /\ Loud \subseteq Events /\ Quiet \subseteq Events
  /\ \A e \in Loud : e \notin Quiet /\ e.key \notin QuietKeys
  /\ \A key \in EventKeys \ QuietKeys :
       /\ Event(key) \in Loud
       /\ \A i \in Nat : EventOf(key, i) \in Loud
<1>1. Loud \subseteq Events /\ Quiet \subseteq Events
  BY QuietType DEF Loud, Events
<1>2. \A e \in Loud : e.key \notin QuietKeys
  BY DEF Loud
<1>3. \A e \in Loud : e \notin Quiet
  BY <1>2, QuietType
<1>4. \A key \in EventKeys \ QuietKeys :
        Event(key) \in Loud /\ \A i \in Nat : EventOf(key, i) \in Loud
  BY DEF Loud, Event, EventOf
<1> QED BY <1>1, <1>2, <1>3, <1>4

\* The parts are sequences of events, and so is the whole.
LEMMA Parts ==
  ASSUME NEW r \in Seq(Loud), NEW o \in Seq(Loud \cup Quiet), NEW p \in Seq(Loud)
  PROVE  /\ r \in Seq(Events) /\ o \in Seq(Events) /\ p \in Seq(Events)
         /\ r \o o \in Seq(Events) /\ r \o o \o p \in Seq(Events)
<1>1. /\ r \in Seq(Events) /\ o \in Seq(Events) /\ p \in Seq(Events)
  BY LoudType, SeqMonotonic
<1>2. r \o o \in Seq(Events)
  BY <1>1, ConcatProperties
<1>3. r \o o \o p \in Seq(Events)
  BY <1>1, <1>2, ConcatProperties
<1> QED BY <1>1, <1>2, <1>3

\* Concatenation of sequences of events.
LEMMA Joins ==
  \A s, t \in Seq(Events) :
       /\ s \o t \in Seq(Events) /\ Len(s \o t) = Len(s) + Len(t)
       /\ \A k \in 1..Len(s) : (s \o t)[k] = s[k]
       /\ \A k \in 1..Len(t) : (s \o t)[Len(s) + k] = t[k]
<1>1. ASSUME NEW s \in Seq(Events), NEW t \in Seq(Events)
      PROVE  /\ s \o t \in Seq(Events) /\ Len(s \o t) = Len(s) + Len(t)
             /\ \A k \in 1..Len(s) : (s \o t)[k] = s[k]
             /\ \A k \in 1..Len(t) : (s \o t)[Len(s) + k] = t[k]
  BY Concat
<1> QED BY <1>1

\* Concatenation with a name of its own, for what the provers need not look into.
Join(s, t) == s \o t

\* Concatenation is associative.
LEMMA Joining ==
  /\ \A s, t \in Seq(Events) : Join(s, t) \in Seq(Events)
  /\ \A s, t, u \in Seq(Events) : Join(Join(s, t), u) = Join(s, Join(t, u))
<1>1. ASSUME NEW s \in Seq(Events), NEW t \in Seq(Events)
      PROVE  Join(s, t) \in Seq(Events)
  BY ConcatProperties DEF Join
<1>2. ASSUME NEW s \in Seq(Events), NEW t \in Seq(Events), NEW u \in Seq(Events)
      PROVE  Join(Join(s, t), u) = Join(s, Join(t, u))
  <2>1. (s \o t) \o u = s \o (t \o u)
    BY ConcatAssociative
  <2> QED BY <2>1 DEF Join
<1> QED BY <1>1, <1>2

\* A sequence is its head and its tail.
LEMMA HeadAndTail ==
  ASSUME NEW S, NEW p \in Seq(S), p # << >>
  PROVE  /\ Head(p) \in S /\ Tail(p) \in Seq(S) /\ <<Head(p)>> \in Seq(S)
         /\ <<Head(p)>> \o Tail(p) = p
         /\ Len(p) \in Nat \ {0} /\ Head(p) = p[1] /\ Len(Tail(p)) = Len(p) - 1
         /\ \A i \in 1..Len(Tail(p)) : Tail(p)[i] = p[i + 1]
<1>1. /\ Head(p) \in S /\ Tail(p) \in Seq(S) /\ Len(Tail(p)) = Len(p) - 1
      /\ \A i \in 1..Len(Tail(p)) : Tail(p)[i] = p[i + 1]
  BY HeadTailProperties
<1>2. Len(p) \in Nat \ {0} /\ Head(p) = p[1]
  BY EmptySeq
<1> DEFINE h == <<Head(p)>>
           t == Tail(p)
           u == h \o t
<1>3. h \in Seq(S) /\ Len(h) = 1 /\ h[1] = p[1]
  BY <1>1, <1>2
<1> HIDE DEF h
<1>4. /\ t \in Seq(S) /\ Len(t) = Len(p) - 1
      /\ \A i \in 1..Len(t) : t[i] = p[i + 1]
  BY <1>1
<1> HIDE DEF t
<1>5. /\ u \in Seq(S) /\ Len(u) = 1 + Len(t)
      /\ \A i \in 1..(1 + Len(t)) : u[i] = IF i <= 1 THEN h[i] ELSE t[i - 1]
  <2>1. h \in Seq(S)
    BY <1>3
  <2>2. t \in Seq(S)
    BY <1>4
  <2>3. /\ h \o t \in Seq(S) /\ Len(h \o t) = Len(h) + Len(t)
        /\ \A i \in 1..(Len(h) + Len(t)) :
             (h \o t)[i] = IF i <= Len(h) THEN h[i] ELSE t[i - Len(h)]
    BY <2>1, <2>2, ConcatProperties
  <2> QED BY <1>3, <2>3
<1> HIDE DEF u
<1>6. Len(u) = Len(p) /\ Len(p) \in Nat
  BY <1>2, <1>4, <1>5
<1>7. ASSUME NEW i \in 1..Len(u) PROVE u[i] = p[i]
  <2>1. CASE i = 1
    BY <1>2, <1>3, <1>4, <1>5, <2>1
  <2>2. CASE i # 1
    <3>1. i - 1 \in 1..Len(t) /\ i \in 1..(1 + Len(t)) /\ ~(i <= 1)
      BY <1>2, <1>4, <1>6, <2>2
    <3>2. t[i - 1] = p[i]
      BY <1>4, <3>1
    <3> QED BY <1>5, <3>1, <3>2
  <2> QED BY <2>1, <2>2
<1>8. u = p
  BY <1>5, <1>6, <1>7, SeqEqual
<1>9. h \o t = p
  BY <1>8 DEF u
<1> QED BY <1>1, <1>2, <1>3, <1>9 DEF h, t

\* The emitter moves an event to the channel.
LEMMA EmitMoves ==
  ASSUME NEW r \in Seq(Events), NEW o \in Seq(Events), NEW p \in Seq(Events), p # << >>
  PROVE  r \o Append(o, Head(p)) \o Tail(p) = r \o o \o p
<1> DEFINE h == <<Head(p)>>
           t == Tail(p)
<1>1. Head(p) \in Events /\ h \o t = p
  BY HeadAndTail
<1>2. h \in Seq(Events)
  BY HeadAndTail
<1>3. t \in Seq(Events)
  BY HeadAndTail
<1>4. Append(o, Head(p)) = o \o h
  BY <1>1, AppendIsConcat
<1> HIDE DEF h, t
<1>5. (r \o (o \o h)) \o t = (r \o o) \o (h \o t)
  <2>1. Join(Join(r, Join(o, h)), t) = Join(Join(r, o), Join(h, t))
    BY <1>2, <1>3, Joining
  <2> QED BY <2>1 DEF Join
<1>6. (r \o Append(o, Head(p))) \o t = r \o o \o p
  BY <1>1, <1>4, <1>5
<1> QED BY <1>6 DEF t

\* The app receives an event.
LEMMA ReceiveMoves ==
  ASSUME NEW r \in Seq(Events), NEW o \in Seq(Events), NEW p \in Seq(Events), o # << >>
  PROVE  Append(r, Head(o)) \o Tail(o) \o p = r \o o \o p
<1> DEFINE h == <<Head(o)>>
           t == Tail(o)
<1>1. Head(o) \in Events /\ h \o t = o
  BY HeadAndTail
<1>2. h \in Seq(Events)
  BY HeadAndTail
<1>3. t \in Seq(Events)
  BY HeadAndTail
<1>4. Append(r, Head(o)) = r \o h
  BY <1>1, AppendIsConcat
<1> HIDE DEF h, t
<1>5. (r \o h) \o t = r \o (h \o t)
  <2>1. Join(Join(r, h), t) = Join(r, Join(h, t))
    BY <1>2, <1>3, Joining
  <2> QED BY <2>1 DEF Join
<1>6. (Append(r, Head(o)) \o t) \o p = r \o o \o p
  BY <1>1, <1>4, <1>5
<1> QED BY <1>6 DEF t

\* The invariant does not see a quiet event, wherever it is.
LEMMA QuietBetween ==
  ASSUME NEW a \in Seq(Events), NEW b \in Seq(Events), NEW e \in Quiet
  PROVE  /\ Same((a \o <<e>>) \o b, a \o b)
         /\ Same(a \o b, (a \o <<e>>) \o b)
<1> DEFINE h == <<e>>
           ae == a \o h
           s == ae \o b
           t == a \o b
           n == Len(a) + 1
<1>1. h \in Seq(Events) /\ Len(h) = 1 /\ h[1] = e
  BY QuietType
<1> HIDE DEF h
<1>2. /\ ae \in Seq(Events) /\ Len(ae) = n
      /\ \A k \in 1..Len(a) : ae[k] = a[k]
      /\ ae[n] = e
  <2>1. /\ ae \in Seq(Events) /\ Len(ae) = Len(a) + 1
        /\ \A k \in 1..Len(a) : ae[k] = a[k]
        /\ \A k \in 1..1 : ae[Len(a) + k] = h[k]
    <3>1. /\ a \o h \in Seq(Events) /\ Len(a \o h) = Len(a) + Len(h)
          /\ \A k \in 1..Len(a) : (a \o h)[k] = a[k]
          /\ \A k \in 1..Len(h) : (a \o h)[Len(a) + k] = h[k]
      BY <1>1, Joins, Zenon
    <3> QED BY <1>1, <3>1
  <2> QED BY <1>1, <2>1
<1> HIDE DEF ae
<1>3. /\ s \in Seq(Events) /\ Len(s) = n + Len(b)
      /\ \A k \in 1..n : s[k] = ae[k]
      /\ \A k \in 1..Len(b) : s[n + k] = b[k]
  <2>1. /\ ae \o b \in Seq(Events) /\ Len(ae \o b) = Len(ae) + Len(b)
        /\ \A k \in 1..Len(ae) : (ae \o b)[k] = ae[k]
        /\ \A k \in 1..Len(b) : (ae \o b)[Len(ae) + k] = b[k]
    BY <1>2, Joins, Zenon
  <2> HIDE DEF n
  <2> QED BY <1>2, <2>1
<1>4. /\ t \in Seq(Events) /\ Len(t) = Len(a) + Len(b)
      /\ \A k \in 1..Len(a) : t[k] = a[k]
      /\ \A k \in 1..Len(b) : t[Len(a) + k] = b[k]
  BY Concat
<1>5. Len(a) \in Nat /\ Len(b) \in Nat
  OBVIOUS
<1> HIDE DEF s, t
<1>6. ASSUME NEW j \in 1..Len(t) PROVE t[j] = s[Shift(n, j)]
  <2>1. CASE j <= Len(a)
    <3>1. Shift(n, j) = j /\ j \in 1..Len(a) /\ j \in 1..n
      BY <1>5, <2>1 DEF Shift
    <3> QED BY <1>2, <1>3, <1>4, <3>1
  <2>2. CASE j > Len(a)
    <3> DEFINE k == j - Len(a)
    <3>1. k \in 1..Len(b) /\ j = Len(a) + k /\ Shift(n, j) = n + k
      BY <1>4, <1>5, <2>2 DEF Shift
    <3> HIDE DEF k
    <3> QED BY <1>3, <1>4, <3>1
  <2> QED BY <1>4, <1>5, <2>1, <2>2
<1>7. n \in 1..Len(s) /\ s[n] = e /\ Len(s) = Len(t) + 1
  BY <1>2, <1>3, <1>4, <1>5
<1>8. Without(s, n, t)
  BY <1>6, <1>7 DEF Without
<1>9. Same(s, t) /\ Same(t, s)
  BY <1>3, <1>4, <1>8, WithoutSame
<1> QED BY <1>9 DEF s, t, ae, h

\* A quiet event enters the channel.
LEMMA QuietEnters ==
  ASSUME NEW r \in Seq(Events), NEW o \in Seq(Events), NEW p \in Seq(Events),
         NEW e \in Quiet
  PROVE  Same(r \o o \o p, r \o Append(o, e) \o p)
<1> DEFINE h == <<e>>
<1>1. h \in Seq(Events)
  BY QuietType
<1>2. Append(o, e) = o \o h
  BY QuietType, AppendIsConcat
<1>3. r \o o \in Seq(Events)
  BY ConcatProperties
<1>4. Same((r \o o) \o p, ((r \o o) \o h) \o p)
  BY <1>3, QuietBetween
<1> HIDE DEF h
<1>5. (r \o o) \o h = r \o (o \o h)
  <2>1. Join(Join(r, o), h) = Join(r, Join(o, h))
    BY <1>1, Joining
  <2> QED BY <2>1 DEF Join
<1> QED BY <1>2, <1>4, <1>5

\* A quiet event leaves the channel.
LEMMA QuietLeaves ==
  ASSUME NEW r \in Seq(Events), NEW o \in Seq(Events), NEW p \in Seq(Events),
         o # << >>, Head(o) \in Quiet
  PROVE  Same(r \o o \o p, r \o Tail(o) \o p)
<1> DEFINE h == <<Head(o)>>
           t == Tail(o)
           b == t \o p
<1>1. h \o t = o
  BY HeadAndTail
<1>2. h \in Seq(Events)
  BY HeadAndTail
<1>3. t \in Seq(Events)
  BY HeadAndTail
<1>4. ASSUME NEW b2 \in Seq(Events)
      PROVE  Same((r \o h) \o b2, r \o b2)
  BY <1>4, QuietBetween
<1> HIDE DEF h, t
<1>5. b \in Seq(Events)
  BY <1>3, ConcatProperties
<1>6. Same((r \o h) \o b, r \o b)
  BY <1>4, <1>5
<1>7. (r \o (h \o t)) \o p = (r \o h) \o (t \o p)
  <2>1. Join(Join(r, Join(h, t)), p) = Join(Join(r, h), Join(t, p))
    BY <1>2, <1>3, Joining
  <2> QED BY <2>1 DEF Join
<1>8. (r \o t) \o p = r \o (t \o p)
  <2>1. Join(Join(r, t), p) = Join(r, Join(t, p))
    BY <1>3, Joining
  <2> QED BY <2>1 DEF Join
<1>9. Same((r \o o) \o p, (r \o t) \o p)
  BY <1>1, <1>6, <1>7, <1>8
<1> QED BY <1>9 DEF t

-----------------------------------------------------------------------------
(* The steps of the runner.                                                *)

PlainKeys == EventKeys \ (QuietKeys \cup {"status.end"})
Running == Stages \ {"signalled", "stopped"}

\* What the runner says between the targets.
LEMMA PlainTuples ==
  ASSUME NEW a \in PlainKeys, NEW b \in PlainKeys, NEW c \in PlainKeys, NEW d \in PlainKeys
  PROVE  /\ Plain(<< >>) /\ Plain(<<Event(a)>>) /\ Plain(<<Event(a), Event(b)>>)
         /\ Plain(<<Event(a), Event(b), Event(c), Event(d)>>)
         /\ << >> \in Seq(Loud) /\ <<Event(a)>> \in Seq(Loud)
         /\ <<Event(a), Event(b)>> \in Seq(Loud)
         /\ <<Event(a), Event(b), Event(c), Event(d)>> \in Seq(Loud)
         /\ a \in SaidAll(<<Event(a)>>, NoIdx)
<1>1. \A k \in {a, b, c, d} : /\ Event(k) \in Loud /\ Event(k) \in Events
                              /\ Event(k).key = k /\ Event(k).idx = NoIdx
                              /\ k \notin QuietKeys /\ k # "status.end"
  BY LoudType, EventType DEF PlainKeys
<1>2. Plain(<< >>) /\ << >> \in Seq(Loud)
  BY DEF Plain
<1>3. Plain(<<Event(a)>>) /\ <<Event(a)>> \in Seq(Loud)
  BY <1>1 DEF Plain
<1>4. Plain(<<Event(a), Event(b)>>) /\ <<Event(a), Event(b)>> \in Seq(Loud)
  BY <1>1 DEF Plain
<1>5. /\ Plain(<<Event(a), Event(b), Event(c), Event(d)>>)
      /\ <<Event(a), Event(b), Event(c), Event(d)>> \in Seq(Loud)
  BY <1>1 DEF Plain
<1>6. a \in SaidAll(<<Event(a)>>, NoIdx)
  <2> DEFINE t == <<Event(a)>>
  <2>1. Len(t) = 1 /\ t[1].key = a /\ t[1].idx = NoIdx /\ 1 \in 1..1
    BY <1>1
  <2> HIDE DEF t
  <2>2. a \in Said(t, 1, NoIdx)
    BY <1>1, <2>1, SaidMember
  <2> QED BY <2>1, <2>2 DEF SaidAll, t
<1> QED BY <1>2, <1>3, <1>4, <1>5, <1>6

\* The keys are what they are.
LEMMA PlainKeysType ==
  /\ {"status.queued", "status.started", "status.progress", "status.geoip_lookup",
      "status.resolver_lookup", "status.report_create", "failure.startup",
      "failure.ip_lookup", "failure.asn_lookup", "failure.cc_lookup",
      "failure.resolver_lookup", "failure.report_create"} \subseteq PlainKeys
  /\ {"status.measurement_start", "status.measurement_submission",
      "status.measurement_done", "failure.measurement",
      "failure.measurement_submission", "measurement"} \subseteq PlainKeys
  /\ PlainKeys \subseteq EventKeys \ QuietKeys /\ "status.end" \notin PlainKeys
  /\ "status.end" \in EventKeys \ QuietKeys
BY DEF PlainKeys, EventKeys, QuietKeys

\* The facts about the state that the steps of the runner use.
LEMMA Facts ==
  ASSUME IInv
  PROVE  /\ All \in Seq(Events)
         /\ targets \in Nat /\ idx \in Nat /\ idx <= targets
         /\ RunnerInv(All, stage, targets, idx, session, settings.interruptible,
                      measDone, cut)
         /\ stage \in Early \cup {"report"} => idx = 0
         /\ stage \in Early => targets = 0
         /\ stage \in InLoop => idx < targets
         /\ stage \in {"settings", "newsession"} => session = "none"
         /\ stage \notin Ended \cup {"settings", "newsession"} => session = "open"
         /\ stage \notin Late => \A i \in Nat : i < idx => SaidAll(All, i) \cap Finals # {}
         /\ \A i \in cut : /\ settings.interruptible /\ measDone
                           /\ stage \in Late \cup {"measured", "failed"}
<1>1. All \in Seq(Events)
  BY Parts DEF IInv, SeqTypes, All
<1>2. RunnerInv(All, stage, targets, idx, session, settings.interruptible, measDone, cut)
  BY DEF IInv
<1>3. /\ targets \in 0..MaxTargets /\ idx \in 0..targets
  BY DEF IInv, TypeOK
<1>4. targets \in Nat /\ idx \in Nat /\ idx <= targets
  BY <1>3, TaskAssumption
<1>5. Progress(All, stage, targets, idx)
  BY <1>2 DEF RunnerInv
<1>6. Ending(All, stage, session)
  BY <1>2 DEF RunnerInv
<1>7. CutInv(All, stage, idx, settings.interruptible, measDone, cut)
  BY <1>2 DEF RunnerInv
<1>8. /\ stage \in Early \cup {"report"} => idx = 0
      /\ stage \in Early => targets = 0
      /\ stage \in InLoop => idx < targets
      /\ stage \notin Late => \A i \in Nat : i < idx => SaidAll(All, i) \cap Finals # {}
  BY <1>5 DEF Progress
<1>9. /\ stage \in {"settings", "newsession"} => session = "none"
      /\ stage \notin Ended \cup {"settings", "newsession"} => session = "open"
  BY <1>6 DEF Ending
<1>10. \A i \in cut : /\ settings.interruptible /\ measDone
                      /\ stage \in Late \cup {"measured", "failed"}
  BY <1>7 DEF CutInv
<1> QED BY <1>1, <1>2, <1>4, <1>8, <1>9, <1>10

\* A step of the runner appends the events it has to emit.
LEMMA RunStep ==
  ASSUME IInv, pending = << >>, UNCHANGED stageVars,
         stage \in Running, stage' \in Running, pending' \in Seq(Loud),
         targets' \in 0..MaxTargets, idx' \in 0..targets',
         session' \in {"none", "open", "closed"}, cut' \subseteq 0..(MaxTargets - 1),
         RunnerInv(All \o pending', stage', targets', idx', session',
                   settings.interruptible, measDone, cut')
  PROVE  IInv'
<1>1. /\ settings' = settings /\ out' = out /\ eof' = eof /\ isdone' = isdone
      /\ received' = received /\ root' = root /\ expired' = expired /\ logs' = logs
  BY DEF stageVars, channelVars, appVars, envVars
<1>2. stage \in Stages /\ stage' \in Stages
      /\ stage \notin {"signalled", "stopped"} /\ stage' \notin {"signalled", "stopped"}
  BY DEF Running
<1>3. TypeOK'
  BY <1>1, <1>2 DEF IInv, TypeOK
<1>4. SeqTypes'
  BY <1>1 DEF IInv, SeqTypes
<1>5. NilInv'
  BY <1>1, <1>2 DEF IInv, NilInv
<1>6. All' = All \o pending'
  <2>1. received \o out \in Seq(Events)
    BY Parts DEF IInv, SeqTypes
  <2>2. (received \o out) \o << >> = received \o out
    BY <2>1, ConcatEmptySeq
  <2> QED BY <1>1, <2>2 DEF All
<1>7. measDone' = measDone
  BY <1>1 DEF measDone
<1>8. RunnerInv(All, stage, targets, idx, session, settings.interruptible, measDone, cut)'
  <2>1. RunnerInv(All', stage', targets', idx', session', settings'.interruptible,
                  measDone', cut')
    BY <1>1, <1>6, <1>7
  <2> QED BY <2>1 DEF RunnerInv, Protocol, InOrder, Progress, Excused, Ending, CutInv,
                      EndsWith, SaidAll, Said, Keys
<1> QED BY <1>3, <1>4, <1>5, <1>8 DEF IInv

\* The stages before the loop, when nothing fails.
LEMMA EarlyAction ==
  ASSUME IInv, pending = << >>, UNCHANGED <<stageVars, idx, cut>>,
         stage \in Early \cup {"report"}, stage' \in Early \cup {"report", "loop"},
         targets' \in 0..MaxTargets, stage' \in Early => targets' = 0,
         stage' \in {"settings", "newsession"} => session' = "none",
         stage' \notin {"settings", "newsession"} => session' = "open",
         Plain(pending'), pending' \in Seq(Loud)
  PROVE  IInv'
<1>1. /\ All \in Seq(Events) /\ idx = 0
      /\ RunnerInv(All, stage, targets, 0, session, settings.interruptible, measDone, cut)
  BY Facts
<1>2. idx' = 0 /\ cut' = cut
  BY <1>1
<1>3. RunnerInv(All \o pending', stage', targets', 0, session',
                settings.interruptible, measDone, cut)
  <2> DEFINE st2 == stage'
             tg2 == targets'
             se2 == session'
             t == pending'
             md == measDone
  <2>1. /\ st2 \in Early \cup {"report", "loop"} /\ (st2 \in Early => tg2 = 0)
        /\ (st2 = "settings" \/ st2 = "newsession" => se2 = "none")
        /\ (st2 # "settings" /\ st2 # "newsession" => se2 = "open")
        /\ Plain(t)
        /\ RunnerInv(All, stage, targets, 0, session, settings.interruptible, md, cut)
    BY <1>1
  <2> HIDE DEF st2, tg2, se2, t, md
  <2>2. RunnerInv(All \o t, st2, tg2, 0, se2, settings.interruptible, md, cut)
    BY <1>1, <2>1, EarlyStep
  <2> QED BY <2>2 DEF st2, tg2, se2, t, md
<1>4. stage \in Running /\ stage' \in Running
  BY DEF Early, Running, Stages
<1>5. cut' \subseteq 0..(MaxTargets - 1)
  BY <1>2 DEF IInv, TypeOK
<1>6. session' \in {"none", "open", "closed"} /\ idx' \in 0..targets'
  BY <1>2, TaskAssumption
<1>7. RunnerInv(All \o pending', stage', targets', idx', session',
                settings.interruptible, measDone, cut')
  BY <1>2, <1>3
<1>8. UNCHANGED stageVars
  OBVIOUS
<1> QED BY <1>4, <1>5, <1>6, <1>7, <1>8, RunStep

\* Without a session, the runner returns after a startup failure.
LEMMA StartupAction ==
  ASSUME IInv, pending = << >>, UNCHANGED <<stageVars, targets, idx, session, cut>>,
         stage \in {"settings", "newsession"}, stage' = "return",
         pending' = <<Event("failure.startup")>>
  PROVE  IInv'
<1>1. /\ All \in Seq(Events) /\ idx = 0
      /\ RunnerInv(All, stage, targets, 0, session, settings.interruptible, measDone, cut)
  BY Facts DEF Early
<1>2. RunnerInv(All \o <<Event("failure.startup")>>, "return", targets, 0, session,
                settings.interruptible, measDone, cut)
  BY <1>1, StartupStep
<1>3. "failure.startup" \in PlainKeys
  BY PlainKeysType
<1>4. pending' \in Seq(Loud)
  BY <1>3, PlainTuples
<1>5. stage \in Running /\ stage' \in Running
  BY DEF Running, Stages
<1>6. RunnerInv(All \o pending', stage', targets', idx', session',
                settings.interruptible, measDone, cut')
  BY <1>1, <1>2
<1>7. /\ targets' \in 0..MaxTargets /\ idx' \in 0..targets'
      /\ session' \in {"none", "open", "closed"} /\ cut' \subseteq 0..(MaxTargets - 1)
  BY DEF IInv, TypeOK
<1>8. UNCHANGED stageVars
  OBVIOUS
<1> QED BY <1>4, <1>5, <1>6, <1>7, <1>8, RunStep

\* The deferred function runs next.
LEMMA DeferAction ==
  ASSUME IInv, pending = << >>, UNCHANGED <<stageVars, targets, idx, session, cut>>,
         stage \in Stages \ (Late \cup {"settings", "newsession"}), stage' = "deferred",
         Plain(pending'), pending' \in Seq(Loud),
         \/ stage \in Early
         \/ idx >= targets
         \/ measDone
         \/ "failure.report_create" \in SaidAll(pending', NoIdx)
  PROVE  IInv'
<1>1. /\ All \in Seq(Events) /\ targets \in Nat /\ idx \in Nat
      /\ RunnerInv(All, stage, targets, idx, session, settings.interruptible, measDone, cut)
      /\ stage \in Early => targets = 0
      /\ stage \notin Late => \A i \in Nat : i < idx => SaidAll(All, i) \cap Finals # {}
  BY Facts
<1> DEFINE t == pending'
           md == measDone
<1>2. ASSUME NEW i \in 0..(targets - 1)
      PROVE  \/ SaidAll(All, i) \cap Finals # {}
             \/ md
             \/ SaidAll(t, NoIdx) \cap {"failure.startup", "failure.report_create"} # {}
  <2>1. CASE stage \in Early
    BY <1>1, <2>1
  <2>2. CASE idx >= targets
    <3>1. i \in Nat /\ i < idx
      BY <1>1, <2>2
    <3> QED BY <1>1, <3>1
  <2>3. CASE "failure.report_create" \in SaidAll(pending', NoIdx)
    BY <2>3
  <2> QED BY <2>1, <2>2, <2>3
<1>3. /\ Plain(t)
      /\ RunnerInv(All, stage, targets, idx, session, settings.interruptible, md, cut)
  BY <1>1
<1>4. RunnerInv(All \o t, "deferred", targets, idx, session, settings.interruptible, md, cut)
  <2> HIDE DEF t, md
  <2> QED BY <1>1, <1>2, <1>3, DeferStep
<1>5. stage \in Running /\ stage' \in Running
  BY DEF Running, Stages, Late, Ended
<1>6. RunnerInv(All \o pending', stage', targets', idx', session',
                settings.interruptible, measDone, cut')
  BY <1>4
<1>7. /\ targets' \in 0..MaxTargets /\ idx' \in 0..targets'
      /\ session' \in {"none", "open", "closed"} /\ cut' \subseteq 0..(MaxTargets - 1)
  BY DEF IInv, TypeOK
<1>8. UNCHANGED stageVars
  OBVIOUS
<1> QED BY <1>5, <1>6, <1>7, <1>8, RunStep

\* The runner says something about the current target and stays with it, or goes
\* on with the next one.
LEMMA TellAction ==
  ASSUME IInv, pending = << >>, UNCHANGED <<stageVars, targets, session, cut>>,
         stage \in {"loop"} \cup InLoop, idx < targets,
         stage \in {"measured", "failed"} => ~Interrupted,
         NEW key \in PlainKeys, NEW p, Plain(p), p \in Seq(Loud),
         pending' = <<EventOf(key, idx)>> \o p, Current(stage) \subseteq Pasts(key),
         \/ /\ stage' \in InLoop /\ idx' = idx
            /\ \A said \in Current(stage) : said \cup {key} \in Current(stage')
         \/ /\ stage' = "loop" /\ idx' = idx + 1
            /\ key \in Finals
  PROVE  IInv'
<1>1. /\ All \in Seq(Events) /\ targets \in Nat /\ idx \in Nat
      /\ RunnerInv(All, stage, targets, idx, session, settings.interruptible, measDone, cut)
      /\ \A i \in cut : /\ settings.interruptible /\ measDone
                        /\ stage \in Late \cup {"measured", "failed"}
  BY Facts
<1>2. cut = {}
  <2>1. stage \in Late \cup {"measured", "failed"} => stage \in {"measured", "failed"}
    BY DEF Late, Ended, InLoop
  <2> QED BY <1>1, <2>1 DEF Interrupted
<1>3. key \in EventKeys \ QuietKeys /\ key # "status.end"
  BY PlainKeysType
<1> DEFINE u == Tell(All, key, idx, p)
           ip == settings.interruptible
           md == measDone
           st2 == stage'
           ix2 == idx'
<1>4. RunnerInv(All, stage, targets, idx, session, ip, md, {})
  BY <1>1, <1>2
<1>5. /\ \A st \in InLoop :
           (\A said \in Current(stage) : said \cup {key} \in Current(st)) =>
             RunnerInv(u, st, targets, idx, session, ip, md, {})
      /\ key \in Finals => RunnerInv(u, "loop", targets, idx + 1, session, ip, md, {})
  <2> HIDE DEF ip, md
  <2> QED BY <1>1, <1>3, <1>4, TellStep
<1>6. RunnerInv(u, st2, targets, ix2, session, ip, md, {})
  <2>1. \/ /\ st2 \in InLoop /\ ix2 = idx
           /\ \A said \in Current(stage) : said \cup {key} \in Current(st2)
        \/ /\ st2 = "loop" /\ ix2 = idx + 1
           /\ key \in Finals
    OBVIOUS
  <2> HIDE DEF u, st2, ix2, ip, md
  <2> QED BY <1>5, <2>1
<1>7. RunnerInv(All \o pending', stage', targets', idx', session',
                settings.interruptible, measDone, cut')
  BY <1>2, <1>6 DEF Tell
<1>8. pending' \in Seq(Loud)
  <2> DEFINE h == <<EventOf(key, idx)>>
  <2>1. h \in Seq(Loud)
    BY <1>1, <1>3, LoudType
  <2> HIDE DEF h
  <2>2. h \o p \in Seq(Loud)
    BY <2>1, ConcatProperties
  <2> QED BY <2>2 DEF h
<1>9. stage \in Running /\ stage' \in Running
  BY DEF Running, Stages, InLoop
<1>10. /\ targets' \in 0..MaxTargets /\ session' \in {"none", "open", "closed"}
       /\ cut' \subseteq 0..(MaxTargets - 1)
  BY DEF IInv, TypeOK
<1>11. idx' \in 0..targets'
  BY <1>1
<1>12. UNCHANGED stageVars
  OBVIOUS
<1> QED BY <1>7, <1>8, <1>9, <1>10, <1>11, <1>12, RunStep

\* Every step of the runner keeps the invariant.
LEMMA RunPreserves ==
  ASSUME IInv, Run
  PROVE  IInv'
<1> USE DEF At, Continue
<1>1. CASE hasUnsupportedSettings
  <2>0. {"status.started", "failure.startup"} \subseteq PlainKeys
    BY PlainKeysType
  <2>1. CASE Continue("newsession", <<Event("status.started")>>)
    <3>1. Plain(pending') /\ pending' \in Seq(Loud)
      BY <2>0, <2>1, PlainTuples
    <3>2. /\ pending = << >> /\ UNCHANGED <<stageVars, targets, idx, session, cut>>
          /\ stage = "settings" /\ stage' = "newsession"
      BY <1>1, <2>1 DEF hasUnsupportedSettings
    <3>3. /\ stage \in Early \cup {"report"} /\ stage' \in Early \cup {"report", "loop"}
          /\ stage \in Early
      BY <3>2 DEF Early
    <3>4. session = "none" /\ targets = 0
      BY <3>2, <3>3, Facts
    <3>5. targets' \in 0..MaxTargets /\ targets' = 0
      BY <3>2, <3>4, TaskAssumption
    <3> QED BY <3>1, <3>2, <3>3, <3>4, <3>5, EarlyAction
  <2>2. CASE Continue("return", <<Event("failure.startup")>>)
    BY <1>1, <2>2, StartupAction DEF hasUnsupportedSettings
  <2> QED BY <1>1, <2>1, <2>2 DEF hasUnsupportedSettings
<1>2. CASE newsession
  <2>1. CASE session' = "open" /\ Continue("builder", << >>)
    <3>1. Plain(pending') /\ pending' \in Seq(Loud)
      BY <2>1 DEF Plain
    <3>2. /\ pending = << >> /\ UNCHANGED <<stageVars, targets, idx, cut>>
          /\ stage = "newsession" /\ stage' = "builder" /\ session' = "open"
      BY <1>2, <2>1 DEF newsession
    <3>3. /\ stage \in Early \cup {"report"} /\ stage' \in Early \cup {"report", "loop"}
          /\ stage \in Early
      BY <3>2 DEF Early
    <3>4. targets = 0
      BY <3>2, <3>3, Facts
    <3>5. targets' \in 0..MaxTargets /\ targets' = 0
      BY <3>2, <3>4, TaskAssumption
    <3> QED BY <3>1, <3>2, <3>3, <3>5, EarlyAction
  <2>2. CASE Continue("return", <<Event("failure.startup")>>) /\ UNCHANGED session
    BY <1>2, <2>2, StartupAction DEF newsession
  <2> QED BY <1>2, <2>1, <2>2 DEF newsession
<1>3. CASE NewExperimentBuilder
  <2>0. "failure.startup" \in PlainKeys
    BY PlainKeysType
  <2>1. pending = << >> /\ UNCHANGED <<stageVars, targets, idx, session, cut>>
        /\ stage = "builder"
    BY <1>3 DEF NewExperimentBuilder
  <2>2. stage \in Early /\ stage \in Stages \ (Late \cup {"settings", "newsession"})
    BY <2>1 DEF Early, Stages, Late, Ended
  <2>3. session = "open" /\ targets = 0
    BY <2>2, Facts DEF Late
  <2>4. CASE Continue("backends", << >>)
    <3>1. Plain(pending') /\ pending' \in Seq(Loud)
      BY <2>4 DEF Plain
    <3>2. stage' \in Early \cup {"report", "loop"} /\ stage' = "backends"
      BY <2>4 DEF Early
    <3>3. targets' \in 0..MaxTargets /\ targets' = 0
      BY <2>1, <2>3, TaskAssumption
    <3> QED BY <2>1, <2>2, <2>3, <3>1, <3>2, <3>3, EarlyAction
  <2>5. CASE Continue("deferred", <<Event("failure.startup")>>)
    <3>1. Plain(pending') /\ pending' \in Seq(Loud)
      BY <2>0, <2>5, PlainTuples
    <3> QED BY <2>1, <2>2, <2>5, <3>1, DeferAction
  <2> QED BY <1>3, <2>4, <2>5 DEF NewExperimentBuilder
<1>4. CASE MaybeLookupBackends
  <2>0. {"failure.startup", "status.progress"} \subseteq PlainKeys
    BY PlainKeysType
  <2>1. pending = << >> /\ UNCHANGED <<stageVars, targets, idx, session, cut>>
        /\ stage = "backends"
    BY <1>4 DEF MaybeLookupBackends
  <2>2. stage \in Early /\ stage \in Stages \ (Late \cup {"settings", "newsession"})
    BY <2>1 DEF Early, Stages, Late, Ended
  <2>3. session = "open" /\ targets = 0
    BY <2>2, Facts DEF Late
  <2>4. CASE Continue("location", <<Event("status.progress")>>)
    <3>1. Plain(pending') /\ pending' \in Seq(Loud)
      BY <2>0, <2>4, PlainTuples
    <3>2. stage' \in Early \cup {"report", "loop"} /\ stage' = "location"
      BY <2>4 DEF Early
    <3>3. targets' \in 0..MaxTargets /\ targets' = 0
      BY <2>1, <2>3, TaskAssumption
    <3> QED BY <2>1, <2>2, <2>3, <3>1, <3>2, <3>3, EarlyAction
  <2>5. CASE Continue("deferred", <<Event("failure.startup")>>)
    <3>1. Plain(pending') /\ pending' \in Seq(Loud)
      BY <2>0, <2>5, PlainTuples
    <3> QED BY <2>1, <2>2, <2>5, <3>1, DeferAction
  <2> QED BY <1>4, <2>4, <2>5 DEF MaybeLookupBackends
<1>5. CASE MaybeLookupLocation
  <2>0. {"status.progress", "status.geoip_lookup", "status.resolver_lookup",
         "failure.ip_lookup", "failure.asn_lookup", "failure.cc_lookup",
         "failure.resolver_lookup"} \subseteq PlainKeys
    BY PlainKeysType
  <2>1. pending = << >> /\ UNCHANGED <<stageVars, targets, idx, session, cut>>
        /\ stage = "location"
    BY <1>5 DEF MaybeLookupLocation
  <2>2. stage \in Early /\ stage \in Stages \ (Late \cup {"settings", "newsession"})
    BY <2>1 DEF Early, Stages, Late, Ended
  <2>3. session = "open" /\ targets = 0
    BY <2>2, Facts DEF Late
  <2>4. CASE Continue("load", <<Event("status.progress"), Event("status.progress"),
                                Event("status.geoip_lookup"),
                                Event("status.resolver_lookup")>>)
    <3>1. Plain(pending') /\ pending' \in Seq(Loud)
      BY <2>0, <2>4, PlainTuples
    <3>2. stage' \in Early \cup {"report", "loop"} /\ stage' = "load"
      BY <2>4 DEF Early
    <3>3. targets' \in 0..MaxTargets /\ targets' = 0
      BY <2>1, <2>3, TaskAssumption
    <3> QED BY <2>1, <2>2, <2>3, <3>1, <3>2, <3>3, EarlyAction
  <2>5. CASE Continue("deferred",
                 <<Event("failure.ip_lookup"), Event("failure.asn_lookup"),
                   Event("failure.cc_lookup"), Event("failure.resolver_lookup")>>)
    <3>1. Plain(pending') /\ pending' \in Seq(Loud)
      BY <2>0, <2>5, PlainTuples
    <3> QED BY <2>1, <2>2, <2>5, <3>1, DeferAction
  <2> QED BY <1>5, <2>4, <2>5 DEF MaybeLookupLocation
<1>6. CASE LoadTargets
  <2>0. "failure.startup" \in PlainKeys
    BY PlainKeysType
  <2>1. pending = << >> /\ UNCHANGED <<stageVars, idx, session, cut>> /\ stage = "load"
    BY <1>6 DEF LoadTargets
  <2>2. stage \in Early /\ stage \in Stages \ (Late \cup {"settings", "newsession"})
    BY <2>1 DEF Early, Stages, Late, Ended
  <2>3. session = "open"
    BY <2>2, Facts DEF Late
  <2>4. CASE /\ targets' \in 0..MaxTargets
             /\ Continue(IF settings.noCollector THEN "loop" ELSE "report", << >>)
    <3>1. Plain(pending') /\ pending' \in Seq(Loud)
      BY <2>4 DEF Plain
    <3>2. /\ stage' \in Early \cup {"report", "loop"} /\ stage' \notin Early
          /\ stage' \notin {"settings", "newsession"}
      BY <2>4 DEF Early
    <3> QED BY <2>1, <2>2, <2>3, <2>4, <3>1, <3>2, EarlyAction
  <2>5. CASE Continue("deferred", <<Event("failure.startup")>>) /\ UNCHANGED targets
    <3>1. Plain(pending') /\ pending' \in Seq(Loud)
      BY <2>0, <2>5, PlainTuples
    <3> QED BY <2>1, <2>2, <2>5, <3>1, DeferAction
  <2> QED BY <1>6, <2>4, <2>5 DEF LoadTargets
<1>7. CASE OpenReport
  <2>0. {"status.progress", "status.report_create", "failure.report_create"}
          \subseteq PlainKeys
    BY PlainKeysType
  <2>1. pending = << >> /\ UNCHANGED <<stageVars, targets, idx, session, cut>>
        /\ stage = "report"
    BY <1>7 DEF OpenReport
  <2>2. stage \in Stages \ (Late \cup {"settings", "newsession"})
    BY <2>1 DEF Stages, Late, Ended
  <2>3. session = "open"
    BY <2>2, Facts DEF Late
  <2>4. CASE Continue("loop", <<Event("status.progress"), Event("status.report_create")>>)
    <3>1. Plain(pending') /\ pending' \in Seq(Loud)
      BY <2>0, <2>4, PlainTuples
    <3>2. /\ stage' \in Early \cup {"report", "loop"} /\ stage' \notin Early
          /\ stage' \notin {"settings", "newsession"}
      BY <2>4 DEF Early
    <3>3. targets' \in 0..MaxTargets
      BY <2>1 DEF IInv, TypeOK
    <3> QED BY <2>1, <2>2, <2>3, <3>1, <3>2, <3>3, EarlyAction
  <2>5. CASE Continue("deferred", <<Event("failure.report_create")>>)
    <3>1. Plain(pending') /\ pending' \in Seq(Loud)
          /\ "failure.report_create" \in SaidAll(pending', NoIdx)
      BY <2>0, <2>5, PlainTuples
    <3> QED BY <2>1, <2>2, <2>5, <3>1, DeferAction
  <2> QED BY <1>7, <2>4, <2>5 DEF OpenReport
<1>8. CASE LoopIteration
  <2>1. pending = << >> /\ UNCHANGED <<stageVars, targets, idx, session, cut>>
        /\ stage = "loop"
    BY <1>8 DEF LoopIteration
  <2>2. stage \in Stages \ (Late \cup {"settings", "newsession"})
    BY <2>1 DEF Stages, Late, Ended
  <2>3. CASE idx >= targets \/ measDone
    <3>1. stage' = "deferred" /\ pending' = << >>
      BY <1>8, <2>3 DEF LoopIteration
    <3>2. Plain(pending') /\ pending' \in Seq(Loud)
      BY <3>1 DEF Plain
    <3> QED BY <2>1, <2>2, <2>3, <3>1, <3>2, DeferAction
  <2>4. CASE ~(idx >= targets \/ measDone)
    <3>1. PICK p \in {<< >>, <<Event("status.progress")>>} :
            /\ stage' = "measure"
            /\ pending' = <<EventOf("status.measurement_start", idx)>> \o p
      BY <1>8, <2>4 DEF LoopIteration
    <3>2. "status.progress" \in PlainKeys /\ "status.measurement_start" \in PlainKeys
      BY PlainKeysType
    <3>3. Plain(p) /\ p \in Seq(Loud)
      BY <3>2, PlainTuples
    <3>4. idx < targets
      BY <2>4, Facts
    <3>5. /\ Current(stage) \subseteq Pasts("status.measurement_start")
          /\ \A said \in Current(stage) :
               said \cup {"status.measurement_start"} \in Current(stage')
      BY <2>1, <3>1, Nexts
    <3>6. stage \in {"loop"} \cup InLoop /\ stage' \in InLoop
      BY <2>1, <3>1 DEF InLoop
    <3> QED BY <2>1, <3>1, <3>2, <3>3, <3>4, <3>5, <3>6, TellAction
  <2> QED BY <2>3, <2>4
<1>9. CASE MeasureReturns
  <2>1. /\ pending = << >> /\ UNCHANGED <<stageVars, targets, idx, session>>
        /\ stage = "measure" /\ pending' = << >> /\ stage' \in {"measured", "failed"}
        /\ cut' = cut \/ (cut' = cut \cup {idx} /\ settings.interruptible /\ measDone)
    BY <1>9 DEF MeasureReturns
  <2>2. /\ All \in Seq(Events)
        /\ targets \in Nat /\ idx \in Nat
        /\ RunnerInv(All, stage, targets, idx, session, settings.interruptible,
                     measDone, cut)
        /\ idx < targets
    BY <2>1, Facts DEF InLoop
  <2>3. All \o pending' = All
    BY <2>1, <2>2, ConcatEmptySeq
  <2>4. RunnerInv(All, stage', targets, idx, session, settings.interruptible,
                  measDone, cut')
    <3> DEFINE st2 == stage'
               ct2 == cut'
               ip == settings.interruptible
               md == measDone
    <3>1. /\ st2 \in {"measured", "failed"}
          /\ ct2 = cut \/ (ct2 = cut \cup {idx} /\ ip /\ md)
          /\ RunnerInv(All, "measure", targets, idx, session, ip, md, cut)
      BY <2>1, <2>2
    <3> HIDE DEF st2, ct2, ip, md
    <3>2. RunnerInv(All, st2, targets, idx, session, ip, md, ct2)
      BY <3>1, MeasureStep
    <3> QED BY <3>2 DEF st2, ct2, ip, md
  <2>5. RunnerInv(All \o pending', stage', targets', idx', session',
                  settings.interruptible, measDone, cut')
    BY <2>1, <2>3, <2>4
  <2>6. stage \in Running /\ stage' \in Running
    BY <2>1 DEF Running, Stages
  <2>7. /\ targets' \in 0..MaxTargets /\ idx' \in 0..targets'
        /\ session' \in {"none", "open", "closed"} /\ cut \subseteq 0..(MaxTargets - 1)
    BY <2>1 DEF IInv, TypeOK
  <2>8. cut' \subseteq 0..(MaxTargets - 1)
    <3>1. targets \in 0..MaxTargets /\ MaxTargets \in Nat
      BY <2>1, <2>7, TaskAssumption
    <3>2. idx \in 0..(MaxTargets - 1)
      BY <2>2, <3>1
    <3> QED BY <2>1, <2>7, <3>2
  <2>9. pending' \in Seq(Loud) /\ UNCHANGED stageVars
    BY <2>1
  <2> QED BY <2>1, <2>5, <2>6, <2>7, <2>8, <2>9, RunStep
<1>10. CASE BreakLoop
  <2>1. /\ pending = << >> /\ UNCHANGED <<stageVars, targets, idx, session, cut>>
        /\ stage \in {"measured", "failed"} /\ measDone
        /\ stage' = "deferred" /\ pending' = << >>
    BY <1>10 DEF BreakLoop, Interrupted
  <2>2. stage \in Stages \ (Late \cup {"settings", "newsession"})
    BY <2>1 DEF Stages, Late, Ended
  <2>3. Plain(pending') /\ pending' \in Seq(Loud)
    BY <2>1 DEF Plain
  <2> QED BY <2>1, <2>2, <2>3, DeferAction
<1>11. ASSUME NEW key \in PlainKeys, pending' = <<EventOf(key, idx)>>
       PROVE  pending' = <<EventOf(key, idx)>> \o << >>
  <2> DEFINE h == <<EventOf(key, idx)>>
  <2>1. h \in Seq(Loud)
    BY Facts, LoudType, PlainKeysType
  <2> HIDE DEF h
  <2>2. h \o << >> = h
    BY <2>1, ConcatEmptySeq
  <2> QED BY <1>11, <2>2 DEF h
<1>12. Plain(<< >>) /\ << >> \in Seq(Loud)
  BY DEF Plain
<1>13. CASE MeasurementFailed
  <2>1. /\ pending = << >> /\ UNCHANGED <<stageVars, targets, session, cut>>
        /\ stage = "failed" /\ ~Interrupted /\ stage' = "loop" /\ idx' = idx + 1
        /\ pending' = <<EventOf("failure.measurement", idx)>>
    BY <1>13 DEF MeasurementFailed
  <2>2. "failure.measurement" \in PlainKeys /\ "failure.measurement" \in Finals
    BY PlainKeysType DEF Finals
  <2>3. stage \in {"loop"} \cup InLoop /\ stage \in InLoop
    BY <2>1 DEF InLoop
  <2>4. idx < targets
    BY <2>3, Facts
  <2>5. Current(stage) \subseteq Pasts("failure.measurement")
    BY <2>1, Nexts
  <2>6. pending' = <<EventOf("failure.measurement", idx)>> \o << >>
    BY <1>11, <2>1, <2>2
  <2> QED BY <1>12, <2>1, <2>2, <2>3, <2>4, <2>5, <2>6, TellAction
<1>14. CASE MeasurementReady
  <2>1. /\ pending = << >> /\ UNCHANGED <<stageVars, targets, idx, session, cut>>
        /\ stage = "measured" /\ ~Interrupted /\ stage' \in {"submit", "done"}
        /\ pending' = <<EventOf("measurement", idx)>>
    BY <1>14 DEF MeasurementReady
  <2>2. "measurement" \in PlainKeys
    BY PlainKeysType
  <2>3. stage \in {"loop"} \cup InLoop /\ stage \in InLoop /\ stage' \in InLoop
    BY <2>1 DEF InLoop
  <2>4. idx < targets
    BY <2>3, Facts
  <2>5. /\ Current(stage) \subseteq Pasts("measurement")
        /\ \A said \in Current(stage) : said \cup {"measurement"} \in Current(stage')
    BY <2>1, Nexts
  <2>6. pending' = <<EventOf("measurement", idx)>> \o << >>
    BY <1>11, <2>1, <2>2
  <2> QED BY <1>12, <2>1, <2>2, <2>3, <2>4, <2>5, <2>6, TellAction
<1>15. CASE SubmitMeasurement
  <2>1. /\ pending = << >> /\ UNCHANGED <<stageVars, targets, idx, session, cut>>
        /\ stage = "submit" /\ stage' = "done"
    BY <1>15 DEF SubmitMeasurement
  <2>2. PICK key \in {"status.measurement_submission", "failure.measurement_submission"} :
          pending' = <<EventOf(key, idx)>>
    BY <1>15 DEF SubmitMeasurement
  <2>3. key \in PlainKeys
    BY PlainKeysType
  <2>4. /\ stage \in {"loop"} \cup InLoop /\ stage \in InLoop /\ stage' \in InLoop
        /\ stage \notin {"measured", "failed"}
    BY <2>1 DEF InLoop
  <2>5. idx < targets
    BY <2>4, Facts
  <2>6. /\ Current(stage) \subseteq Pasts(key)
        /\ \A said \in Current(stage) : said \cup {key} \in Current(stage')
    BY <2>1, <2>2, Nexts
  <2>7. pending' = <<EventOf(key, idx)>> \o << >>
    BY <1>11, <2>2, <2>3
  <2> QED BY <1>12, <2>1, <2>3, <2>4, <2>5, <2>6, <2>7, TellAction
<1>16. CASE MeasurementDone
  <2>1. /\ pending = << >> /\ UNCHANGED <<stageVars, targets, session, cut>>
        /\ stage = "done" /\ stage' = "loop" /\ idx' = idx + 1
        /\ pending' = <<EventOf("status.measurement_done", idx)>>
    BY <1>16 DEF MeasurementDone
  <2>2. "status.measurement_done" \in PlainKeys /\ "status.measurement_done" \in Finals
    BY PlainKeysType DEF Finals
  <2>3. /\ stage \in {"loop"} \cup InLoop /\ stage \in InLoop
        /\ stage \notin {"measured", "failed"}
    BY <2>1 DEF InLoop
  <2>4. idx < targets
    BY <2>3, Facts
  <2>5. Current(stage) \subseteq Pasts("status.measurement_done")
    BY <2>1, Nexts
  <2>6. pending' = <<EventOf("status.measurement_done", idx)>> \o << >>
    BY <1>11, <2>1, <2>2
  <2> QED BY <1>12, <2>1, <2>2, <2>3, <2>4, <2>5, <2>6, TellAction
<1>17. CASE Deferred
  <2>1. /\ pending = << >> /\ UNCHANGED <<stageVars, targets, idx, cut>>
        /\ stage = "deferred" /\ stage' = "return" /\ session' = "closed"
        /\ pending' = <<Event("status.end")>>
    BY <1>17 DEF Deferred
  <2>2. /\ All \in Seq(Events) /\ idx \in Nat
        /\ RunnerInv(All, "deferred", targets, idx, session, settings.interruptible,
                     measDone, cut)
    BY <2>1, Facts
  <2>3. RunnerInv(All \o <<Event("status.end")>>, "return", targets, idx, "closed",
                  settings.interruptible, measDone, cut)
    BY <2>2, EndStep
  <2>4. RunnerInv(All \o pending', stage', targets', idx', session',
                  settings.interruptible, measDone, cut')
    BY <2>1, <2>3
  <2>5. pending' \in Seq(Loud) /\ UNCHANGED stageVars
    BY <2>1, LoudType, PlainKeysType
  <2>6. stage \in Running /\ stage' \in Running
    BY <2>1 DEF Running, Stages
  <2>7. /\ targets' \in 0..MaxTargets /\ idx' \in 0..targets'
        /\ session' \in {"none", "open", "closed"} /\ cut' \subseteq 0..(MaxTargets - 1)
    BY <2>1 DEF IInv, TypeOK
  <2> QED BY <2>1, <2>4, <2>5, <2>6, <2>7, RunStep
<1> QED
  BY <1>1, <1>2, <1>3, <1>4, <1>5, <1>6, <1>7, <1>8, <1>9, <1>10, <1>13, <1>14,
     <1>15, <1>16, <1>17 DEF Run

-----------------------------------------------------------------------------
(* The other steps.                                                        *)

\* A step that changes only what the invariant of the runner does not see.
LEMMA QuietStep ==
  ASSUME IInv, UNCHANGED <<settings, targets, idx, session, cut>>,
         stage' = stage \/ (stage \in Ended /\ stage' \in Ended),
         Same(All, All'), measDone => measDone',
         TypeOK', SeqTypes', NilInv'
  PROVE  IInv'
<1> DEFINE s == All'
           md2 == measDone'
           md == measDone
           st2 == stage'
           ip == settings.interruptible
<1>1. /\ idx \in Nat /\ RunnerInv(All, stage, targets, idx, session, ip, md, cut)
      /\ Same(All, s) /\ (md => md2)
  BY Facts
<1>2. RunnerInv(s, stage, targets, idx, session, ip, md2, cut)
  <2> HIDE DEF s, md, md2, ip
  <2> QED BY <1>1, SameStep
<1>3. RunnerInv(s, st2, targets, idx, session, ip, md2, cut)
  <2>1. st2 = stage \/ (stage \in Ended /\ st2 \in Ended)
    OBVIOUS
  <2> HIDE DEF s, st2, md, md2, ip
  <2> QED BY <1>2, <2>1, QuitStep
<1>4. RunnerInv(All', stage', targets', idx', session', settings'.interruptible,
                measDone', cut')
  BY <1>3
<1>5. RunnerInv(All, stage, targets, idx, session, settings.interruptible, measDone, cut)'
  BY <1>4 DEF RunnerInv, Protocol, InOrder, Progress, Excused, Ending, CutInv,
              EndsWith, SaidAll, Said, Keys
<1> QED BY <1>5 DEF IInv

\* A sequence is the same as itself.
LEMMA SameRefl == \A s : Same(s, s)
BY DEF Same

\* The sequences of events in a state of the invariant.
LEMMA StateParts ==
  ASSUME IInv
  PROVE  /\ received \in Seq(Events) /\ out \in Seq(Events) /\ pending \in Seq(Events)
         /\ received \in Seq(Loud) /\ out \in Seq(Loud \cup Quiet) /\ pending \in Seq(Loud)
         /\ Log \in Quiet /\ Nil \in Quiet /\ Log # Nil
         /\ Len(out) \in Nat /\ DOMAIN out = 1..Len(out)
<1>1. received \in Seq(Loud) /\ out \in Seq(Loud \cup Quiet) /\ pending \in Seq(Loud)
  BY DEF IInv, SeqTypes
<1>2. received \in Seq(Events) /\ out \in Seq(Events) /\ pending \in Seq(Events)
  BY <1>1, Parts
<1>3. Log \in Quiet /\ Nil \in Quiet /\ Log # Nil
  BY DEF Quiet, Log, Nil, Event
<1> QED BY <1>1, <1>2, <1>3

\* The runner emits an event.
LEMMA EmitPreserves ==
  ASSUME IInv, Emit
  PROVE  IInv'
<1>1. /\ pending # << >> /\ Len(out) < BufSiz /\ out' = Append(out, Head(pending))
      /\ pending' = Tail(pending)
      /\ UNCHANGED <<settings, targets, idx, session, cut>> /\ stage' = stage
      /\ eof' = eof /\ isdone' = isdone /\ received' = received
      /\ root' = root /\ expired' = expired /\ logs' = logs
  BY DEF Emit, appVars, envVars
<1>2. /\ received \in Seq(Events) /\ out \in Seq(Events) /\ pending \in Seq(Events)
      /\ received \in Seq(Loud) /\ out \in Seq(Loud \cup Quiet) /\ pending \in Seq(Loud)
      /\ Len(out) \in Nat /\ DOMAIN out = 1..Len(out)
  BY StateParts
<1>3. Head(pending) \in Loud /\ Tail(pending) \in Seq(Loud)
  BY <1>1, <1>2, HeadAndTail
<1>4. Head(pending) \in Loud \cup Quiet /\ Head(pending) \notin Quiet
  BY <1>3, LoudType
<1>5. /\ out' \in Seq(Loud \cup Quiet) /\ Len(out') = Len(out) + 1
      /\ \A i \in 1..Len(out) : out'[i] = out[i]
      /\ out'[Len(out) + 1] = Head(pending)
  BY <1>1, <1>2, <1>4, AppendProperties
<1>6. All' = All
  BY <1>1, <1>2, EmitMoves DEF All
<1>7. SeqTypes'
  BY <1>1, <1>2, <1>3, <1>5 DEF SeqTypes
<1>8. Len(out') <= BufSiz
  BY <1>1, <1>2, <1>5, TaskAssumption
<1>9. TypeOK'
  BY <1>1, <1>8 DEF IInv, TypeOK
<1>10. stage \notin {"signalled", "stopped"}
  BY <1>1 DEF IInv, NilInv
<1>11. NilInv'
  <2>1. ~isdone /\ \A j \in DOMAIN out : out[j] # Nil
    BY <1>10 DEF IInv, NilInv
  <2>2. DOMAIN out' = 1..(Len(out) + 1)
    BY <1>5
  <2>3. Head(pending) # Nil
    BY <1>4, StateParts
  <2>4. \A j \in DOMAIN out' : out'[j] # Nil
    <3>1. ASSUME NEW j \in DOMAIN out' PROVE out'[j] # Nil
      <4>1. j \in 1..Len(out) \/ j = Len(out) + 1
        BY <1>2, <2>2
      <4> QED BY <1>2, <1>5, <2>1, <2>3, <4>1
    <3> QED BY <3>1
  <2> QED BY <1>1, <1>10, <2>1, <2>4 DEF NilInv
<1>12. Same(All, All') /\ (measDone => measDone')
  BY <1>1, <1>6, SameRefl DEF measDone
<1> QED BY <1>1, <1>7, <1>9, <1>11, <1>12, QuietStep

\* A goroutine logs.
LEMMA EmitLogPreserves ==
  ASSUME IInv, EmitLog
  PROVE  IInv'
<1>1. /\ logs < MaxLogs /\ logs' = logs + 1
      /\ UNCHANGED <<settings, targets, idx, session, cut>> /\ stage' = stage
      /\ eof' = eof /\ isdone' = isdone /\ received' = received
      /\ root' = root /\ expired' = expired /\ pending' = pending
      /\ out' = out \/ (Len(out) < BufSiz /\ out' = Append(out, Log))
  BY DEF EmitLog, appVars, runnerVars
<1>2. /\ received \in Seq(Events) /\ out \in Seq(Events) /\ pending \in Seq(Events)
      /\ received \in Seq(Loud) /\ out \in Seq(Loud \cup Quiet) /\ pending \in Seq(Loud)
      /\ Log \in Quiet /\ Log # Nil
      /\ Len(out) \in Nat /\ DOMAIN out = 1..Len(out)
  BY StateParts
<1>3. logs' \in 0..MaxLogs
  BY <1>1, TaskAssumption DEF IInv, TypeOK
<1>4. measDone => measDone'
  BY <1>1 DEF measDone
<1>5. CASE out' = out
  <2>1. Same(All, All')
    BY <1>1, <1>5, SameRefl DEF All
  <2>2. TypeOK' /\ SeqTypes' /\ NilInv'
    BY <1>1, <1>3, <1>5 DEF IInv, TypeOK, SeqTypes, NilInv
  <2> QED BY <1>1, <1>4, <2>1, <2>2, QuietStep
<1>6. CASE Len(out) < BufSiz /\ out' = Append(out, Log)
  <2>1. Log \in Loud \cup Quiet
    BY <1>2
  <2>2. /\ out' \in Seq(Loud \cup Quiet) /\ Len(out') = Len(out) + 1
        /\ \A i \in 1..Len(out) : out'[i] = out[i]
        /\ out'[Len(out) + 1] = Log
    BY <1>2, <1>6, <2>1, AppendProperties
  <2>3. DOMAIN out' = 1..(Len(out) + 1)
    BY <2>2
  <2>4. ASSUME NEW j \in DOMAIN out'
        PROVE  \/ j \in DOMAIN out /\ out'[j] = out[j]
               \/ j = Len(out) + 1 /\ out'[j] = Log
    <3>1. j \in 1..Len(out) \/ j = Len(out) + 1
      BY <1>2, <2>3
    <3> QED BY <1>2, <2>2, <3>1
  <2>5. Same(All, All')
    <3>1. Same(received \o out \o pending, received \o Append(out, Log) \o pending)
      BY <1>2, QuietEnters
    <3> QED BY <1>1, <1>6, <3>1 DEF All
  <2>6. SeqTypes'
    BY <1>1, <1>2, <2>2 DEF SeqTypes
  <2>7. Len(out') <= BufSiz
    BY <1>2, <1>6, <2>2, TaskAssumption
  <2>8. TypeOK'
    BY <1>1, <1>3, <2>7 DEF IInv, TypeOK
  <2>9. NilInv'
    <3>1. CASE stage \notin {"signalled", "stopped"}
      <4>1. ~isdone /\ \A j \in DOMAIN out : out[j] # Nil
        BY <3>1 DEF IInv, NilInv
      <4>2. \A j \in DOMAIN out' : out'[j] # Nil
        BY <1>2, <2>4, <4>1
      <4> QED BY <1>1, <3>1, <4>1, <4>2 DEF NilInv
    <3>2. CASE stage \in {"signalled", "stopped"} /\ isdone
      <4>1. pending = << >> /\ \A j \in DOMAIN out : out[j] = Log
        BY <3>2 DEF IInv, NilInv
      <4>2. \A j \in DOMAIN out' : out'[j] = Log
        BY <2>4, <4>1
      <4> QED BY <1>1, <3>2, <4>1, <4>2 DEF NilInv
    <3>3. CASE stage \in {"signalled", "stopped"} /\ ~isdone
      <4>1. pending = << >>
        BY <3>3 DEF IInv, NilInv
      <4>2. PICK n \in DOMAIN out :
              /\ out[n] = Nil
              /\ \A j \in DOMAIN out : (j > n => out[j] = Log) /\ (j < n => out[j] # Nil)
        BY <3>3 DEF IInv, NilInv
      <4>3. n \in DOMAIN out' /\ out'[n] = Nil
        BY <1>2, <2>2, <2>3, <4>2
      <4>4. \A j \in DOMAIN out' : (j > n => out'[j] = Log) /\ (j < n => out'[j] # Nil)
        BY <1>2, <2>4, <4>2
      <4>5. \E m \in DOMAIN out' :
              /\ out'[m] = Nil
              /\ \A j \in DOMAIN out' :
                   (j > m => out'[j] = Log) /\ (j < m => out'[j] # Nil)
        BY <4>3, <4>4
      <4> QED BY <1>1, <3>3, <4>1, <4>5 DEF NilInv
    <3> QED BY <3>1, <3>2, <3>3 DEF IInv, TypeOK
  <2> QED BY <1>1, <1>4, <2>5, <2>6, <2>8, <2>9, QuietStep
<1> QED BY <1>1, <1>5, <1>6

\* The goroutine of the task signals that it is done.
LEMMA SignalDonePreserves ==
  ASSUME IInv, SignalDone
  PROVE  IInv'
<1>1. /\ stage = "return" /\ pending = << >> /\ stage' = "signalled" /\ pending' = << >>
      /\ Len(out) < BufSiz /\ out' = Append(out, Nil)
      /\ UNCHANGED <<settings, targets, idx, session, cut>>
      /\ eof' = eof /\ isdone' = isdone /\ received' = received
      /\ root' = root /\ expired' = expired /\ logs' = logs
  BY DEF SignalDone, At, Continue, appVars, envVars
<1>2. /\ received \in Seq(Events) /\ out \in Seq(Events) /\ pending \in Seq(Events)
      /\ received \in Seq(Loud) /\ out \in Seq(Loud \cup Quiet) /\ pending \in Seq(Loud)
      /\ Nil \in Quiet
      /\ Len(out) \in Nat /\ DOMAIN out = 1..Len(out)
  BY StateParts
<1>3. Nil \in Loud \cup Quiet
  BY <1>2
<1>4. /\ out' \in Seq(Loud \cup Quiet) /\ Len(out') = Len(out) + 1
      /\ \A i \in 1..Len(out) : out'[i] = out[i]
      /\ out'[Len(out) + 1] = Nil
  BY <1>1, <1>2, <1>3, AppendProperties
<1>5. DOMAIN out' = 1..(Len(out) + 1)
  BY <1>4
<1>6. Same(All, All')
  BY <1>1, <1>2, QuietEnters DEF All
<1>7. SeqTypes'
  BY <1>1, <1>2, <1>4 DEF SeqTypes
<1>8. Len(out') <= BufSiz
  BY <1>1, <1>2, <1>4, TaskAssumption
<1>9. TypeOK'
  BY <1>1, <1>8 DEF IInv, TypeOK, Stages
<1>10. NilInv'
  <2>1. ~isdone /\ \A j \in DOMAIN out : out[j] # Nil
    BY <1>1 DEF IInv, NilInv
  <2>2. Len(out) + 1 \in DOMAIN out'
    BY <1>2, <1>5
  <2>3. ASSUME NEW j \in DOMAIN out'
        PROVE  /\ ~(j > Len(out) + 1)
               /\ j < Len(out) + 1 => out'[j] # Nil
    <3>1. j \in 1..Len(out) \/ j = Len(out) + 1
      BY <1>2, <1>5
    <3>2. j \in 1..Len(out) => out'[j] = out[j] /\ j \in DOMAIN out
      BY <1>2, <1>4
    <3> QED BY <1>2, <2>1, <3>1, <3>2
  <2>4. \E n \in DOMAIN out' :
          /\ out'[n] = Nil
          /\ \A j \in DOMAIN out' :
               (j > n => out'[j] = Log) /\ (j < n => out'[j] # Nil)
    BY <1>4, <2>2, <2>3
  <2> QED BY <1>1, <2>1, <2>4 DEF NilInv
<1>11. (measDone => measDone') /\ stage \in Ended /\ stage' \in Ended
  BY <1>1 DEF measDone, Ended
<1> QED BY <1>1, <1>6, <1>7, <1>9, <1>10, <1>11, QuietStep

\* The app receives an event.
LEMMA WaitPreserves ==
  ASSUME IInv, WaitForNextEvent
  PROVE  IInv'
<1>1. /\ ~isdone /\ out # << >> /\ out' = Tail(out) /\ isdone' = (Head(out) = Nil)
      /\ received' = IF Head(out) \in {Nil, Log} THEN received
                     ELSE Append(received, Head(out))
      /\ UNCHANGED <<settings, targets, idx, session, cut>> /\ stage' = stage
      /\ eof' = eof /\ root' = root /\ expired' = expired /\ logs' = logs
      /\ pending' = pending
  BY DEF WaitForNextEvent, envVars, runnerVars
<1>2. /\ received \in Seq(Events) /\ out \in Seq(Events) /\ pending \in Seq(Events)
      /\ received \in Seq(Loud) /\ out \in Seq(Loud \cup Quiet) /\ pending \in Seq(Loud)
      /\ Nil \in Quiet /\ Log \in Quiet /\ Log # Nil
      /\ Len(out) \in Nat /\ DOMAIN out = 1..Len(out)
  BY StateParts
<1>3. /\ Head(out) \in Loud \cup Quiet /\ Tail(out) \in Seq(Loud \cup Quiet)
      /\ Len(out) \in Nat \ {0} /\ Head(out) = out[1] /\ Len(Tail(out)) = Len(out) - 1
      /\ \A i \in 1..Len(Tail(out)) : Tail(out)[i] = out[i + 1]
  BY <1>1, <1>2, HeadAndTail
<1>4. /\ DOMAIN out' = 1..(Len(out) - 1) /\ Len(out') = Len(out) - 1
      /\ out' \in Seq(Loud \cup Quiet)
      /\ \A i \in 1..(Len(out) - 1) : out'[i] = out[i + 1] /\ i + 1 \in DOMAIN out
  BY <1>1, <1>2, <1>3
<1>5. Head(out) \in {Nil, Log} <=> Head(out) \in Quiet
  BY DEF Quiet
<1>6. Same(All, All') /\ received' \in Seq(Loud)
  <2>1. CASE Head(out) \in Quiet
    <3>1. received' = received
      BY <1>1, <1>5, <2>1
    <3>2. Same(received \o out \o pending, received \o Tail(out) \o pending)
      BY <1>1, <1>2, <2>1, QuietLeaves
    <3> QED BY <1>1, <1>2, <3>1, <3>2 DEF All
  <2>2. CASE Head(out) \notin Quiet
    <3>1. received' = Append(received, Head(out)) /\ Head(out) \in Loud
      BY <1>1, <1>3, <1>5, <2>2
    <3>2. Append(received, Head(out)) \o Tail(out) \o pending = received \o out \o pending
      BY <1>1, <1>2, ReceiveMoves
    <3>3. All' = All
      BY <1>1, <3>1, <3>2 DEF All
    <3>4. received' \in Seq(Loud)
      BY <1>2, <3>1, AppendProperties
    <3> QED BY <3>3, <3>4, SameRefl
  <2> QED BY <2>1, <2>2
<1>7. SeqTypes'
  BY <1>1, <1>2, <1>4, <1>6 DEF SeqTypes
<1>8. Len(out') <= BufSiz
  BY <1>2, <1>4, TaskAssumption DEF IInv, TypeOK
<1>9. TypeOK'
  BY <1>1, <1>8 DEF IInv, TypeOK
<1>10. NilInv'
  <2>1. CASE stage \notin {"signalled", "stopped"}
    <3>1. \A j \in DOMAIN out : out[j] # Nil
      BY <2>1 DEF IInv, NilInv
    <3>2. Head(out) # Nil
      BY <1>2, <1>3, <3>1
    <3>3. \A j \in DOMAIN out' : out'[j] # Nil
      BY <1>4, <3>1
    <3> QED BY <1>1, <2>1, <3>2, <3>3 DEF NilInv
  <2>2. CASE stage \in {"signalled", "stopped"}
    <3>1. pending = << >>
      BY <2>2 DEF IInv, NilInv
    <3>2. PICK n \in DOMAIN out :
            /\ out[n] = Nil
            /\ \A j \in DOMAIN out : (j > n => out[j] = Log) /\ (j < n => out[j] # Nil)
      BY <1>1, <2>2 DEF IInv, NilInv
    <3>3. CASE n = 1
      <4>1. Head(out) = Nil
        BY <1>3, <3>2, <3>3
      <4>2. \A j \in DOMAIN out' : out'[j] = Log
        BY <1>3, <1>4, <3>2, <3>3
      <4> QED BY <1>1, <2>2, <3>1, <4>1, <4>2 DEF NilInv
    <3>4. CASE n # 1
      <4>1. 1 \in DOMAIN out /\ 1 < n /\ n \in 1..Len(out)
        BY <1>2, <1>3, <3>4
      <4>2. Head(out) # Nil
        BY <1>3, <3>2, <4>1
      <4>3. n - 1 \in DOMAIN out' /\ out'[n - 1] = Nil
        BY <1>3, <1>4, <3>2, <4>1
      <4>4. ASSUME NEW j \in DOMAIN out'
            PROVE  (j > n - 1 => out'[j] = Log) /\ (j < n - 1 => out'[j] # Nil)
        <5>1. j \in 1..(Len(out) - 1) /\ out'[j] = out[j + 1] /\ j + 1 \in DOMAIN out
          BY <1>4
        <5>2. (j > n - 1 => j + 1 > n) /\ (j < n - 1 => j + 1 < n)
          BY <1>3, <4>1, <5>1
        <5> QED BY <3>2, <5>1, <5>2
      <4>5. \E m \in DOMAIN out' :
              /\ out'[m] = Nil
              /\ \A j \in DOMAIN out' :
                   (j > m => out'[j] = Log) /\ (j < m => out'[j] # Nil)
        BY <4>3, <4>4
      <4> QED BY <1>1, <2>2, <3>1, <4>2, <4>5 DEF NilInv
    <3> QED BY <3>3, <3>4
  <2> QED BY <2>1, <2>2
<1>11. measDone => measDone'
  BY <1>1 DEF measDone
<1> QED BY <1>1, <1>6, <1>7, <1>9, <1>10, <1>11, QuietStep

\* The emitter is closed, or a context is done.
LEMMA OtherPreserves ==
  ASSUME IInv, CloseEmitter \/ Interrupt \/ MaxRuntimeElapses
  PROVE  IInv'
<1> USE DEF At, Continue, channelVars, appVars, envVars, runnerVars
<1>1. CASE CloseEmitter
  <2>1. /\ UNCHANGED <<settings, targets, idx, session, cut>>
        /\ stage \in Ended /\ stage' \in Ended
        /\ out' = out /\ received' = received /\ pending' = pending
        /\ stage = "signalled" /\ stage' = "stopped"
        /\ isdone' = isdone /\ root' = root /\ expired' = expired /\ logs' = logs
        /\ eof' = TRUE
    BY <1>1 DEF CloseEmitter, Ended
  <2>2. Same(All, All') /\ (measDone => measDone')
    BY <2>1, SameRefl DEF All, measDone
  <2>3. TypeOK' /\ SeqTypes'
    BY <2>1 DEF IInv, TypeOK, Stages, SeqTypes
  <2>4. NilInv'
    BY <2>1 DEF IInv, NilInv
  <2> QED BY <2>1, <2>2, <2>3, <2>4, QuietStep
<1>2. CASE Interrupt
  <2>1. Same(All, All') /\ (measDone => measDone')
    BY <1>2, SameRefl DEF Interrupt, All, measDone
  <2>2. TypeOK' /\ SeqTypes'
    BY <1>2 DEF Interrupt, IInv, TypeOK, SeqTypes
  <2>3. NilInv'
    BY <1>2 DEF Interrupt, IInv, NilInv
  <2>4. UNCHANGED <<settings, targets, idx, session, cut>> /\ stage' = stage
    BY <1>2 DEF Interrupt
  <2> QED BY <2>1, <2>2, <2>3, <2>4, QuietStep
<1>3. CASE MaxRuntimeElapses
  <2>1. Same(All, All') /\ (measDone => measDone')
    BY <1>3, SameRefl DEF MaxRuntimeElapses, All, measDone
  <2>2. TypeOK' /\ SeqTypes'
    BY <1>3 DEF MaxRuntimeElapses, IInv, TypeOK, SeqTypes
  <2>3. NilInv'
    BY <1>3 DEF MaxRuntimeElapses, IInv, NilInv
  <2>4. UNCHANGED <<settings, targets, idx, session, cut>> /\ stage' = stage
    BY <1>3 DEF MaxRuntimeElapses
  <2> QED BY <2>1, <2>2, <2>3, <2>4, QuietStep
<1> QED BY <1>1, <1>2, <1>3

\* The invariant holds at the start: only the queued event has been said.
LEMMA InitIInv == Init => IInv
<1> SUFFICES ASSUME Init PROVE IInv
  OBVIOUS
<1>0. "status.queued" \in PlainKeys
  BY PlainKeysType
<1>1. Plain(pending) /\ pending \in Seq(Loud)
  BY <1>0, PlainTuples DEF Init
<1>2. TypeOK
  <2>1. 0 \in 0..MaxTargets /\ 0 \in 0..0 /\ 0 \in 0..MaxLogs /\ Len(<< >>) <= BufSiz
    BY TaskAssumption
  <2>2. targets = 0 /\ idx = 0 /\ logs = 0 /\ out = << >>
    BY DEF Init
  <2>3. targets \in 0..MaxTargets /\ idx \in 0..targets /\ logs \in 0..MaxLogs
        /\ Len(out) <= BufSiz
    BY <2>1, <2>2
  <2> QED BY <2>3 DEF Init, TypeOK, Stages
<1>3. SeqTypes
  BY <1>1 DEF Init, SeqTypes
<1>4. NilInv
  BY DEF Init, NilInv
<1>5. All = << >> \o pending
  <2>1. All = (<< >> \o << >>) \o pending
    BY DEF Init, All
  <2>2. << >> \in Seq(Loud)
    OBVIOUS
  <2>3. << >> \o << >> = << >>
    BY <2>2, ConcatEmptySeq
  <2> QED BY <2>1, <2>3
<1>6. << >> \in Seq(Events)
  OBVIOUS
<1>7. \A i : SaidAll(<< >>, i) = {}
  BY SaidMember DEF SaidAll
<1>8. RunnerInv(<< >>, "settings", 0, 0, "none", settings.interruptible, measDone, {})
  <2>1. Protocol(<< >>)
    BY DEF Protocol
  <2>2. "settings" \notin Late /\ "settings" \notin InLoop /\ "settings" \notin Ended
    BY DEF Late, InLoop, Ended
  <2>3. Current("settings") = {{}}
    BY DEF Current, InLoop
  <2>4. Progress(<< >>, "settings", 0, 0)
    BY <1>7, <2>2, <2>3 DEF Progress
  <2>5. Excused(<< >>, "settings", 0, measDone)
    BY <2>2 DEF Excused
  <2>6. Ending(<< >>, "settings", "none")
    BY <1>7, <2>2 DEF Ending
  <2>7. CutInv(<< >>, "settings", 0, settings.interruptible, measDone, {})
    BY DEF CutInv
  <2> QED BY <2>1, <2>4, <2>5, <2>6, <2>7 DEF RunnerInv
<1>9. RunnerInv(<< >> \o pending, "settings", 0, 0, "none", settings.interruptible,
                measDone, {})
  <2> DEFINE md == measDone
             t == pending
             ip == settings.interruptible
             e == << >>
  <2>1. RunnerInv(e, "settings", 0, 0, "none", ip, md, {}) /\ Plain(t) /\ e \in Seq(Events)
    BY <1>1, <1>6, <1>8
  <2>2. "settings" \in Early
    BY DEF Early
  <2> HIDE DEF md, t, ip, e
  <2>3. RunnerInv(e \o t, "settings", 0, 0, "none", ip, md, {})
    BY <2>1, <2>2, EarlyStep
  <2> QED BY <2>3 DEF e, t, ip, md
<1>10. RunnerInv(All, stage, targets, idx, session, settings.interruptible, measDone, cut)
  BY <1>5, <1>9 DEF Init
<1> QED BY <1>2, <1>3, <1>4, <1>10 DEF IInv

\* Every step keeps the invariant.
LEMMA NextIInv == IInv /\ [Next]_vars => IInv'
<1> SUFFICES ASSUME IInv, [Next]_vars PROVE IInv'
  OBVIOUS
<1>1. CASE Emit BY <1>1, EmitPreserves
<1>2. CASE Run BY <1>2, RunPreserves
<1>3. CASE SignalDone BY <1>3, SignalDonePreserves
<1>4. CASE CloseEmitter \/ Interrupt \/ MaxRuntimeElapses BY <1>4, OtherPreserves
<1>5. CASE EmitLog BY <1>5, EmitLogPreserves
<1>6. CASE WaitForNextEvent BY <1>6, WaitPreserves
<1>7. CASE UNCHANGED vars
  <2>1. /\ UNCHANGED <<settings, targets, idx, session, cut>> /\ stage' = stage
        /\ out' = out /\ received' = received /\ pending' = pending
        /\ isdone' = isdone /\ root' = root /\ expired' = expired /\ logs' = logs
        /\ eof' = eof
    BY <1>7 DEF vars, channelVars, appVars, envVars, runnerVars
  <2>2. Same(All, All') /\ (measDone => measDone')
    BY <2>1, SameRefl DEF All, measDone
  <2>3. TypeOK' /\ SeqTypes'
    BY <2>1 DEF IInv, TypeOK, SeqTypes
  <2>4. NilInv'
    BY <2>1 DEF IInv, NilInv
  <2> QED BY <2>1, <2>2, <2>3, <2>4, QuietStep
<1> QED
  BY <1>1, <1>2, <1>3, <1>4, <1>5, <1>6, <1>7 DEF Next, Goroutine, Terminated

\* The invariant of the task.
THEOREM Invariance == Spec => []IInv
<1>1. Init => IInv
  BY InitIInv
<1>2. IInv /\ [Next]_vars => IInv'
  BY NextIInv
<1> QED BY <1>1, <1>2, PTL DEF Spec

\* The variables of the task keep their types: the channel does not hold more
\* than its capacity, and the loop does not go past the last target.
THEOREM TypeCorrectness == Spec => []TypeOK
<1>1. IInv => TypeOK
  BY DEF IInv
<1> QED BY <1>1, Invariance, PTL

-----------------------------------------------------------------------------
(* What the app receives.                                                  *)

\* A target that is complete is not told of any more.
LEMMA PastsAreIncomplete ==
  ASSUME NEW key, NEW past \in Pasts(key)
  PROVE  past \cap Finals = {}
<1>1. \/ past = {} \/ past = {"status.measurement_start"}
      \/ past = {"status.measurement_start"} \cup {"measurement"}
      \/ \E submission \in {"status.measurement_submission",
                            "failure.measurement_submission"} :
           past = ({"status.measurement_start"} \cup {"measurement"}) \cup {submission}
  <2>1. CASE key = "status.measurement_start"
    BY <2>1 DEF Pasts
  <2>2. CASE key \in {"measurement", "failure.measurement"}
    BY <2>2 DEF Pasts
  <2>3. CASE key \in {"status.measurement_submission", "failure.measurement_submission"}
    BY <2>3 DEF Pasts
  <2>4. CASE key = "status.measurement_done"
    BY <2>4 DEF Pasts
  <2>5. CASE key \notin {"status.measurement_start", "measurement", "failure.measurement",
                         "status.measurement_submission",
                         "failure.measurement_submission", "status.measurement_done"}
    BY <2>5 DEF Pasts
  <2> QED BY <2>1, <2>2, <2>3, <2>4, <2>5
<1> QED BY <1>1 DEF Finals

\* What was received is where everything that is said begins.
LEMMA ReceivedFirst ==
  ASSUME IInv
  PROVE  /\ Len(received) \in Nat /\ DOMAIN received = 1..Len(received)
         /\ DOMAIN All = 1..Len(All) /\ Len(All) \in Nat /\ Len(received) <= Len(All)
         /\ \A k \in 1..Len(received) : All[k] = received[k] /\ received[k] \in Loud
         /\ \A n \in 0..Len(received) : \A i : Keys(received, n, i) = Said(All, n, i)
<1> DEFINE w == received \o out
<1>1. /\ received \in Seq(Events) /\ out \in Seq(Events) /\ pending \in Seq(Events)
      /\ received \in Seq(Loud)
  BY StateParts
<1>2. /\ w \in Seq(Events) /\ Len(w) = Len(received) + Len(out)
      /\ \A k \in 1..Len(received) : w[k] = received[k]
  BY <1>1, Joins
<1> HIDE DEF w
<1>3. /\ All \in Seq(Events) /\ Len(All) = Len(w) + Len(pending)
      /\ \A k \in 1..Len(w) : All[k] = w[k]
  <2>1. /\ w \o pending \in Seq(Events) /\ Len(w \o pending) = Len(w) + Len(pending)
        /\ \A k \in 1..Len(w) : (w \o pending)[k] = w[k]
    BY <1>1, <1>2, Joins
  <2>2. All = w \o pending
    BY DEF All, w
  <2> QED BY <2>1, <2>2
<1>4. /\ Len(received) \in Nat /\ Len(out) \in Nat /\ Len(pending) \in Nat
      /\ DOMAIN received = 1..Len(received) /\ DOMAIN All = 1..Len(All)
      /\ \A k \in 1..Len(received) : received[k] \in Loud
  BY <1>1, <1>3
<1>5. Len(All) \in Nat /\ Len(received) <= Len(All) /\ Len(received) <= Len(w)
  BY <1>2, <1>3, <1>4
<1>6. ASSUME NEW k \in 1..Len(received) PROVE All[k] = received[k]
  <2>1. k \in 1..Len(w)
    BY <1>2, <1>4
  <2> QED BY <1>2, <1>3, <2>1
<1>7. ASSUME NEW n \in 0..Len(received), NEW i
      PROVE  Keys(received, n, i) = Said(All, n, i)
  <2>0. n \in Nat /\ \A k \in 1..n : k \in 1..Len(received)
    BY <1>4
  <2>1. Said(received, n, i) = Said(All, n, i)
    BY <1>6, <2>0, SaidPrefix
  <2>2. Keys(received, n, i) \cap QuietKeys = {}
    BY <1>4, <2>0, LoudType DEF Keys
  <2> QED BY <2>1, <2>2 DEF Said
<1> QED BY <1>4, <1>5, <1>6, <1>7

\* When the app knows of the end, it has received everything.
LEMMA ReceivedAll ==
  ASSUME IInv, isdone
  PROVE  /\ stage \in Ended /\ stage \in Late
         /\ \A k \in DOMAIN All : k > Len(received) => All[k] = Log
         /\ \A i : Keys(received, Len(received), i) = SaidAll(All, i)
<1>1. stage \in {"signalled", "stopped"} /\ pending = << >>
      /\ \A j \in DOMAIN out : out[j] = Log
  BY DEF IInv, NilInv, TypeOK
<1>2. /\ received \in Seq(Events) /\ out \in Seq(Events)
      /\ Len(out) \in Nat /\ DOMAIN out = 1..Len(out) /\ Log \in Quiet
  BY StateParts
<1>3. All = received \o out
  <2>1. received \o out \in Seq(Events)
    BY <1>2, Joins
  <2> QED BY <1>1, <2>1, ConcatEmptySeq DEF All
<1>4. /\ Len(received \o out) = Len(received) + Len(out)
      /\ \A k \in 1..Len(out) : (received \o out)[Len(received) + k] = out[k]
  BY <1>2, Joins
<1>5. Len(received) \in Nat /\ DOMAIN All = 1..Len(All)
  BY ReceivedFirst
<1>6. ASSUME NEW k \in DOMAIN All, k > Len(received) PROVE All[k] = Log
  <2> DEFINE j == k - Len(received)
  <2>1. j \in 1..Len(out) /\ k = Len(received) + j
    BY <1>2, <1>3, <1>4, <1>5, <1>6
  <2> HIDE DEF j
  <2> QED BY <1>1, <1>2, <1>3, <1>4, <2>1
<1>7. ASSUME NEW i PROVE Keys(received, Len(received), i) = SaidAll(All, i)
  <2>1. Keys(received, Len(received), i) = Said(All, Len(received), i)
    <3>1. Len(received) \in 0..Len(received)
      BY <1>5
    <3> QED BY <3>1, ReceivedFirst
  <2>2. Log.key \in QuietKeys
    BY <1>2, QuietType
  <2>3. ASSUME NEW key
        PROVE  key \in Said(All, Len(received), i) <=> key \in Said(All, Len(All), i)
    <3>1. /\ Len(All) \in Nat /\ Len(received) <= Len(All) /\ DOMAIN All = 1..Len(All)
      BY ReceivedFirst
    <3>2. ASSUME key \in Said(All, Len(received), i)
          PROVE  key \in Said(All, Len(All), i)
      <4>1. PICK j \in 1..Len(received) : All[j].idx = i /\ All[j].key = key
        BY <3>2, SaidMember
      <4>2. j \in 1..Len(All) /\ key \notin QuietKeys
        BY <1>5, <3>1, <3>2, SaidMember
      <4> QED BY <4>1, <4>2, SaidMember
    <3>3. ASSUME key \in Said(All, Len(All), i)
          PROVE  key \in Said(All, Len(received), i)
      <4>1. PICK j \in 1..Len(All) : All[j].idx = i /\ All[j].key = key
        BY <3>3, SaidMember
      <4>2. key \notin QuietKeys
        BY <3>3, SaidMember
      <4>3. ~(j > Len(received))
        BY <1>6, <2>2, <3>1, <4>1, <4>2
      <4>4. j \in 1..Len(received)
        BY <1>5, <3>1, <4>3
      <4> QED BY <4>1, <4>2, <4>4, SaidMember
    <3> QED BY <3>2, <3>3
  <2>4. Said(All, Len(received), i) = Said(All, Len(All), i)
    BY <2>3
  <2> QED BY <2>1, <2>4 DEF SaidAll
<1>8. stage \in Ended /\ stage \in Late
  BY <1>1 DEF Ended, Late
<1> QED BY <1>6, <1>7, <1>8

\* The end is announced.
LEMMA EndAnnounced == IInv => EndIsAnnounced
<1> SUFFICES ASSUME IInv, isdone
             PROVE  /\ received # << >>
                    /\ \A k \in 1..(Len(received) - 1) : received[k].key # "status.end"
                    /\ \/ session = "none" /\ received[Len(received)].key = "failure.startup"
                       \/ session = "closed" /\ received[Len(received)].key = "status.end"
  BY DEF EndIsAnnounced
<1>1. /\ Len(received) \in Nat /\ DOMAIN received = 1..Len(received)
      /\ DOMAIN All = 1..Len(All) /\ Len(All) \in Nat /\ Len(received) <= Len(All)
      /\ \A k \in 1..Len(received) : All[k] = received[k] /\ received[k] \in Loud
  BY ReceivedFirst
<1>2. /\ stage \in Ended
      /\ \A k \in DOMAIN All : k > Len(received) => All[k] = Log
  BY ReceivedAll
<1>3. \/ session = "none" /\ EndsWith(All, "failure.startup")
      \/ session = "closed" /\ EndsWith(All, "status.end")
  BY <1>2 DEF IInv, RunnerInv, Ending
<1>4. ASSUME NEW key \in EventKeys \ QuietKeys, EndsWith(All, key)
      PROVE  /\ received # << >> /\ received[Len(received)].key = key
             /\ \A k \in 1..(Len(received) - 1) : received[k].key # "status.end"
  <2>1. PICK k \in DOMAIN All :
          /\ All[k].key = key
          /\ \A j \in DOMAIN All : j > k => All[j] \in Quiet
          /\ \A j \in DOMAIN All : j < k => All[j].key # "status.end"
    BY <1>4 DEF EndsWith
  <2>2. Log.key \in QuietKeys
    BY StateParts, QuietType
  <2>3. ~(k > Len(received))
    BY <1>2, <2>1, <2>2
  <2>4. ~(k < Len(received))
    <3>1. SUFFICES ASSUME k < Len(received) PROVE FALSE
      OBVIOUS
    <3>2. Len(received) \in DOMAIN All /\ Len(received) \in 1..Len(received)
      BY <1>1, <2>1, <3>1
    <3>3. All[Len(received)] \in Quiet
      BY <2>1, <3>1, <3>2
    <3>4. All[Len(received)] \in Loud
      BY <1>1, <3>2
    <3> QED BY <3>3, <3>4, LoudType
  <2>5. k = Len(received) /\ k \in 1..Len(received)
    BY <1>1, <2>1, <2>3, <2>4
  <2>6. received # << >>
    BY <2>5
  <2>7. ASSUME NEW j \in 1..(Len(received) - 1) PROVE received[j].key # "status.end"
    <3>1. j \in DOMAIN All /\ j < k /\ j \in 1..Len(received)
      BY <1>1, <2>5
    <3> QED BY <1>1, <2>1, <3>1
  <2>8. received[Len(received)].key = key
    BY <1>1, <2>1, <2>5
  <2> QED BY <2>6, <2>7, <2>8
<1>5. "failure.startup" \in EventKeys \ QuietKeys /\ "status.end" \in EventKeys \ QuietKeys
  BY DEF EventKeys, QuietKeys
<1> QED BY <1>3, <1>4, <1>5

\* The events about the targets follow the protocol.
LEMMA ProtocolReceived == IInv => MeasurementProtocol
<1> SUFFICES ASSUME IInv PROVE MeasurementProtocol
  OBVIOUS
<1>1. /\ Len(received) \in Nat /\ DOMAIN received = 1..Len(received)
      /\ DOMAIN All = 1..Len(All) /\ Len(All) \in Nat /\ Len(received) <= Len(All)
      /\ \A k \in 1..Len(received) : All[k] = received[k] /\ received[k] \in Loud
      /\ \A n \in 0..Len(received) : \A i : Keys(received, n, i) = Said(All, n, i)
  BY ReceivedFirst
<1>2. Protocol(All)
  BY DEF IInv, RunnerInv
<1>3. ASSUME NEW k \in DOMAIN received, received[k].idx # NoIdx
      PROVE  /\ Keys(received, k - 1, received[k].idx) \in Pasts(received[k].key)
             /\ \A i \in 0..(received[k].idx - 1) :
                  Keys(received, k - 1, i) \cap Finals # {}
  <2>1. k \in DOMAIN All /\ k - 1 \in 0..Len(received) /\ All[k] = received[k]
    BY <1>1
  <2>2. InOrder(All, k)
    BY <1>2, <2>1 DEF Protocol
  <2>3. /\ Said(All, k - 1, received[k].idx) \in Pasts(received[k].key)
        /\ \A i \in 0..(received[k].idx - 1) : Said(All, k - 1, i) \cap Finals # {}
    BY <1>3, <2>1, <2>2 DEF InOrder
  <2> QED BY <1>1, <2>1, <2>3
<1>4. ASSUME NEW j \in DOMAIN received, NEW k \in DOMAIN received, j < k,
             received[j].idx # NoIdx, received[k].idx # NoIdx
      PROVE  received[j].idx <= received[k].idx
  <2> DEFINE a == received[j].idx
             b == received[k].idx
  <2>1. a \in Nat /\ b \in Nat
    BY <1>1, <1>4 DEF Loud
  <2>2. SUFFICES ASSUME b < a PROVE FALSE
    BY <2>1
  <2>3. Keys(received, k - 1, b) \in Pasts(received[k].key)
    BY <1>3, <1>4
  <2>4. Keys(received, k - 1, b) \cap Finals = {}
    BY <2>3, PastsAreIncomplete
  <2>5. Keys(received, j - 1, b) \cap Finals # {}
    <3>1. b \in 0..(a - 1)
      BY <2>1, <2>2
    <3> QED BY <1>3, <1>4, <3>1
  <2>6. Keys(received, j - 1, b) \subseteq Keys(received, k - 1, b)
    <3>1. \A m \in 1..(j - 1) : m \in 1..(k - 1)
      BY <1>1, <1>4
    <3> HIDE DEF b
    <3> QED BY <3>1 DEF Keys
  <2> QED BY <2>4, <2>5, <2>6
<1>5. ASSUME isdone, NEW i \in 0..(targets - 1)
      PROVE  \/ Keys(received, Len(received), i) \cap Finals # {}
             \/ measDone
             \/ Keys(received, Len(received), NoIdx)
                  \cap {"failure.startup", "failure.report_create"} # {}
  <2>1. /\ stage \in Late
        /\ \A n : Keys(received, Len(received), n) = SaidAll(All, n)
    BY <1>5, ReceivedAll
  <2>2. Excused(All, stage, targets, measDone)
    BY DEF IInv, RunnerInv
  <2> QED BY <1>5, <2>1, <2>2 DEF Excused
<1> QED BY <1>3, <1>4, <1>5 DEF MeasurementProtocol

\* What was cut short is discarded.
LEMMA CutDiscarded == IInv => CutShortIsDiscarded
<1> SUFFICES ASSUME IInv, NEW i \in cut, NEW k \in DOMAIN received, received[k].idx = i
             PROVE  received[k].key = "status.measurement_start"
  BY DEF CutShortIsDiscarded
<1>1. /\ Len(received) \in Nat /\ DOMAIN received = 1..Len(received)
      /\ Len(All) \in Nat /\ Len(received) <= Len(All)
      /\ \A n \in 1..Len(received) : All[n] = received[n] /\ received[n] \in Loud
  BY ReceivedFirst
<1>2. k \in 1..Len(All) /\ All[k] = received[k] /\ received[k] \in Loud
  BY <1>1
<1>3. received[k].key \in SaidAll(All, i)
  BY <1>2, LoudType, SaidMember DEF SaidAll
<1>4. SaidAll(All, i) \subseteq {"status.measurement_start"}
  BY DEF IInv, RunnerInv, CutInv
<1> QED BY <1>3, <1>4

\* Whatever fails, is interrupted or expires, and whatever is logged meanwhile,
\* what the app receives ends with status.end, or with the startup failure when
\* there was no session; it tells of the targets in their order, and of each one
\* a sequence of events the app knows of; and a measurement that a context has
\* cut short is never shown.
THEOREM AppReceivesWellFormedEvents == Spec => []EventsWellFormed
<1>1. IInv => EventsWellFormed
  BY EndAnnounced, ProtocolReceived, CutDiscarded DEF EventsWellFormed
<1> QED BY <1>1, Invariance, PTL
=============================================================================
