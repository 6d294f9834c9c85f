---------------------------- MODULE TacticPolicy ----------------------------
(***************************************************************************)
(* The policies of internal/enginenetx that produce the tactics for one    *)
(* dial: goroutines connected by unbuffered channels, as composed by       *)
(* newHTTPSDialerPolicy when there is no proxy, and the filters that       *)
(* httpsDialerFilterTactics puts in front of the workers.                  *)
(*                                                                         *)
(*   dns -> ext ------------> outer -> either -> nonnil -> uniq -> workers *)
(*   stats, bridges -> inner -'   user --'                                 *)
(*                                                                         *)
(* A channel is named like the goroutine that sends to it.  todo[c] is     *)
(* what the goroutine of c is going to send before it does anything else:  *)
(* it is blocked sending the first element.  A tactic is an address and an *)
(* SNI; the port and the name to verify are those of the dial.             *)
(***************************************************************************)
EXTENDS Integers, FiniteSets, SequencesExt

CONSTANTS
  Factor,        \* the interleaving factor (3 in the code)
  DNSAddrs,      \* addresses that the DNS may return, in order
  BridgeAddrs,   \* the addresses of the bridges, in order
  BridgeSNIs,    \* the domains that bridges accept as the SNI
  DialNames      \* bound: the domains to dial ("api", "th" or "other")

ASSUME PolicyAssumption ==
  /\ Factor \in 0..255
  /\ DNSAddrs \in Seq(STRING) \ {<< >>}
  /\ BridgeAddrs \in Seq(STRING) \ {<< >>}
  /\ IsFiniteSet(BridgeSNIs) /\ BridgeSNIs \subseteq STRING \ {"nil"}
  /\ DialNames \subseteq {"api", "th", "other"}

VARIABLES
  domain,    \* the domain being dialled
  user,      \* the user policy: <<>> or <<list of tactics>>
  stats,     \* the tactics that the stats policy knows to work
  cancelled, \* whether the context of the dial is cancelled
  begun,     \* goroutines that were started
  todo,      \* what each goroutine is sending
  shut,      \* the channels that were closed
  turn,      \* which input the interleaving goroutines are reading
  taken,     \* how many tactics they took in this turn
  alive,     \* their inputs that they have not drained
  count,     \* tactics that the either-or policy read from the user policy
  later,     \* tactics that the test helpers policy is going to extend
  seen,      \* tactics that filterOnlyKeepUniqueTactics has emitted
  sent,      \* history: everything each goroutine was to send
  emitted    \* the tactics received by the workers

configVars == <<domain, user, stats>>
mixVars == <<turn, taken, alive>>
chanVars == <<begun, todo, shut, sent>>
policyVars == <<configVars, cancelled, chanVars, mixVars, count, later, seen, emitted>>

Tactic(addr, sni) == [addr |-> addr, sni |-> sni]
Nil == Tactic("nil", "nil")   \* an entry of the user policy that is null

Mixers == {"inner", "outer"}
Primary(m) == IF m = "inner" THEN "stats" ELSE "ext"
Fallback(m) == IF m = "inner" THEN "bridges" ELSE "inner"
Inputs(m) == {Primary(m), Fallback(m)}

\* The composed policy is a tree; starting it starts all its goroutines
Composed == {"dns", "ext", "stats", "bridges"} \cup Mixers
Chans == Composed \cup {"user", "either", "nonnil", "uniq"}

-----------------------------------------------------------------------------
(* The lists that the sources send.                                        *)

\* bridgesDomainsInRandomOrder
SNIOrders == SetToSeqs(BridgeSNIs)

\* The tactics for one address with each of the SNIs, in the given order
WithSNIs(addr, order) == [i \in DOMAIN order |-> Tactic(addr, order[i])]

\* bridgesTacticsForDomain, where each address has its own random order: the SNIs
\* for an address follow those for the previous one
BridgesTactics ==
  LET n == Cardinality(BridgeSNIs)
      addr(k) == (k - 1) \div n + 1
      sni(k) == ((k - 1) % n) + 1
  IN  IF domain # "api" THEN {<< >>}
      ELSE {[k \in 1..(n * Len(BridgeAddrs)) |->
               Tactic(BridgeAddrs[addr(k)], orders[addr(k)][sni(k)])] :
              orders \in [DOMAIN BridgeAddrs -> SNIOrders]}

\* Tactics with SNI == VerifyHostname == domain
DNSTactics(n) == [i \in 1..n |-> Tactic(DNSAddrs[i], domain)]

userPolicyRemoveNilEntries(list) ==
  LET output[i \in 0..Len(list)] ==
        IF i = 0 THEN << >>
        ELSE IF list[i] # Nil THEN Append(output[i - 1], list[i]) ELSE output[i - 1]
  IN  output[Len(list)]

\* What the user may have written for the domain
UserPolicies == {<< >>, <<<< >>>>, <<<<Nil>>>>,
                 <<<<Nil, Tactic("user", domain), Tactic("user", domain)>>>>}

\* Tactics that have worked before: those of the DNS or of a bridge
WorkingTactics == {<< >>, <<Tactic(DNSAddrs[1], domain)>>} \cup
  {<<Tactic(BridgeAddrs[1], sni), Tactic(DNSAddrs[1], domain)>> : sni \in BridgeSNIs}

-----------------------------------------------------------------------------

PolicyInit ==
  /\ domain \in DialNames
  /\ user \in UserPolicies
  /\ stats \in WorkingTactics
  /\ cancelled = FALSE
  /\ begun = {"uniq", "nonnil"} \cup
             IF user = << >> THEN {"outer"} ELSE {"either", "user"}
  /\ todo = [c \in Chans |->
               IF c = "user" /\ user # << >>
               THEN userPolicyRemoveNilEntries(user[1]) ELSE << >>]
  /\ shut = {}
  /\ turn = [m \in Mixers |-> Primary(m)]
  /\ taken = [m \in Mixers |-> 0]
  /\ alive = [m \in Mixers |-> Inputs(m)]
  /\ count = 0
  /\ later = << >>
  /\ seen = {}
  /\ sent = todo
  /\ emitted = << >>

\* A goroutine that is not blocked sending
Runs(c) == c \in begun \ shut /\ todo[c] = << >>

\* The goroutine of c is sending a tactic
Sends(c) == todo[c] # << >>

\* r receives from c, and is going to send the given tactics as a consequence
Receive(r, c, tactics) ==
  /\ Runs(r)
  /\ Sends(c)
  /\ todo' = [todo EXCEPT ![c] = Tail(@), ![r] = tactics]
  /\ sent' = [sent EXCEPT ![r] = @ \o tactics]
  /\ UNCHANGED <<begun, shut>>

\* A goroutine finds out what to send without receiving anything
Produce(c, tactics) ==
  /\ todo' = [todo EXCEPT ![c] = tactics]
  /\ sent' = [sent EXCEPT ![c] = @ \o tactics]
  /\ UNCHANGED shut

CloseChan(c) == shut' = shut \cup {c} /\ UNCHANGED <<begun, todo, sent>>

-----------------------------------------------------------------------------
(* The sources.                                                            *)

\* streamTacticsFromSlice of what the stats manager knows
StatsPolicy ==
  /\ Runs("stats") /\ sent["stats"] = << >> /\ stats # << >>
  /\ Produce("stats", stats)
  /\ UNCHANGED <<begun, configVars, cancelled, mixVars, count, later, seen, emitted>>

BridgesPolicy ==
  /\ Runs("bridges") /\ sent["bridges"] = << >> /\ domain = "api"
  /\ \E tactics \in BridgesTactics : Produce("bridges", tactics)
  /\ UNCHANGED <<begun, configVars, cancelled, mixVars, count, later, seen, emitted>>

\* LookupHost succeeds.  The lookup does not even start if the context is done.
DNSLookup ==
  /\ Runs("dns") /\ sent["dns"] = << >>
  /\ ~cancelled
  /\ \E n \in 1..Len(DNSAddrs) : Produce("dns", DNSTactics(n))
  /\ UNCHANGED <<begun, configVars, cancelled, mixVars, count, later, seen, emitted>>

\* A source closes its channel when it has sent everything; the DNS also when
\* the lookup fails
CloseSource(c) ==
  /\ Runs(c)
  /\ sent[c] = << >> =>
       \/ c \in {"dns", "user"}
       \/ c = "stats" /\ stats = << >>
       \/ c = "bridges" /\ domain # "api"
  /\ CloseChan(c)
  /\ UNCHANGED <<configVars, cancelled, mixVars, count, later, seen, emitted>>

-----------------------------------------------------------------------------
(* testHelpersPolicy.                                                      *)

\* Pass through the tactic; remember it when the domain is a test helper
ExtendReceives ==
  /\ Sends("dns")
  /\ Receive("ext", "dns", <<Head(todo["dns"])>>)
  /\ later' = IF domain = "th" THEN Append(later, Head(todo["dns"])) ELSE later
  /\ UNCHANGED <<configVars, cancelled, mixVars, count, seen, emitted>>

\* The child is drained: send the remembered tactics with the other SNIs
ExtendOne ==
  /\ Runs("ext") /\ "dns" \in shut
  /\ later # << >>
  /\ \E order \in SNIOrders : Produce("ext", WithSNIs(Head(later).addr, order))
  /\ later' = Tail(later)
  /\ UNCHANGED <<begun, configVars, cancelled, mixVars, count, seen, emitted>>

ExtendEnds ==
  /\ Runs("ext") /\ "dns" \in shut
  /\ later = << >>
  /\ CloseChan("ext")
  /\ UNCHANGED <<configVars, cancelled, mixVars, count, later, seen, emitted>>

-----------------------------------------------------------------------------
(* mixPolicyInterleave.                                                    *)

\* The goroutines of its inputs are started by the interleaving goroutine
MixBegins(m) ==
  /\ Runs(m)
  /\ Inputs(m) \cap begun = {}
  /\ begun' = begun \cup Inputs(m) \cup IF m = "outer" THEN {"dns"} ELSE {}
  /\ UNCHANGED <<todo, shut, sent, configVars, cancelled, mixVars, count, later,
                 seen, emitted>>

Other(m) == IF turn[m] = Primary(m) THEN Fallback(m) ELSE Primary(m)
SwitchTurn(m) == /\ turn' = [turn EXCEPT ![m] = Other(m)]
                 /\ taken' = [taken EXCEPT ![m] = 0]

\* Mutant: an off-by-one in the number of tactics to take
MixTakes_OneMore(m) ==
  /\ turn[m] \in alive[m]
  /\ Sends(turn[m])
  /\ Receive(m, turn[m], <<Head(todo[turn[m]])>>)
  /\ IF taken[m] >= Max({1, Factor}) THEN SwitchTurn(m)
     ELSE taken' = [taken EXCEPT ![m] = @ + 1] /\ UNCHANGED turn
  /\ UNCHANGED <<configVars, cancelled, alive, count, later, seen, emitted>>

\* Mutant: the turn of an input lasts until it is drained
MixTakes_All(m) ==
  /\ turn[m] \in alive[m]
  /\ Sends(turn[m])
  /\ Receive(m, turn[m], <<Head(todo[turn[m]])>>)
  /\ UNCHANGED <<configVars, cancelled, mixVars, count, later, seen, emitted>>

\* maybeTakeN: take a tactic; after max(1, Factor) of them it is the other's turn
MixTakes(m) ==
  /\ turn[m] \in alive[m]
  /\ Sends(turn[m])
  /\ Receive(m, turn[m], <<Head(todo[turn[m]])>>)
  /\ IF taken[m] + 1 >= Max({1, Factor}) THEN SwitchTurn(m)
     ELSE taken' = [taken EXCEPT ![m] = @ + 1] /\ UNCHANGED turn
  /\ UNCHANGED <<configVars, cancelled, alive, count, later, seen, emitted>>

\* maybeTakeN: the channel has been drained
MixDrains(m) ==
  /\ Runs(m)
  /\ turn[m] \in alive[m] \cap shut
  /\ alive' = [alive EXCEPT ![m] = @ \ {turn[m]}]
  /\ SwitchTurn(m)
  /\ UNCHANGED <<chanVars, configVars, cancelled, count, later, seen, emitted>>

\* maybeTakeN does nothing for an input that was drained before
MixSkips(m) ==
  /\ Runs(m)
  /\ turn[m] \notin alive[m] /\ alive[m] # {}
  /\ SwitchTurn(m)
  /\ UNCHANGED <<chanVars, configVars, cancelled, alive, count, later, seen, emitted>>

\* Mutant: the loop ends when one of the inputs is drained
MixEnds_Early(m) ==
  /\ Runs(m)
  /\ alive[m] # Inputs(m) /\ turn[m] = Primary(m)
  /\ CloseChan(m)
  /\ UNCHANGED <<configVars, cancelled, mixVars, count, later, seen, emitted>>

\* The condition of the loop is only looked at when it is the primary's turn
MixEnds(m) ==
  /\ Runs(m)
  /\ alive[m] = {} /\ turn[m] = Primary(m)
  /\ CloseChan(m)
  /\ UNCHANGED <<configVars, cancelled, mixVars, count, later, seen, emitted>>

\* Both inputs are drained and it is the fallback's turn: go around
MixLoops(m) ==
  /\ Runs(m)
  /\ alive[m] = {} /\ turn[m] # Primary(m)
  /\ SwitchTurn(m)
  /\ UNCHANGED <<chanVars, configVars, cancelled, alive, count, later, seen, emitted>>

-----------------------------------------------------------------------------
(* mixPolicyEitherOr, with the user policy as its primary.                 *)

EitherReceives(c) ==
  /\ c = "user" \/ "user" \in shut
  /\ Sends(c)
  /\ Receive("either", c, <<Head(todo[c])>>)
  /\ count' = IF c = "user" THEN count + 1 ELSE count
  /\ UNCHANGED <<configVars, cancelled, mixVars, later, seen, emitted>>

\* The primary had no tactics: only now the fallback policy is started
EitherFallsBack ==
  /\ Runs("either") /\ "user" \in shut
  /\ count = 0 /\ "outer" \notin begun
  /\ begun' = begun \cup {"outer"}
  /\ UNCHANGED <<todo, shut, sent, configVars, cancelled, mixVars, count, later,
                 seen, emitted>>

EitherEnds ==
  /\ Runs("either") /\ "user" \in shut
  /\ count > 0 \/ "outer" \in shut
  /\ CloseChan("either")
  /\ UNCHANGED <<configVars, cancelled, mixVars, count, later, seen, emitted>>

-----------------------------------------------------------------------------
(* The filters and the workers.  Assigning the initial delay does not drop *)
(* or reorder tactics, and is not modelled as a stage of its own.          *)

\* The policy that newHTTPSDialerPolicy returns
Root == IF user = << >> THEN "outer" ELSE "either"

FilterOutNil ==
  /\ Sends(Root)
  /\ Receive("nonnil", Root, IF Head(todo[Root]) # Nil THEN <<Head(todo[Root])>> ELSE << >>)
  /\ UNCHANGED <<configVars, cancelled, mixVars, count, later, seen, emitted>>

KeepUnique ==
  /\ Sends("nonnil")
  /\ LET tactic == Head(todo["nonnil"])
     IN  /\ Receive("uniq", "nonnil", IF tactic \in seen THEN << >> ELSE <<tactic>>)
         /\ seen' = seen \cup {tactic}
  /\ UNCHANGED <<configVars, cancelled, mixVars, count, later, emitted>>

\* Mutant: a filter does not close its output
FilterEnds_NoClose(c) == Runs(c) /\ UNCHANGED policyVars

FilterEnds(c) ==
  /\ Runs(c)
  /\ (IF c = "nonnil" THEN Root ELSE "nonnil") \in shut
  /\ CloseChan(c)
  /\ UNCHANGED <<configVars, cancelled, mixVars, count, later, seen, emitted>>

\* A worker takes a tactic.  Workers do so until the channel is closed, also when
\* the context is cancelled.
WorkerReceives ==
  /\ Sends("uniq")
  /\ emitted' = Append(emitted, Head(todo["uniq"]))
  /\ todo' = [todo EXCEPT !["uniq"] = Tail(@)]
  /\ UNCHANGED <<begun, shut, sent, configVars, cancelled, mixVars, count, later, seen>>

\* The dialer, or its caller, cancels the context
Cancel ==
  /\ ~cancelled
  /\ cancelled' = TRUE
  /\ UNCHANGED <<chanVars, configVars, mixVars, count, later, seen, emitted>>

-----------------------------------------------------------------------------

Sources == StatsPolicy \/ BridgesPolicy \/ DNSLookup
           \/ \E c \in {"dns", "stats", "bridges", "user"} : CloseSource(c)

TestHelpers == ExtendReceives \/ ExtendOne \/ ExtendEnds

MixPolicy(m) == \/ MixBegins(m) \/ MixTakes(m) \/ MixDrains(m)
                \/ MixSkips(m) \/ MixEnds(m) \/ MixLoops(m)

EitherOr == \/ \E c \in {"user", "outer"} : EitherReceives(c)
            \/ EitherFallsBack \/ EitherEnds

Filters == \/ FilterOutNil \/ KeepUnique
           \/ \E c \in {"nonnil", "uniq"} : FilterEnds(c)

Pipeline == \/ Sources
            \/ TestHelpers
            \/ \E m \in Mixers : MixPolicy(m)
            \/ EitherOr
            \/ Filters
            \/ WorkerReceives

\* Every channel of a goroutine that was started is closed
Drained == begun \subseteq shut /\ UNCHANGED policyVars

PolicyNext == Pipeline \/ Cancel \/ Drained

PolicySpec == PolicyInit /\ [][PolicyNext]_policyVars

\* The goroutines are scheduled, the DNS lookup returns (it has a timeout), and
\* the workers keep receiving.  No action of the pipeline disables another, and
\* each is taken finitely often, so that fairness of their disjunction is enough.
FairPolicySpec == PolicySpec /\ WF_policyVars(Pipeline)

-----------------------------------------------------------------------------
(* Properties.                                                             *)

\* The values that the variables may have.
PolicyTypeOK ==
  /\ begun \subseteq Chans
  /\ shut \subseteq begun
  /\ \A c \in shut : todo[c] = << >>
  /\ \A m \in Mixers : /\ turn[m] \in Inputs(m)
                       /\ taken[m] \in 0..(Max({1, Factor}) - 1)
                       /\ alive[m] \subseteq Inputs(m)
  /\ Len(todo["outer"]) <= 1 /\ Len(todo["uniq"]) <= 1
  /\ count \in Nat

N == Max({1, Factor})

\* The position that the element i of an input has in the output: it follows the
\* elements of the other input that have had their turn
Position(i, other, turnsAhead) ==
  i + Min({Len(other), N * ((i - 1) \div N + turnsAhead)})

\* The interleaving of p and f, by positions rather than by taking turns
InterleavingOf(p, f) ==
  [k \in 1..(Len(p) + Len(f)) |->
     IF \E i \in DOMAIN p : Position(i, f, 0) = k
     THEN p[CHOOSE i \in DOMAIN p : Position(i, f, 0) = k]
     ELSE f[CHOOSE i \in DOMAIN f : Position(i, p, 1) = k]]

\* mixPolicyInterleave: however slow its inputs are with respect to each other,
\* the output is N tactics of the primary, N of the fallback and so on, and what
\* is left of one when the other is drained.
MixIsInterleaving ==
  \A m \in Mixers \cap shut :
    sent[m] = InterleavingOf(sent[Primary(m)], sent[Fallback(m)])

\* Every tactic that a policy produced reaches the workers exactly once, whatever
\* the policies have in common; the composed policy counts only if the user
\* policy had no tactics for the domain.
EveryTacticOnce ==
  /\ IsInjective(emitted)
  /\ "uniq" \in shut =>
       ToSet(emitted) =
         IF sent["user"] # << >> THEN ToSet(sent["user"])
         ELSE UNION {ToSet(sent[c]) : c \in {"ext", "stats", "bridges"}}

\* However many addresses the DNS returns, real or not, and however many tactics
\* the test helpers policy derives from them, a tactic that is known to work, or
\* that uses a bridge, is among the first N + 1.
FallbackIsEarly ==
  ("uniq" \in shut /\ sent["user"] = << >> /\ sent["inner"] # << >>) =>
    \E k \in 1..Min({Len(emitted), N + 1}) : emitted[k] \in ToSet(sent["inner"])

\* What reaches the workers is the interleaving, each tactic once, with a
\* tactic of the fallback among the first ones.
TacticsWellMixed == MixIsInterleaving /\ EveryTacticOnce /\ FallbackIsEarly

\* No goroutine is left behind: all the channels are closed eventually, also when
\* the context is cancelled at any time.
PipelineDrains == <>(begun \subseteq shut)
=============================================================================
