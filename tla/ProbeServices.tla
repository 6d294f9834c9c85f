--------------------------- MODULE ProbeServices ---------------------------
(***************************************************************************)
(* internal/probeservices: the orchestra client.  To fetch tor targets or  *)
(* a psiphon config a client registers (MaybeRegister), logs in            *)
(* (MaybeLogin) and reads its token back (GetCredsAndAuth).  Credentials   *)
(* and token are in a state file in the key-value store, which clients of  *)
(* the same session and of other processes read and write without a lock   *)
(* of their own: the store only makes each Get and each Set atomic.        *)
(*                                                                         *)
(* The k-th account that the backend creates has client ID k, the k-th     *)
(* token it issues is k, and 0 stands for the empty string.  The password  *)
(* of a registration is random, hence different from any other.            *)
(*                                                                         *)
(* The names AuthInit, AuthNext and so on let a module extend this one     *)
(* together with Overlapped, which makes the calls.                        *)
(***************************************************************************)
EXTENDS Naturals, Sequences

CONSTANTS
  Clients,        \* concurrent users of the API
  MaxAccounts,    \* bound: registrations sent
  MaxTokens       \* bound: tokens issued

ASSUME BoundsAssumption == MaxAccounts \in Nat /\ MaxTokens \in Nat

VARIABLES
  file,       \* the state file
  accounts,   \* backend: the password of each account
  tokens,     \* backend: the account of each token
  late,       \* tokens with less than 30 seconds to live
  passwords,  \* how many passwords have been generated
  pc,         \* what each client is doing
  state,      \* the State that each client is working on
  reply,      \* what the backend has answered to each client
  excuse      \* history: why each client may fail to be authenticated

backend == <<accounts, tokens>>
authVars == <<file, backend, late, passwords, pc, state, reply, excuse>>

State == [ClientID : Nat, Password : Nat, Token : Nat]
Empty == [ClientID |-> 0, Password |-> 0, Token |-> 0]

\* Whether the methods of the same name return something
Credentials(s) == s.ClientID # 0 /\ s.Password # 0
Auth(s) == s.Token # 0 /\ s.Token \notin late

Idle == {"idle", "fetched", "failed", "ErrNotRegistered", "ErrNotLoggedIn"}
Steps == Idle \cup
  {"register", "save_account", "login", "login_request", "save_token", "fetch"}

AuthInit ==
  /\ file = Empty
  /\ accounts = << >>
  /\ tokens = << >>
  /\ late = {}
  /\ passwords = 0
  /\ pc = [c \in Clients |-> "idle"]
  /\ state = [c \in Clients |-> Empty]
  /\ reply = [c \in Clients |-> 0]
  /\ excuse = [c \in Clients |-> FALSE]

Goto(c, step) == pc' = [pc EXCEPT ![c] = step]

\* StateFile.Get: the state in the file, or the empty one on any error.  An
\* error excuses the client.
Get(c, s) ==
  \/ s = file  /\ UNCHANGED excuse
  \/ s = Empty /\ excuse' = [excuse EXCEPT ![c] = TRUE]

\* StateFile.Set: when the write fails, the file may be left truncated, and
\* Get cannot read it.  Any write excuses the other clients, which do not know
\* about it, and a failed one excuses all.
SetOK(c, s) ==
  /\ file' = s
  /\ excuse' = [d \in Clients |-> excuse[d] \/ d # c]
SetFails ==
  /\ file' \in {file, Empty}
  /\ excuse' = [d \in Clients |-> TRUE]

-----------------------------------------------------------------------------
(* MaybeRegister.                                                          *)

MaybeRegister(c, s) ==
  /\ pc[c] \in Idle
  /\ ~Credentials(s)
  /\ passwords < MaxAccounts
  /\ passwords' = passwords + 1
  /\ \/ s = file  /\ excuse' = [excuse EXCEPT ![c] = FALSE]
     \/ s = Empty /\ excuse' = [excuse EXCEPT ![c] = TRUE]
  /\ state' = [state EXCEPT ![c] = [s EXCEPT !.Password = passwords']]
  /\ Goto(c, "register")
  /\ UNCHANGED <<file, backend, late, reply>>

AlreadyRegistered(c) ==
  /\ pc[c] \in Idle
  /\ Credentials(file)
  /\ excuse' = [excuse EXCEPT ![c] = FALSE]
  /\ Goto(c, "login")
  /\ UNCHANGED <<file, backend, late, passwords, state, reply>>

\* The backend creates the account, whether or not its answer is received
Register(c) ==
  /\ pc[c] = "register"
  /\ accounts' = Append(accounts, state[c].Password)
  /\ \/ reply' = [reply EXCEPT ![c] = Len(accounts')] /\ Goto(c, "save_account")
     \/ UNCHANGED reply /\ Goto(c, "failed")
  /\ UNCHANGED <<file, tokens, late, passwords, state, excuse>>

\* Mutant: the state is saved also when the request fails
RequestFails_Saves(c) ==
  /\ pc[c] \in {"register", "login_request", "fetch"}
  /\ SetOK(c, state[c])
  /\ Goto(c, "failed")
  /\ UNCHANGED <<backend, late, passwords, state, reply>>

\* The request does not get there, or the context is cancelled
RequestFails(c) ==
  /\ pc[c] \in {"register", "login_request", "fetch"}
  /\ Goto(c, "failed")
  /\ UNCHANGED <<file, backend, late, passwords, state, reply, excuse>>

SaveAccount(c) ==
  /\ pc[c] = "save_account"
  /\ \/ SetOK(c, [state[c] EXCEPT !.ClientID = reply[c]]) /\ Goto(c, "login")
     \/ SetFails /\ Goto(c, "failed")
  /\ UNCHANGED <<backend, late, passwords, state, reply>>

-----------------------------------------------------------------------------
(* MaybeLogin.                                                             *)

\* Mutant: does not check when the token expires
MaybeLogin_AnyToken(c, s) ==
  /\ pc[c] = "login"
  /\ Get(c, s)
  /\ state' = [state EXCEPT ![c] = s]
  /\ Goto(c, IF s.Token # 0 THEN "fetch"
             ELSE IF Credentials(s) THEN "login_request" ELSE "ErrNotRegistered")
  /\ UNCHANGED <<file, backend, late, passwords, reply>>

MaybeLogin(c, s) ==
  /\ pc[c] = "login"
  /\ Get(c, s)
  /\ state' = [state EXCEPT ![c] = s]
  /\ Goto(c, IF Auth(s) THEN "fetch"
             ELSE IF Credentials(s) THEN "login_request" ELSE "ErrNotRegistered")
  /\ UNCHANGED <<file, backend, late, passwords, reply>>

\* The backend answers with a token
Login(c) ==
  /\ pc[c] = "login_request"
  /\ Len(tokens) < MaxTokens
  /\ tokens' = Append(tokens, state[c].ClientID)
  /\ reply' = [reply EXCEPT ![c] = Len(tokens')]
  /\ Goto(c, "save_token")
  /\ UNCHANGED <<file, accounts, late, passwords, state, excuse>>

\* Mutant: reads the file again instead of using the state it logged in with
SaveToken_Merges(c) ==
  /\ pc[c] = "save_token"
  /\ SetOK(c, [file EXCEPT !.Token = reply[c]])
  /\ Goto(c, "fetch")
  /\ UNCHANGED <<backend, late, passwords, state, reply>>

SaveToken(c) ==
  /\ pc[c] = "save_token"
  /\ \/ SetOK(c, [state[c] EXCEPT !.Token = reply[c]]) /\ Goto(c, "fetch")
     \/ SetFails /\ Goto(c, "failed")
  /\ UNCHANGED <<backend, late, passwords, state, reply>>

-----------------------------------------------------------------------------
(* FetchTorTargets, FetchPsiphonConfig.                                    *)

\* GetCredsAndAuth, then the request with the token it returns
GetCredsAndAuth(c, s) ==
  /\ pc[c] = "fetch"
  /\ Get(c, s)
  /\ state' = [state EXCEPT ![c] = s]
  /\ Goto(c, IF ~Credentials(s) THEN "ErrNotRegistered"
             ELSE IF ~Auth(s) THEN "ErrNotLoggedIn" ELSE "fetched")
  /\ UNCHANGED <<file, backend, late, passwords, reply>>

-----------------------------------------------------------------------------
\* A token comes within 30 seconds of its expiration, which excuses whoever
\* is using it
Expire(t) ==
  /\ t \in 1..Len(tokens) \ late
  /\ late' = late \cup {t}
  /\ excuse' = [c \in Clients |-> excuse[c] \/ pc[c] \in {"save_token", "fetch"}]
  /\ UNCHANGED <<file, backend, passwords, pc, state, reply>>

AuthNext ==
  \/ \E c \in Clients :
       \/ \E s \in {file, Empty} :
            MaybeRegister(c, s) \/ MaybeLogin(c, s) \/ GetCredsAndAuth(c, s)
       \/ AlreadyRegistered(c) \/ Register(c) \/ RequestFails(c) \/ SaveAccount(c)
       \/ Login(c) \/ SaveToken(c)
  \/ \E t \in 1..MaxTokens : Expire(t)

AuthSpec == AuthInit /\ [][AuthNext]_authVars

-----------------------------------------------------------------------------
\* The values that the variables may have.
AuthTypeOK ==
  /\ file \in State
  /\ accounts \in Seq(Nat \ {0})
  /\ tokens \in Seq(Nat \ {0})
  /\ late \subseteq 1..Len(tokens)
  /\ passwords \in 0..MaxAccounts
  /\ pc \in [Clients -> Steps]
  /\ state \in [Clients -> State]
  /\ reply \in [Clients -> Nat]
  /\ excuse \in [Clients -> BOOLEAN]

\* The client ID and the password of s are of the same account, and its token
\* was issued to that account, for a backend with these accounts and tokens
Matches(s, accs, toks) ==
  /\ s.ClientID # 0 =>
       s.ClientID \in 1..Len(accs) /\ accs[s.ClientID] = s.Password
  /\ s.Token # 0 =>
       s.Token \in 1..Len(toks) /\ toks[s.Token] = s.ClientID

Consistent(s) == Matches(s, accounts, tokens)

\* The state file never mixes two accounts: however the clients interleave,
\* and although none of them locks the file between its Get and its Set
\* (register.go:21-56, login.go:13-45), the password in it is the one of the
\* client ID and the token is one issued to it.  So is what a client sends.
StateFileConsistent ==
  /\ Consistent(file)
  /\ \A c \in Clients :
       pc[c] \in {"login_request", "save_token", "fetched"} => Consistent(state[c])

\* A client that has registered and logged in is told ErrNotRegistered or
\* ErrNotLoggedIn (probeservices.go:80-91) only if, meanwhile, somebody else
\* has written the file, the file could not be read or written, or the token
\* was about to expire: an old token is replaced before it is used.
AuthFailureIsExplained ==
  \A c \in Clients : pc[c] \in {"ErrNotRegistered", "ErrNotLoggedIn"} => excuse[c]

\* A client never undoes a registration, its own or of another client, with
\* the older State that it has in its hands: the file loses its credentials
\* only when a write fails.
RegistrationSticks ==
  [][Credentials(file) /\ ~Credentials(file') =>
       \E c \in Clients : /\ pc[c] \in {"save_account", "save_token"}
                          /\ pc'[c] = "failed"]_authVars
=============================================================================
