---------------------------- MODULE Submission ----------------------------
(***************************************************************************)
(* How a program of the repository submits a measurement: the choice of    *)
(* the submitter (engine.Session.NewSubmitter), the submission with an     *)
(* anonymous credential that every use rotates (userauth), and the plain   *)
(* submission that is the baseline and the fallback (probeservices).       *)
(*                                                                         *)
(* Procs are invocations of one program sharing one home directory: a      *)
(* crash ends an invocation wherever it is, and a restart is a later one,  *)
(* so the credential in the key-value store outlives the process that put  *)
(* it there.  The modules Nettests and OONIRun drive these actions through *)
(* the program counter pc.                                                 *)
(***************************************************************************)
EXTENDS Integers, FiniteSets, Sequences, TLC

CONSTANTS
    Procs,        \* invocations of the program
    Inputs,       \* Inputs[p][t] is the number of inputs of p's t-th nettest
    AuthChoices,  \* whether credentials are wanted: a subset of BOOLEAN
    MaxVersion,   \* bound: manifest versions the backend goes through
    MaxFaults     \* bound: faults of network, disk, database and processes, and
                  \* interventions from outside (signals, deletions, publications)

ASSUME InputsAssumption == Inputs \in [Procs -> Seq(Nat)]
ASSUME BoundsAssumption ==
    AuthChoices \subseteq BOOLEAN /\ MaxVersion \in Nat \ {0} /\ MaxFaults \in Nat

NoCredential == 0                     \* StoredCredential{}: nothing usable

Measurements ==
    UNION {UNION {{<<p, t, i>> : i \in 1 .. Inputs[p][t]} : t \in DOMAIN Inputs[p]} : p \in Procs}

VARIABLES
    pc,         \* pc[p]: where the invocation p is
    cur,        \* cur[p] = [t, i]: its current nettest and input
    useAuth,    \* useAuth[p]: credentials are wanted (no --no-creds)
    sub,        \* sub[p]: the submitter in use: "none", "plain" or "cred"
    version,    \* version[p]: the manifest version the submitter was made for
    held,       \* held[p]: the credential p read, or was just given
    shown,      \* shown[p]: the credential p presented last
    store,      \* the key-value store entry: a credential and its version
    manifest,   \* the version of the manifest the backend serves
    minted,     \* how many credentials the backend has issued
    received,   \* the copies of each measurement that the backend accepted
    faults,     \* faults and interventions so far
    spent,      \* history: the credentials the backend has seen used
    orphaned,   \* history: those whose successor a fault kept off the store
    lost,       \* history: measurements accepted on the credential path whose
                \* answer was lost, so that the probe cannot know
    unsaved     \* history: measurements accepted on the credential path, as the
                \* probe knows, whose rotated credential could not be stored

idleVars == <<pc, cur, useAuth, sub, version, held, shown, store, manifest, minted, received,
              spent, orphaned, lost, unsaved>>

subVars == <<idleVars, faults>>

Here(p) == <<p, cur[p].t, cur[p].i>>

At(p, label) == pc[p] = label

Goto(p, label) == pc' = [pc EXCEPT ![p] = label]

\* One of the things that may go wrong does, or somebody intervenes.
Fault ==
    /\ faults < MaxFaults
    /\ faults' = faults + 1

NoFault == UNCHANGED faults

Empty == [cred |-> NoCredential, version |-> 0]

SubInit ==
    /\ cur = [p \in Procs |-> [t |-> 0, i |-> 0]]
    /\ useAuth \in [Procs -> AuthChoices]
    /\ sub = [p \in Procs |-> "none"]
    /\ version = [p \in Procs |-> 0]
    /\ held = [p \in Procs |-> NoCredential]
    /\ shown = [p \in Procs |-> NoCredential]
    /\ store = Empty
    /\ manifest = 1
    /\ minted = 0
    /\ received = [m \in Measurements |-> [plain |-> 0, cred |-> 0]]
    /\ faults = 0
    /\ spent = {}
    /\ orphaned = {}
    /\ lost = {}
    /\ unsaved = {}

-----------------------------------------------------------------------------
(* Session.NewSubmitter and NewCredentialSubmitter.                        *)

\* No backend can be selected: the caller decides what to do without one.
NoProbeServices(p) ==
    /\ At(p, "submitter")
    /\ Fault
    /\ sub' = [sub EXCEPT ![p] = "none"]
    /\ Goto(p, "nosubmitter")
    /\ UNCHANGED <<cur, useAuth, version, held, shown, store, manifest, minted, received,
                   spent, orphaned, lost, unsaved>>

\* Credentials are not wanted, the manifest cannot be had, or none of its
\* policies is for this network: the client itself submits.
PlainSubmitter(p) ==
    /\ At(p, "submitter")
    /\ IF useAuth[p] THEN Fault ELSE NoFault
    /\ sub' = [sub EXCEPT ![p] = "plain"]
    /\ Goto(p, "loop")
    /\ UNCHANGED <<cur, useAuth, version, held, shown, store, manifest, minted, received,
                   spent, orphaned, lost, unsaved>>

GetManifest(p) ==
    /\ At(p, "submitter")
    /\ useAuth[p]
    /\ version' = [version EXCEPT ![p] = manifest]
    /\ Goto(p, "credential")
    /\ UNCHANGED <<cur, useAuth, sub, held, shown, store, manifest, minted, received, faults,
                   spent, orphaned, lost, unsaved>>

Usable(p) == store.cred # NoCredential /\ store.version = version[p]

ReuseCredential(p) ==
    /\ At(p, "credential")
    /\ Usable(p)
    /\ sub' = [sub EXCEPT ![p] = "cred"]
    /\ Goto(p, "loop")
    /\ UNCHANGED <<cur, useAuth, version, held, shown, store, manifest, minted, received, faults,
                   spent, orphaned, lost, unsaved>>

Register(p) ==
    /\ At(p, "credential")
    /\ ~ Usable(p)
    /\ \/ /\ minted' = minted + 1
          /\ held' = [held EXCEPT ![p] = minted + 1]
          /\ Goto(p, "keep")
          /\ NoFault
          /\ UNCHANGED sub
       \/ /\ Fault
          /\ sub' = [sub EXCEPT ![p] = "plain"]
          /\ Goto(p, "loop")
          /\ UNCHANGED <<minted, held>>
    /\ UNCHANGED <<cur, useAuth, version, shown, store, manifest, received, spent, orphaned,
                   lost, unsaved>>

\* CredStore.Set: the file is locked, truncated and written; a failure may
\* leave the old content or a file that no longer parses, which reads as empty.
SetStore(p) == store' = [cred |-> held[p], version |-> version[p]]

SetFails == store' \in {store, Empty}

KeepRegistered(p) ==
    /\ At(p, "keep")
    /\ \/ NoFault /\ SetStore(p) /\ sub' = [sub EXCEPT ![p] = "cred"]
       \/ Fault /\ SetFails /\ sub' = [sub EXCEPT ![p] = "plain"]
    /\ Goto(p, "loop")
    /\ UNCHANGED <<cur, useAuth, version, held, shown, manifest, minted, received, spent,
                   orphaned, lost, unsaved>>

-----------------------------------------------------------------------------
(* CredentialSubmitter.Submit and Client.Submit.                           *)

\* The submission starts: with no credential in the store, or when no probe
\* identity can be derived from it, the fallback is used at once.
StartSubmit(p) ==
    /\ At(p, "submit")
    /\ \/ sub[p] = "plain" /\ Goto(p, "post") /\ NoFault /\ UNCHANGED held
       \/ /\ sub[p] = "cred"
          /\ store.cred = NoCredential
          /\ Goto(p, "post") /\ NoFault /\ UNCHANGED held
       \/ /\ sub[p] = "cred"
          /\ store.cred # NoCredential
          /\ held' = [held EXCEPT ![p] = store.cred]
          /\ \/ Goto(p, "credpost") /\ NoFault
             \/ Goto(p, "post") /\ Fault
    /\ UNCHANGED <<cur, useAuth, sub, version, shown, store, manifest, minted, received, spent,
                   orphaned, lost, unsaved>>

\* The backend may refuse a credential that it has seen before or that
\* belongs to another manifest.
MayBeRefused(p) == held[p] \in spent \/ version[p] # manifest

Accept(m, path) == received' = [received EXCEPT ![m][path] = @ + 1]

\* userauth.Submit: the backend answers with the rotated credential.
SubmitWithCredential(p) ==
    /\ At(p, "credpost")
    /\ minted' = minted + 1
    /\ spent' = spent \cup {held[p]}
    /\ Accept(Here(p), "cred")
    /\ shown' = [shown EXCEPT ![p] = held[p]]
    /\ held' = [held EXCEPT ![p] = minted + 1]
    /\ Goto(p, "rotate")
    /\ UNCHANGED <<cur, useAuth, sub, version, store, manifest, faults, orphaned, lost, unsaved>>

\* The submission fails before the backend accepts it, or after: the answer
\* that carries the rotated credential is lost.
CredentialRefused(p) ==
    /\ At(p, "credpost")
    /\ Goto(p, "post")
    /\ \/ /\ IF MayBeRefused(p) THEN NoFault ELSE Fault
          /\ UNCHANGED <<received, spent, orphaned, lost, shown>>
       \/ /\ Fault
          /\ Accept(Here(p), "cred")
          /\ shown' = [shown EXCEPT ![p] = held[p]]
          /\ spent' = spent \cup {held[p]}
          /\ orphaned' = orphaned \cup {held[p]}
          /\ lost' = lost \cup {Here(p)}
    /\ UNCHANGED <<cur, useAuth, sub, version, held, store, manifest, minted, unsaved>>

\* Mutant: the rotated credential is not persisted.
RotateCredential_NoSet(p) ==
    /\ At(p, "rotate")
    /\ Goto(p, "submitted")
    /\ UNCHANGED <<cur, useAuth, sub, version, held, shown, store, manifest, minted, received,
                   faults, spent, orphaned, lost, unsaved>>

\* Mutant: the fallback is used whatever submitWithCredential returned.
RotateCredential_FallsBack(p) ==
    /\ At(p, "rotate")
    /\ SetStore(p)
    /\ Goto(p, "post")
    /\ NoFault
    /\ UNCHANGED <<cur, useAuth, sub, version, held, shown, manifest, minted, received, spent,
                   orphaned, lost, unsaved>>

\* The probe has the UID of the measurement and the rotated credential, which it
\* stores.  When it cannot, the submission has failed all the same: the UID is
\* dropped and Submit sends the measurement again with the fallback.
RotateCredential(p) ==
    /\ At(p, "rotate")
    /\ \/ /\ NoFault
          /\ SetStore(p)
          /\ Goto(p, "submitted")
          /\ UNCHANGED <<orphaned, unsaved>>
       \/ /\ Fault
          /\ SetFails
          /\ Goto(p, "post")
          /\ orphaned' = orphaned \cup {shown[p]}
          /\ unsaved' = unsaved \cup {Here(p)}
    /\ UNCHANGED <<cur, useAuth, sub, version, held, shown, manifest, minted, received, spent,
                   lost>>

\* Mutant: a failed POST is tried again.
PlainSubmit_Retries(p) ==
    /\ At(p, "post")
    /\ \/ NoFault /\ Accept(Here(p), "plain") /\ Goto(p, "submitted")
       \/ Fault /\ Accept(Here(p), "plain") /\ Goto(p, "post")
    /\ UNCHANGED <<cur, useAuth, sub, version, held, shown, store, manifest, minted, spent,
                   orphaned, lost, unsaved>>

\* Client.Submit: one POST, which the backend may also accept without the
\* probe learning of it.
PlainSubmit(p) ==
    /\ At(p, "post")
    /\ \/ NoFault /\ Accept(Here(p), "plain") /\ Goto(p, "submitted")
       \/ Fault /\ Accept(Here(p), "plain") /\ Goto(p, "notsubmitted")
       \/ Fault /\ UNCHANGED received /\ Goto(p, "notsubmitted")
    /\ UNCHANGED <<cur, useAuth, sub, version, held, shown, store, manifest, minted, spent,
                   orphaned, lost, unsaved>>

-----------------------------------------------------------------------------
(* The environment.                                                        *)

NewManifest ==
    /\ manifest < MaxVersion
    /\ Fault
    /\ manifest' = manifest + 1
    /\ UNCHANGED <<pc, cur, useAuth, sub, version, held, shown, store, minted, received, spent,
                   orphaned, lost, unsaved>>

Halted == {"ended", "crashed"}

\* The process is killed; a write to the store under way may be torn.
CrashSubmission(p) ==
    /\ pc[p] \notin Halted
    /\ Fault
    /\ Goto(p, "crashed")
    /\ IF pc[p] \in {"keep", "rotate"} THEN SetFails ELSE UNCHANGED store
    /\ orphaned' = IF At(p, "rotate") THEN orphaned \cup {shown[p]} ELSE orphaned
    /\ UNCHANGED <<cur, useAuth, sub, version, held, shown, manifest, minted, received, spent,
                   lost, unsaved>>

SubmissionStep(p) ==
    \/ NoProbeServices(p) \/ PlainSubmitter(p) \/ GetManifest(p)
    \/ ReuseCredential(p) \/ Register(p) \/ KeepRegistered(p)
    \/ StartSubmit(p) \/ SubmitWithCredential(p) \/ CredentialRefused(p)
    \/ RotateCredential(p) \/ PlainSubmit(p)

-----------------------------------------------------------------------------
(* Properties.                                                             *)

\* The credential left in the store for the next submission is one the
\* backend has not seen used, except while an invocation is about to replace
\* it and after a fault (a lost answer, a failed or torn write, a crash) that
\* kept its successor from being stored: submitWithCredential persists the
\* rotated credential before it reports success, whoever else submits.
StoredCredentialFresh ==
    store.cred \in spent =>
        \/ store.cred \in orphaned
        \/ \E p \in Procs : At(p, "rotate") /\ shown[p] = store.cred

\* A fault came between the acceptance of these and the storing of the rotated
\* credential, and Submit fell back
Resent == lost \cup unsaved

\* The backend gets a measurement at most once on each path.  It gets one on both
\* only after a fault between the acceptance on the credential path and the
\* storing of the rotated credential: either the answer was lost, or the probe
\* had it, with the UID, and CredStore.Set failed.  In the second case Submit
\* takes the fallback although it has seen the success.  A credential that is
\* missing, spent by another invocation or refused never makes a duplicate.
DuplicatesExplained ==
    \A m \in Measurements :
        /\ received[m].plain <= 1
        /\ received[m].cred <= 1
        /\ received[m].plain = 1 /\ received[m].cred = 1 => m \in Resent
=============================================================================
