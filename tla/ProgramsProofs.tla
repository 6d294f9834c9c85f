-------------------------- MODULE ProgramsProofs --------------------------
(***************************************************************************)
(* Proofs about Programs, for any number of invocations, nettests, inputs, *)
(* links and faults.                                                       *)
(*                                                                         *)
(* The invariant has a part for each of the things that the programs keep: *)
(* whose credential is in the store and who is about to replace it; which  *)
(* measurements the backend can have by the time an invocation is at its   *)
(* current one; what the rows and the files say of the measurements before *)
(* the current one, and what becomes of both when a result is deleted;     *)
(* that nothing before the current measurement was left out; for which     *)
(* descriptors the cache, and every copy of it, vouches.                   *)
(***************************************************************************)
EXTENDS Programs, TLAPS

\* The invocation is at the measurement of an input
InMeasurement == {"measure", "submit", "credpost", "rotate", "post", "submitted",
                  "notsubmitted", "save", "done", "keys"}
\* The invocation is running a nettest
InNettest == InMeasurement \cup
             {"submitter", "credential", "keep", "nosubmitter", "loop", "status"}
\* The invocation is between two measurements
Between == {"submitter", "credential", "keep", "nosubmitter", "loop", "status", "nettests",
            "finish", "finished"}
\* The invocation has not yet run anything
Before == {"pull", "compare", "update"}

Labels == InNettest \cup Before \cup
          {"start", "nettests", "finish", "finished", "ended", "crashed"}

Row == [done : BOOLEAN, failed : BOOLEAN, uploaded : BOOLEAN, keys : BOOLEAN]

\* The values of the variables
SubTypeOK ==
    /\ pc \in [Procs -> Labels]
    /\ cur \in [Procs -> [t : Nat, i : Nat]]
    /\ useAuth \in [Procs -> BOOLEAN]
    /\ sub \in [Procs -> {"none", "plain", "cred"}]
    /\ version \in [Procs -> Nat]
    /\ held \in [Procs -> Nat]
    /\ shown \in [Procs -> Nat]
    /\ store \in [cred : Nat, version : Nat]
    /\ manifest \in Nat
    /\ minted \in Nat
    /\ received \in [Measurements -> [plain : Nat, cred : Nat]]
    /\ faults \in Nat

NtTypeOK ==
    /\ config \in [Procs -> [upload : BOOLEAN, manual : BOOLEAN, limited : BOOLEAN]]
    /\ terminated \in [Procs -> BOOLEAN]
    /\ result \in [DOMAIN result -> [uploaded : BOOLEAN, done : BOOLEAN]]
    /\ isUploaded \in [Procs -> BOOLEAN]
    /\ dir \in [Procs -> BOOLEAN]
    /\ rows \in [DOMAIN rows -> Row]
    /\ removing \in [Procs -> {"no", "row", "done"}]
    /\ failed \in [Procs -> SUBSET Nat]

RunTypeOK ==
    /\ link \in [Procs -> [url : Urls, accept : BOOLEAN, collect : BOOLEAN, limited : BOOLEAN]]
    /\ server \in [Urls -> Nat]
    /\ cache \in [Urls -> Int]
    /\ loaded \in [Procs -> [Urls -> Int]]
    /\ pulled \in [Procs -> Nat]
    /\ stopped \in [Procs -> SUBSET Nat]

TypeOK == program \in {"ooniprobe", "miniooni"} /\ SubTypeOK /\ NtTypeOK /\ RunTypeOK

\* Where an invocation is agrees with what it is doing
Placed(p) ==
    /\ pc[p] \in InNettest \cup {"nettests"} => cur[p].t >= 1 /\ cur[p].i >= 1
    /\ pc[p] \in InNettest => cur[p].t <= Len(Inputs[p])
    /\ pc[p] \in InMeasurement => cur[p].i <= Inputs[p][cur[p].t]
    /\ pc[p] \in Before => cur[p].t = 1 /\ cur[p].i = 1
    /\ pc[p] = "start" => cur[p].t = 0

Place == \A p \in Procs : Placed(p)

\* What one program has the other one has not
Separate ==
    /\ program = "miniooni" => DOMAIN rows = {} /\ DOMAIN result = {}
    /\ program = "ooniprobe" => \A p \in Procs : pulled[p] = Unknown

-----------------------------------------------------------------------------
(* Credentials.                                                            *)

\* The invocation has a credential that is not in the store yet
Giving == {"keep", "rotate"}

Credentials ==
    /\ \A c \in spent : c \in 1 .. minted
    /\ store.cred <= minted
    /\ \A p \in Procs :
        /\ held[p] <= minted
        /\ pc[p] \in Giving \cup {"credpost"} => held[p] # NoCredential
        /\ pc[p] \in Giving => held[p] \notin spent /\ held[p] # store.cred
    /\ \A p, q \in Procs :
        p # q /\ pc[p] \in Giving /\ pc[q] \in Giving \cup {"credpost"} => held[p] # held[q]

-----------------------------------------------------------------------------
(* What the backend has.                                                   *)

Nothing == [plain |-> 0, cred |-> 0]

\* The invocation has not submitted its current measurement
Unsent == {"start", "pull", "compare", "update", "nettests", "submitter", "credential", "keep",
           "nosubmitter", "loop", "status", "measure", "submit", "credpost"}

\* The measurement comes after the current one
Later(m) == \/ m[2] > cur[m[1]].t
            \/ m[2] = cur[m[1]].t /\ m[3] > cur[m[1]].i

ReceivedOf(m) ==
    /\ Later(m) => received[m] = Nothing
    /\ Here(m[1]) = m =>
        /\ pc[m[1]] \in Unsent => received[m] = Nothing
        /\ pc[m[1]] = "rotate" => received[m].plain = 0 /\ received[m].cred > 0
        /\ pc[m[1]] = "post" => received[m].plain = 0 /\ (received[m].cred = 0 \/ m \in Resent)
        /\ pc[m[1]] = "submitted" => received[m].plain + received[m].cred > 0

Received == \A m \in Measurements : ReceivedOf(m)

-----------------------------------------------------------------------------
(* The database and the files.                                             *)

\* Whose result is deleted keeps no row
Deleted ==
    /\ DOMAIN result \subseteq Procs
    /\ \A p \in Procs :
        /\ pc[p] = "start" => ~ HasResult(p) /\ removing[p] = "no"
        /\ removing[p] # "no" => ~ HasResult(p) /\ RowsOf(p) = {}

\* What the rows say is so
Recorded ==
    /\ DOMAIN rows \subseteq Measurements
    /\ \A m \in DOMAIN rows : rows[m].uploaded => received[m].plain + received[m].cred > 0
    /\ \A p \in Procs : pc[p] = "done" /\ Here(p) \in DOMAIN rows =>
                          rows[Here(p)].uploaded \/ Here(p) \in files

Settled(m) == rows[m].failed \/ (rows[m].done /\ rows[m].keys)

\* As long as no nettest has failed, every row is settled once the invocation
\* is past it
CompleteOf(p) ==
    /\ pc[p] = "keys" /\ Here(p) \in DOMAIN rows => rows[Here(p)].done
    /\ HasResult(p) /\ result[p].done => pc[p] = "ended"
    /\ pc[p] = "start" => RowsOf(p) = {}
    /\ failed[p] = {} =>
        /\ pc[p] \in Between => \A m \in RowsOf(p) : Settled(m)
        /\ pc[p] \in InMeasurement => \A m \in RowsOf(p) : m # Here(p) => Settled(m)

Complete == \A p \in Procs : CompleteOf(p)

\* The measurement comes before the current one
Passed(m) == \/ m[2] < cur[m[1]].t
             \/ m[2] = cur[m[1]].t /\ m[3] < cur[m[1]].i

\* As long as no nettest has failed and nothing cuts the run short, there is a row
\* for every measurement that the invocation is past, and a phase only ends when
\* its inputs or its nettests are over
CoveredOf(p) ==
    HasResult(p) /\ failed[p] = {} /\ ~ terminated[p] /\ ~ config[p].limited =>
        /\ \A m \in Wanted(p) : Passed(m) => m \in DOMAIN rows
        /\ pc[p] \in InMeasurement => Here(p) \in DOMAIN rows
        /\ pc[p] = "status" => cur[p].i > Inputs[p][cur[p].t]
        /\ pc[p] \in {"finish", "finished"} => cur[p].t > Len(Inputs[p])

Covered == \A p \in Procs : CoveredOf(p)

-----------------------------------------------------------------------------
(* What the cache vouches for.                                             *)

Vouched(f) == \A u \in Urls : f[u] # Unknown => <<u, f[u]>> \in accepted

Reviewed ==
    /\ cache # Torn => Vouched(cache)
    /\ \A p \in Procs : Vouched(loaded[p])
    /\ \A p \in Procs :
        pulled[p] # Unknown /\ pc[p] \in Measuring \cup {"nettests", "update"} =>
            <<link[p].url, pulled[p]>> \in accepted

\* The inductive invariant
IInv == /\ TypeOK
        /\ Place
        /\ Separate
        /\ Credentials
        /\ StoredCredentialFresh
        /\ Received
        /\ DuplicatesExplained
        /\ Deleted
        /\ Recorded
        /\ NothingLost
        /\ DeletedStaysDeleted
        /\ Complete
        /\ Covered
        /\ FinishedIsComplete
        /\ ReceivedIsReported
        /\ Reviewed

-----------------------------------------------------------------------------
(* Type correctness.                                                       *)

\* What a measurement is.
LEMMA MeasurementsDef ==
    \A m : m \in Measurements <=>
        \E p \in Procs : \E t \in 1 .. Len(Inputs[p]) : \E i \in 1 .. Inputs[p][t] : m = <<p, t, i>>
<1>1. \A p \in Procs : DOMAIN Inputs[p] = 1 .. Len(Inputs[p])
  BY InputsAssumption
<1>2. \A m : m \in Measurements <=>
        \E p \in Procs : \E t \in DOMAIN Inputs[p] : \E i \in 1 .. Inputs[p][t] : m = <<p, t, i>>
  BY DEF Measurements
<1>3. QED
  BY <1>1, <1>2

\* An invocation that is at an input is at a measurement.
LEMMA HereIsMeasurement ==
    ASSUME SubTypeOK, Place, NEW p \in Procs, pc[p] \in InMeasurement
    PROVE  Here(p) \in Measurements
<1>1. cur[p].t \in Nat /\ cur[p].i \in Nat
  BY DEF SubTypeOK
<1>2. cur[p].t \in 1 .. Len(Inputs[p])
  BY <1>1, InputsAssumption DEF Place, Placed, InNettest
<1>3. Inputs[p][cur[p].t] \in Nat
  BY <1>2, InputsAssumption
<1>4. cur[p].i \in 1 .. Inputs[p][cur[p].t]
  BY <1>1, <1>3 DEF Place, Placed, InNettest
<1>5. QED
  BY <1>2, <1>4, MeasurementsDef DEF Here

\* The backend accepts a measurement.
LEMMA Accepting ==
    ASSUME received \in [Measurements -> [plain : Nat, cred : Nat]],
           NEW m \in Measurements, NEW path \in {"plain", "cred"}, Accept(m, path)
    PROVE  /\ received' \in [Measurements -> [plain : Nat, cred : Nat]]
           /\ received'[m].plain = received[m].plain + (IF path = "plain" THEN 1 ELSE 0)
           /\ received'[m].cred = received[m].cred + (IF path = "cred" THEN 1 ELSE 0)
           /\ \A n \in Measurements : n # m => received'[n] = received[n]
<1> DEFINE copies == [received[m] EXCEPT ![path] = @ + 1]
<1>1. received[m] \in [plain : Nat, cred : Nat]
  OBVIOUS
<1>2. /\ copies \in [plain : Nat, cred : Nat]
      /\ copies.plain = received[m].plain + (IF path = "plain" THEN 1 ELSE 0)
      /\ copies.cred = received[m].cred + (IF path = "cred" THEN 1 ELSE 0)
  <2>1. CASE path = "plain"
    BY <1>1, <2>1
  <2>2. CASE path = "cred"
    BY <1>1, <2>2
  <2>3. QED
    BY <2>1, <2>2
<1>3. received' = [received EXCEPT ![m] = copies]
  BY DEF Accept
<1> HIDE DEF copies
<1>4. QED
  BY <1>2, <1>3

\* The steps of the submission keep the types.
LEMMA SubmissionType ==
    ASSUME SubTypeOK, Place, NEW p \in Procs, SubmissionStep(p)
    PROVE  SubTypeOK'
<1> USE DEF SubTypeOK, At, Goto, Fault, NoFault, Labels, InNettest, InMeasurement, NoCredential
<1>1. CASE NoProbeServices(p)
  BY <1>1 DEF NoProbeServices
<1>2. CASE PlainSubmitter(p)
  BY <1>2 DEF PlainSubmitter
<1>3. CASE GetManifest(p)
  BY <1>3 DEF GetManifest
<1>4. CASE ReuseCredential(p)
  BY <1>4 DEF ReuseCredential
<1>5. CASE Register(p)
  <2>1. minted' \in Nat /\ faults' \in Nat
    BY <1>5 DEF Register
  <2>2. held' \in [Procs -> Nat]
    BY <1>5 DEF Register
  <2>3. pc' \in [Procs -> Labels] /\ sub' \in [Procs -> {"none", "plain", "cred"}]
    BY <1>5 DEF Register
  <2>4. QED
    BY <1>5, <2>1, <2>2, <2>3 DEF Register
<1>6. CASE KeepRegistered(p)
  <2>1. store' \in [cred : Nat, version : Nat]
    BY <1>6 DEF KeepRegistered, SetStore, SetFails, Empty
  <2>2. QED
    BY <1>6, <2>1 DEF KeepRegistered
<1>7. CASE StartSubmit(p)
  <2>1. pc' \in [Procs -> Labels]
    BY <1>7 DEF StartSubmit
  <2>2. held' \in [Procs -> Nat]
    BY <1>7 DEF StartSubmit
  <2>3. faults' \in Nat
    BY <1>7 DEF StartSubmit
  <2>4. QED
    BY <1>7, <2>1, <2>2, <2>3 DEF StartSubmit
<1>8. CASE SubmitWithCredential(p)
  <2>1. received' \in [Measurements -> [plain : Nat, cred : Nat]]
    BY <1>8, HereIsMeasurement, Accepting DEF SubmitWithCredential
  <2>2. QED
    BY <1>8, <2>1 DEF SubmitWithCredential
<1>9. CASE CredentialRefused(p)
  <2>1. received' \in [Measurements -> [plain : Nat, cred : Nat]]
    BY <1>9, HereIsMeasurement, Accepting DEF CredentialRefused
  <2>2. shown' \in [Procs -> Nat] /\ faults' \in Nat
    BY <1>9 DEF CredentialRefused
  <2>3. QED
    BY <1>9, <2>1, <2>2 DEF CredentialRefused
<1>10. CASE RotateCredential(p)
  <2>1. store' \in [cred : Nat, version : Nat]
    BY <1>10 DEF RotateCredential, SetStore, SetFails, Empty
  <2>2. pc' \in [Procs -> Labels]
    BY <1>10 DEF RotateCredential
  <2>3. faults' \in Nat
    BY <1>10 DEF RotateCredential
  <2>4. QED
    BY <1>10, <2>1, <2>2, <2>3 DEF RotateCredential
<1>11. CASE PlainSubmit(p)
  <2>1. received' \in [Measurements -> [plain : Nat, cred : Nat]]
    BY <1>11, HereIsMeasurement, Accepting, Zenon DEF PlainSubmit
  <2>2. pc' \in [Procs -> Labels]
    BY <1>11 DEF PlainSubmit
  <2>3. faults' \in Nat
    BY <1>11 DEF PlainSubmit
  <2>4. QED
    BY <1>11, <2>1, <2>2, <2>3 DEF PlainSubmit
<1> HIDE DEF SubTypeOK
<1>12. QED
  BY <1>1, <1>2, <1>3, <1>4, <1>5, <1>6, <1>7, <1>8, <1>9, <1>10, <1>11 DEF SubmissionStep

\* An invocation moves by itself: to another label, and to the next input, to
\* the next nettest or to the first one.
LEMMA NettestMoves ==
    ASSUME SubTypeOK, NEW p \in Procs, NettestStep(p)
    PROVE  /\ \E l \in Labels : pc' = [pc EXCEPT ![p] = l]
           /\ \E c \in [t : Nat, i : Nat] : cur' = [cur EXCEPT ![p] = c]
           /\ \E s \in {"none", "plain", "cred"} : sub' = [sub EXCEPT ![p] = s]
           /\ faults' \in Nat
           /\ UNCHANGED credVars
<1>1. /\ cur[p] \in [t : Nat, i : Nat] /\ sub[p] \in {"none", "plain", "cred"}
      /\ cur = [cur EXCEPT ![p] = cur[p]] /\ sub = [sub EXCEPT ![p] = sub[p]]
      /\ faults \in Nat
  BY DEF SubTypeOK
<1>2. /\ [t |-> cur[p].t + 1, i |-> 1] \in [t : Nat, i : Nat]
      /\ [t |-> 1, i |-> 1] \in [t : Nat, i : Nat]
      /\ [cur[p] EXCEPT !.i = @ + 1] \in [t : Nat, i : Nat]
  BY <1>1
<1> USE DEF At, Goto, Fault, NoFault, Labels, InNettest, InMeasurement, Before,
            EndNettest, NextInput, Record, credVars
<1>3. CASE StartGroup(p)
  <2>1. \E l \in Labels : pc' = [pc EXCEPT ![p] = l]
    BY <1>3 DEF StartGroup
  <2>2. \E c \in [t : Nat, i : Nat] : cur' = [cur EXCEPT ![p] = c]
    BY <1>1, <1>2, <1>3 DEF StartGroup
  <2>3. \E s \in {"none", "plain", "cred"} : sub' = [sub EXCEPT ![p] = s]
    BY <1>1, <1>3 DEF StartGroup
  <2>4. faults' \in Nat
    BY <1>1, <1>3 DEF StartGroup
  <2>5. QED
    BY <1>3, <2>1, <2>2, <2>3, <2>4 DEF StartGroup
<1>4. CASE StartNettest(p)
  <2>1. \E l \in Labels : pc' = [pc EXCEPT ![p] = l]
    BY <1>4 DEF StartNettest
  <2>2. \E c \in [t : Nat, i : Nat] : cur' = [cur EXCEPT ![p] = c]
    BY <1>1, <1>2, <1>4 DEF StartNettest
  <2>3. \E s \in {"none", "plain", "cred"} : sub' = [sub EXCEPT ![p] = s]
    BY <1>1, <1>4 DEF StartNettest
  <2>4. faults' \in Nat
    BY <1>1, <1>4 DEF StartNettest
  <2>5. QED
    BY <1>4, <2>1, <2>2, <2>3, <2>4 DEF StartNettest
<1>5. CASE CleanUp(p)
  <2>1. \E l \in Labels : pc' = [pc EXCEPT ![p] = l]
    BY <1>5 DEF CleanUp
  <2>2. \E c \in [t : Nat, i : Nat] : cur' = [cur EXCEPT ![p] = c]
    BY <1>1, <1>2, <1>5 DEF CleanUp
  <2>3. \E s \in {"none", "plain", "cred"} : sub' = [sub EXCEPT ![p] = s]
    BY <1>1, <1>5 DEF CleanUp
  <2>4. faults' \in Nat
    BY <1>1, <1>5 DEF CleanUp
  <2>5. QED
    BY <1>5, <2>1, <2>2, <2>3, <2>4 DEF CleanUp
<1>6. CASE Finished(p)
  <2>1. \E l \in Labels : pc' = [pc EXCEPT ![p] = l]
    BY <1>6 DEF Finished
  <2>2. \E c \in [t : Nat, i : Nat] : cur' = [cur EXCEPT ![p] = c]
    BY <1>1, <1>2, <1>6 DEF Finished
  <2>3. \E s \in {"none", "plain", "cred"} : sub' = [sub EXCEPT ![p] = s]
    BY <1>1, <1>6 DEF Finished
  <2>4. faults' \in Nat
    BY <1>1, <1>6 DEF Finished
  <2>5. QED
    BY <1>6, <2>1, <2>2, <2>3, <2>4 DEF Finished
<1>7. CASE RunWithoutSubmitter(p)
  <2>1. \E l \in Labels : pc' = [pc EXCEPT ![p] = l]
    BY <1>7 DEF RunWithoutSubmitter
  <2>2. \E c \in [t : Nat, i : Nat] : cur' = [cur EXCEPT ![p] = c]
    BY <1>1, <1>2, <1>7 DEF RunWithoutSubmitter
  <2>3. \E s \in {"none", "plain", "cred"} : sub' = [sub EXCEPT ![p] = s]
    BY <1>1, <1>7 DEF RunWithoutSubmitter
  <2>4. faults' \in Nat
    BY <1>1, <1>7 DEF RunWithoutSubmitter
  <2>5. QED
    BY <1>7, <2>1, <2>2, <2>3, <2>4 DEF RunWithoutSubmitter
<1>8. CASE StopLoop(p)
  <2>1. \E l \in Labels : pc' = [pc EXCEPT ![p] = l]
    BY <1>8 DEF StopLoop
  <2>2. \E c \in [t : Nat, i : Nat] : cur' = [cur EXCEPT ![p] = c]
    BY <1>1, <1>2, <1>8 DEF StopLoop
  <2>3. \E s \in {"none", "plain", "cred"} : sub' = [sub EXCEPT ![p] = s]
    BY <1>1, <1>8 DEF StopLoop
  <2>4. faults' \in Nat
    BY <1>1, <1>8 DEF StopLoop
  <2>5. QED
    BY <1>8, <2>1, <2>2, <2>3, <2>4 DEF StopLoop
<1>9. CASE CreateMeasurement(p)
  <2>1. \E l \in Labels : pc' = [pc EXCEPT ![p] = l]
    BY <1>9 DEF CreateMeasurement
  <2>2. \E c \in [t : Nat, i : Nat] : cur' = [cur EXCEPT ![p] = c]
    BY <1>1, <1>2, <1>9 DEF CreateMeasurement
  <2>3. \E s \in {"none", "plain", "cred"} : sub' = [sub EXCEPT ![p] = s]
    BY <1>1, <1>9 DEF CreateMeasurement
  <2>4. faults' \in Nat
    BY <1>1, <1>9 DEF CreateMeasurement
  <2>5. QED
    BY <1>9, <2>1, <2>2, <2>3, <2>4 DEF CreateMeasurement
<1>10. CASE Measure(p)
  <2>1. \E l \in Labels : pc' = [pc EXCEPT ![p] = l]
    BY <1>10 DEF Measure
  <2>2. \E c \in [t : Nat, i : Nat] : cur' = [cur EXCEPT ![p] = c]
    BY <1>1, <1>2, <1>10 DEF Measure
  <2>3. \E s \in {"none", "plain", "cred"} : sub' = [sub EXCEPT ![p] = s]
    BY <1>1, <1>10 DEF Measure
  <2>4. faults' \in Nat
    BY <1>1, <1>10 DEF Measure
  <2>5. QED
    BY <1>10, <2>1, <2>2, <2>3, <2>4 DEF Measure
<1>11. CASE UploadSucceeded(p)
  <2>1. \E l \in Labels : pc' = [pc EXCEPT ![p] = l]
    BY <1>11 DEF UploadSucceeded
  <2>2. \E c \in [t : Nat, i : Nat] : cur' = [cur EXCEPT ![p] = c]
    BY <1>1, <1>2, <1>11 DEF UploadSucceeded
  <2>3. \E s \in {"none", "plain", "cred"} : sub' = [sub EXCEPT ![p] = s]
    BY <1>1, <1>11 DEF UploadSucceeded
  <2>4. faults' \in Nat
    BY <1>1, <1>11 DEF UploadSucceeded
  <2>5. QED
    BY <1>11, <2>1, <2>2, <2>3, <2>4 DEF UploadSucceeded
<1>12. CASE UploadFailed(p)
  <2>1. \E l \in Labels : pc' = [pc EXCEPT ![p] = l]
    BY <1>12 DEF UploadFailed
  <2>2. \E c \in [t : Nat, i : Nat] : cur' = [cur EXCEPT ![p] = c]
    BY <1>1, <1>2, <1>12 DEF UploadFailed
  <2>3. \E s \in {"none", "plain", "cred"} : sub' = [sub EXCEPT ![p] = s]
    BY <1>1, <1>12 DEF UploadFailed
  <2>4. faults' \in Nat
    BY <1>1, <1>12 DEF UploadFailed
  <2>5. QED
    BY <1>12, <2>1, <2>2, <2>3, <2>4 DEF UploadFailed
<1>13. CASE SaveMeasurement(p)
  <2>1. \E l \in Labels : pc' = [pc EXCEPT ![p] = l]
    BY <1>13 DEF SaveMeasurement
  <2>2. \E c \in [t : Nat, i : Nat] : cur' = [cur EXCEPT ![p] = c]
    BY <1>1, <1>2, <1>13 DEF SaveMeasurement
  <2>3. \E s \in {"none", "plain", "cred"} : sub' = [sub EXCEPT ![p] = s]
    BY <1>1, <1>13 DEF SaveMeasurement
  <2>4. faults' \in Nat
    BY <1>1, <1>13 DEF SaveMeasurement
  <2>5. QED
    BY <1>13, <2>1, <2>2, <2>3, <2>4 DEF SaveMeasurement
<1>14. CASE Done(p)
  <2>1. \E l \in Labels : pc' = [pc EXCEPT ![p] = l]
    BY <1>14 DEF Done
  <2>2. \E c \in [t : Nat, i : Nat] : cur' = [cur EXCEPT ![p] = c]
    BY <1>1, <1>2, <1>14 DEF Done
  <2>3. \E s \in {"none", "plain", "cred"} : sub' = [sub EXCEPT ![p] = s]
    BY <1>1, <1>14 DEF Done
  <2>4. faults' \in Nat
    BY <1>1, <1>14 DEF Done
  <2>5. QED
    BY <1>14, <2>1, <2>2, <2>3, <2>4 DEF Done
<1>15. CASE AddTestKeys(p)
  <2>1. \E l \in Labels : pc' = [pc EXCEPT ![p] = l]
    BY <1>15 DEF AddTestKeys
  <2>2. \E c \in [t : Nat, i : Nat] : cur' = [cur EXCEPT ![p] = c]
    BY <1>1, <1>2, <1>15 DEF AddTestKeys
  <2>3. \E s \in {"none", "plain", "cred"} : sub' = [sub EXCEPT ![p] = s]
    BY <1>1, <1>15 DEF AddTestKeys
  <2>4. faults' \in Nat
    BY <1>1, <1>15 DEF AddTestKeys
  <2>5. QED
    BY <1>15, <2>1, <2>2, <2>3, <2>4 DEF AddTestKeys
<1>16. CASE UpdateUploadedStatus(p)
  <2>1. \E l \in Labels : pc' = [pc EXCEPT ![p] = l]
    BY <1>16 DEF UpdateUploadedStatus
  <2>2. \E c \in [t : Nat, i : Nat] : cur' = [cur EXCEPT ![p] = c]
    BY <1>1, <1>2, <1>16 DEF UpdateUploadedStatus
  <2>3. \E s \in {"none", "plain", "cred"} : sub' = [sub EXCEPT ![p] = s]
    BY <1>1, <1>16 DEF UpdateUploadedStatus
  <2>4. faults' \in Nat
    BY <1>1, <1>16 DEF UpdateUploadedStatus
  <2>5. QED
    BY <1>16, <2>1, <2>2, <2>3, <2>4 DEF UpdateUploadedStatus
<1>17. QED
  BY <1>3, <1>4, <1>5, <1>6, <1>7, <1>8, <1>9, <1>10, <1>11, <1>12, <1>13, <1>14, <1>15, <1>16
  DEF NettestStep

\* The same of a link.
LEMMA RunMoves ==
    ASSUME SubTypeOK, NEW p \in Procs, RunStep(p)
    PROVE  /\ \E l \in Labels : pc' = [pc EXCEPT ![p] = l]
           /\ \E c \in [t : Nat, i : Nat] : cur' = [cur EXCEPT ![p] = c]
           /\ \E s \in {"none", "plain", "cred"} : sub' = [sub EXCEPT ![p] = s]
           /\ faults' \in Nat
           /\ UNCHANGED submitterVars
<1>1. /\ cur[p] \in [t : Nat, i : Nat] /\ sub[p] \in {"none", "plain", "cred"}
      /\ cur = [cur EXCEPT ![p] = cur[p]] /\ sub = [sub EXCEPT ![p] = sub[p]]
      /\ faults \in Nat
  BY DEF SubTypeOK
<1>2. /\ [t |-> cur[p].t + 1, i |-> 1] \in [t : Nat, i : Nat]
      /\ [t |-> 1, i |-> 1] \in [t : Nat, i : Nat]
      /\ [cur[p] EXCEPT !.i = @ + 1] \in [t : Nat, i : Nat]
  BY <1>1
<1> USE DEF At, Goto, Fault, NoFault, Labels, InNettest, InMeasurement, Before,
            EndExperiment, submitterVars
<1>3. CASE LoadCache(p)
  <2>1. \E l \in Labels : pc' = [pc EXCEPT ![p] = l]
    BY <1>3 DEF LoadCache
  <2>2. \E c \in [t : Nat, i : Nat] : cur' = [cur EXCEPT ![p] = c]
    BY <1>1, <1>2, <1>3 DEF LoadCache
  <2>3. \E s \in {"none", "plain", "cred"} : sub' = [sub EXCEPT ![p] = s]
    BY <1>1, <1>3 DEF LoadCache
  <2>4. faults' \in Nat
    BY <1>1, <1>3 DEF LoadCache
  <2>5. QED
    BY <1>3, <2>1, <2>2, <2>3, <2>4 DEF LoadCache
<1>4. CASE PullChanges(p)
  <2>1. \E l \in Labels : pc' = [pc EXCEPT ![p] = l]
    BY <1>4 DEF PullChanges
  <2>2. \E c \in [t : Nat, i : Nat] : cur' = [cur EXCEPT ![p] = c]
    BY <1>1, <1>2, <1>4 DEF PullChanges
  <2>3. \E s \in {"none", "plain", "cred"} : sub' = [sub EXCEPT ![p] = s]
    BY <1>1, <1>4 DEF PullChanges
  <2>4. faults' \in Nat
    BY <1>1, <1>4 DEF PullChanges
  <2>5. QED
    BY <1>4, <2>1, <2>2, <2>3, <2>4 DEF PullChanges
<1>5. CASE CompareDescriptors(p)
  <2>1. \E l \in Labels : pc' = [pc EXCEPT ![p] = l]
    BY <1>5 DEF CompareDescriptors
  <2>2. \E c \in [t : Nat, i : Nat] : cur' = [cur EXCEPT ![p] = c]
    BY <1>1, <1>2, <1>5 DEF CompareDescriptors
  <2>3. \E s \in {"none", "plain", "cred"} : sub' = [sub EXCEPT ![p] = s]
    BY <1>1, <1>5 DEF CompareDescriptors
  <2>4. faults' \in Nat
    BY <1>1, <1>5 DEF CompareDescriptors
  <2>5. QED
    BY <1>5, <2>1, <2>2, <2>3, <2>4 DEF CompareDescriptors
<1>6. CASE UpdateCache(p)
  <2>1. \E l \in Labels : pc' = [pc EXCEPT ![p] = l]
    BY <1>6 DEF UpdateCache
  <2>2. \E c \in [t : Nat, i : Nat] : cur' = [cur EXCEPT ![p] = c]
    BY <1>1, <1>2, <1>6 DEF UpdateCache
  <2>3. \E s \in {"none", "plain", "cred"} : sub' = [sub EXCEPT ![p] = s]
    BY <1>1, <1>6 DEF UpdateCache
  <2>4. faults' \in Nat
    BY <1>1, <1>6 DEF UpdateCache
  <2>5. QED
    BY <1>6, <2>1, <2>2, <2>3, <2>4 DEF UpdateCache
<1>7. CASE StartExperiment(p)
  <2>1. \E l \in Labels : pc' = [pc EXCEPT ![p] = l]
    BY <1>7 DEF StartExperiment
  <2>2. \E c \in [t : Nat, i : Nat] : cur' = [cur EXCEPT ![p] = c]
    BY <1>1, <1>2, <1>7 DEF StartExperiment
  <2>3. \E s \in {"none", "plain", "cred"} : sub' = [sub EXCEPT ![p] = s]
    BY <1>1, <1>7 DEF StartExperiment
  <2>4. faults' \in Nat
    BY <1>1, <1>7 DEF StartExperiment
  <2>5. QED
    BY <1>7, <2>1, <2>2, <2>3, <2>4 DEF StartExperiment
<1>8. CASE NoSubmitter(p)
  <2>1. \E l \in Labels : pc' = [pc EXCEPT ![p] = l]
    BY <1>8 DEF NoSubmitter
  <2>2. \E c \in [t : Nat, i : Nat] : cur' = [cur EXCEPT ![p] = c]
    BY <1>1, <1>2, <1>8 DEF NoSubmitter
  <2>3. \E s \in {"none", "plain", "cred"} : sub' = [sub EXCEPT ![p] = s]
    BY <1>1, <1>8 DEF NoSubmitter
  <2>4. faults' \in Nat
    BY <1>1, <1>8 DEF NoSubmitter
  <2>5. QED
    BY <1>8, <2>1, <2>2, <2>3, <2>4 DEF NoSubmitter
<1>9. CASE ProcessInput(p)
  <2>1. \E l \in Labels : pc' = [pc EXCEPT ![p] = l]
    BY <1>9 DEF ProcessInput
  <2>2. \E c \in [t : Nat, i : Nat] : cur' = [cur EXCEPT ![p] = c]
    BY <1>1, <1>2, <1>9 DEF ProcessInput
  <2>3. \E s \in {"none", "plain", "cred"} : sub' = [sub EXCEPT ![p] = s]
    BY <1>1, <1>9 DEF ProcessInput
  <2>4. faults' \in Nat
    BY <1>1, <1>9 DEF ProcessInput
  <2>5. QED
    BY <1>9, <2>1, <2>2, <2>3, <2>4 DEF ProcessInput
<1>10. CASE AfterSubmission(p)
  <2>1. \E l \in Labels : pc' = [pc EXCEPT ![p] = l]
    BY <1>10 DEF AfterSubmission
  <2>2. \E c \in [t : Nat, i : Nat] : cur' = [cur EXCEPT ![p] = c]
    BY <1>1, <1>2, <1>10 DEF AfterSubmission
  <2>3. \E s \in {"none", "plain", "cred"} : sub' = [sub EXCEPT ![p] = s]
    BY <1>1, <1>10 DEF AfterSubmission
  <2>4. faults' \in Nat
    BY <1>1, <1>10 DEF AfterSubmission
  <2>5. QED
    BY <1>10, <2>1, <2>2, <2>3, <2>4 DEF AfterSubmission
<1>11. CASE SaveToReport(p)
  <2>1. \E l \in Labels : pc' = [pc EXCEPT ![p] = l]
    BY <1>11 DEF SaveToReport
  <2>2. \E c \in [t : Nat, i : Nat] : cur' = [cur EXCEPT ![p] = c]
    BY <1>1, <1>2, <1>11 DEF SaveToReport
  <2>3. \E s \in {"none", "plain", "cred"} : sub' = [sub EXCEPT ![p] = s]
    BY <1>1, <1>11 DEF SaveToReport
  <2>4. faults' \in Nat
    BY <1>1, <1>11 DEF SaveToReport
  <2>5. QED
    BY <1>11, <2>1, <2>2, <2>3, <2>4 DEF SaveToReport
<1>12. QED
  BY <1>3, <1>4, <1>5, <1>6, <1>7, <1>8, <1>9, <1>10, <1>11
  DEF RunStep

\* A field of a row is set.
LEMMA Setting ==
    ASSUME rows \in [DOMAIN rows -> Row], NEW m,
           NEW field \in {"done", "failed", "uploaded", "keys"}, Set(m, field)
    PROVE  /\ rows' \in [DOMAIN rows -> Row]
           /\ DOMAIN rows' = DOMAIN rows
           /\ \A n \in DOMAIN rows : n # m => rows'[n] = rows[n]
           /\ m \in DOMAIN rows =>
                /\ rows'[m].done = (rows[m].done \/ field = "done")
                /\ rows'[m].failed = (rows[m].failed \/ field = "failed")
                /\ rows'[m].uploaded = (rows[m].uploaded \/ field = "uploaded")
                /\ rows'[m].keys = (rows[m].keys \/ field = "keys")
<1>1. CASE m \notin DOMAIN rows
  BY <1>1 DEF Set
<1>2. CASE m \in DOMAIN rows
  <2> DEFINE row == [rows[m] EXCEPT ![field] = TRUE]
  <2>1. rows[m] \in Row
    BY <1>2
  <2>2. /\ row \in Row
        /\ row.done = (rows[m].done \/ field = "done")
        /\ row.failed = (rows[m].failed \/ field = "failed")
        /\ row.uploaded = (rows[m].uploaded \/ field = "uploaded")
        /\ row.keys = (rows[m].keys \/ field = "keys")
    <3>1. CASE field = "done"
      BY <2>1, <3>1 DEF Row
    <3>2. CASE field = "failed"
      BY <2>1, <3>2 DEF Row
    <3>3. CASE field = "uploaded"
      BY <2>1, <3>3 DEF Row
    <3>4. CASE field = "keys"
      BY <2>1, <3>4 DEF Row
    <3>5. QED
      BY <3>1, <3>2, <3>3, <3>4
  <2>3. rows' = [rows EXCEPT ![m] = row]
    BY <1>2 DEF Set
  <2> HIDE DEF row
  <2>4. QED
    BY <1>2, <2>2, <2>3
<1>3. QED
  BY <1>1, <1>2

\* A row is added to a table.
LEMMA Inserting ==
    ASSUME NEW table, NEW key, NEW row
    PROVE  /\ DOMAIN Insert(table, key, row) = DOMAIN table \cup {key}
           /\ \A k \in DOMAIN table : Insert(table, key, row)[k] = table[k]
           /\ key \notin DOMAIN table => Insert(table, key, row)[key] = row
  BY DEF Insert

\* The rows of the table still have their type.
LEMMA InsertType ==
    ASSUME NEW T, NEW table, table \in [DOMAIN table -> T], NEW key, NEW row \in T
    PROVE  Insert(table, key, row) \in [DOMAIN Insert(table, key, row) -> T]
  BY DEF Insert

\* The steps of a nettest keep the types.
LEMMA NettestType ==
    ASSUME SubTypeOK, NtTypeOK, NEW p \in Procs, NettestStep(p)
    PROVE  NtTypeOK'
<1>1. NewRow \in Row
  BY DEF NewRow, Row
<1>2. cur[p].t \in Nat
  BY DEF SubTypeOK
<1>3. [uploaded |-> FALSE, done |-> FALSE] \in [uploaded : BOOLEAN, done : BOOLEAN]
  OBVIOUS
<1>4. ASSUME NEW err \in BOOLEAN, EndNettest(p, err)
      PROVE  failed' \in [Procs -> SUBSET Nat]
  <2>1. failed[p] \cup {cur[p].t} \in SUBSET Nat
    BY <1>2 DEF NtTypeOK
  <2>2. QED
    BY <1>4, <2>1 DEF EndNettest, NtTypeOK
<1>5. ASSUME NEW r \in [uploaded : BOOLEAN, done : BOOLEAN], UpdateResult(p, r)
      PROVE  result' \in [DOMAIN result' -> [uploaded : BOOLEAN, done : BOOLEAN]]
  BY <1>5 DEF UpdateResult, HasResult, NtTypeOK
<1>6. ASSUME Set(Here(p), "done") \/ Set(Here(p), "failed") \/ Set(Here(p), "uploaded")
             \/ Set(Here(p), "keys")
      PROVE  rows' \in [DOMAIN rows' -> Row]
  BY <1>6, Setting DEF NtTypeOK
<1> USE DEF At, NoFault
<1>7. CASE StartGroup(p)
  <2>1. result' \in [DOMAIN result' -> [uploaded : BOOLEAN, done : BOOLEAN]]
    <3>1. \/ result' = result
          \/ result' = Insert(result, p, [uploaded |-> FALSE, done |-> FALSE])
      BY <1>7 DEF StartGroup
    <3> DEFINE r == [uploaded |-> FALSE, done |-> FALSE]
               T == [uploaded : BOOLEAN, done : BOOLEAN]
    <3>2. result \in [DOMAIN result -> T] /\ r \in T
      BY <1>3 DEF NtTypeOK
    <3> HIDE DEF r, T
    <3>3. Insert(result, p, r) \in [DOMAIN Insert(result, p, r) -> T]
      BY <3>2, InsertType, Zenon
    <3>4. QED
      BY <3>1, <3>2, <3>3 DEF r, T
  <2>2. dir' \in [Procs -> BOOLEAN]
    BY <1>7 DEF StartGroup, NtTypeOK
  <2>3. QED
    BY <1>7, <2>1, <2>2 DEF StartGroup, NtTypeOK
<1>8. CASE StartNettest(p)
  BY <1>4, <1>8 DEF StartNettest, NtTypeOK
<1>9. CASE CleanUp(p)
  BY <1>9 DEF CleanUp, NtTypeOK
<1>10. CASE Finished(p)
  <2>1. [uploaded |-> isUploaded[p], done |-> TRUE] \in [uploaded : BOOLEAN, done : BOOLEAN]
    BY DEF NtTypeOK
  <2>2. result' \in [DOMAIN result' -> [uploaded : BOOLEAN, done : BOOLEAN]]
    BY <1>5, <1>10, <2>1 DEF Finished, NtTypeOK
  <2>3. QED
    BY <1>10, <2>2 DEF Finished, NtTypeOK
<1>11. CASE RunWithoutSubmitter(p) \/ StopLoop(p)
  BY <1>11 DEF RunWithoutSubmitter, StopLoop, ntVars, NtTypeOK
<1>12. CASE CreateMeasurement(p)
  <2>1. rows' \in [DOMAIN rows' -> Row]
    <3>1. rows' = rows \/ rows' = Insert(rows, Here(p), NewRow)
      BY <1>12 DEF CreateMeasurement
    <3>2. rows \in [DOMAIN rows -> Row]
      BY DEF NtTypeOK
    <3>3. Insert(rows, Here(p), NewRow) \in [DOMAIN Insert(rows, Here(p), NewRow) -> Row]
      BY <1>1, <3>2, InsertType, Zenon
    <3>4. QED
      BY <3>1, <3>2, <3>3
  <2>2. failed' \in [Procs -> SUBSET Nat]
    BY <1>4, <1>12 DEF CreateMeasurement, NtTypeOK
  <2>3. QED
    BY <1>12, <2>1, <2>2 DEF CreateMeasurement, NtTypeOK
<1>13. CASE Measure(p)
  <2>1. rows' \in [DOMAIN rows' -> Row]
    BY <1>6, <1>13 DEF Measure, NtTypeOK
  <2>2. failed' \in [Procs -> SUBSET Nat]
    BY <1>4, <1>13 DEF Measure, NtTypeOK
  <2>3. QED
    BY <1>13, <2>1, <2>2 DEF Measure, NtTypeOK
<1>14. CASE UploadSucceeded(p) \/ UploadFailed(p) \/ Done(p)
  <2>1. rows' \in [DOMAIN rows' -> Row]
    BY <1>6, <1>14 DEF UploadSucceeded, UploadFailed, Done, Record, NtTypeOK
  <2>2. failed' \in [Procs -> SUBSET Nat]
    BY <1>4, <1>14 DEF UploadSucceeded, UploadFailed, Done, Record, NtTypeOK
  <2>3. QED
    BY <1>14, <2>1, <2>2 DEF UploadSucceeded, UploadFailed, Done, Record, NtTypeOK
<1>15. CASE SaveMeasurement(p)
  BY <1>4, <1>15 DEF SaveMeasurement, NtTypeOK
<1>16. CASE AddTestKeys(p)
  <2>1. rows' \in [DOMAIN rows' -> Row]
    BY <1>6, <1>16 DEF AddTestKeys, NtTypeOK
  <2>2. failed' \in [Procs -> SUBSET Nat]
    BY <1>4, <1>16 DEF AddTestKeys, NtTypeOK
  <2>3. QED
    BY <1>16, <2>1, <2>2 DEF AddTestKeys, NtTypeOK
<1>17. CASE UpdateUploadedStatus(p)
  <2>1. [uploaded |-> TRUE, done |-> FALSE] \in [uploaded : BOOLEAN, done : BOOLEAN]
    BY Zenon
  <2>2. result' \in [DOMAIN result' -> [uploaded : BOOLEAN, done : BOOLEAN]]
    BY <1>5, <1>17, <2>1 DEF UpdateUploadedStatus, NtTypeOK
  <2>3. isUploaded' \in [Procs -> BOOLEAN]
    <3>1. isUploaded' \in {isUploaded, [isUploaded EXCEPT ![p] = TRUE]}
      BY <1>17 DEF UpdateUploadedStatus
    <3>2. QED
      BY <3>1 DEF NtTypeOK
  <2>4. failed' \in [Procs -> SUBSET Nat]
    BY <1>4, <1>17 DEF UpdateUploadedStatus, NtTypeOK
  <2>5. QED
    BY <1>17, <2>2, <2>3, <2>4 DEF UpdateUploadedStatus, NtTypeOK
<1>18. QED
  BY <1>7, <1>8, <1>9, <1>10, <1>11, <1>12, <1>13, <1>14, <1>15, <1>16, <1>17
  DEF NettestStep

\* The steps of a link keep the types.
LEMMA RunType ==
    ASSUME SubTypeOK, RunTypeOK, NEW p \in Procs, RunStep(p)
    PROVE  RunTypeOK'
<1>1. cur[p].t \in Nat
  BY DEF SubTypeOK
<1>2. Torn \in [Urls -> Int] /\ [u \in Urls |-> Unknown] \in [Urls -> Int]
  BY DEF Torn, Unknown
<1>3. ASSUME NEW err \in BOOLEAN, EndExperiment(p, err)
      PROVE  stopped' \in [Procs -> SUBSET Nat]
  <2>1. stopped[p] \cup {cur[p].t} \in SUBSET Nat
    BY <1>1 DEF RunTypeOK
  <2>2. QED
    BY <1>3, <2>1 DEF EndExperiment, RunTypeOK
<1> USE DEF At, NoFault
<1>4. CASE LoadCache(p)
  BY <1>2, <1>4 DEF LoadCache, RunTypeOK
<1>5. CASE PullChanges(p)
  <2>1. server[link[p].url] \in Nat
    BY DEF RunTypeOK
  <2>2. QED
    BY <1>5, <2>1 DEF PullChanges, RunTypeOK
<1>6. CASE CompareDescriptors(p)
  BY <1>6 DEF CompareDescriptors, RunTypeOK
<1>7. CASE UpdateCache(p)
  <2>1. [loaded[p] EXCEPT ![link[p].url] = pulled[p]] \in [Urls -> Int]
    BY DEF RunTypeOK
  <2>2. QED
    BY <1>2, <1>7, <2>1 DEF UpdateCache, RunTypeOK
<1>8. CASE StartExperiment(p) \/ NoSubmitter(p) \/ ProcessInput(p)
  <2>1. stopped' \in [Procs -> SUBSET Nat]
    BY <1>3, <1>8 DEF StartExperiment, NoSubmitter, ProcessInput, RunTypeOK
  <2>2. QED
    BY <1>8, <2>1 DEF StartExperiment, NoSubmitter, ProcessInput, RunTypeOK
<1>9. CASE AfterSubmission(p)
  BY <1>9 DEF AfterSubmission, runVars, RunTypeOK
<1>10. CASE SaveToReport(p)
  BY <1>3, <1>10 DEF SaveToReport, RunTypeOK
<1>11. QED
  BY <1>4, <1>5, <1>6, <1>7, <1>8, <1>9, <1>10 DEF RunStep

\* Every step keeps the types.
LEMMA TypeNext ==
    ASSUME TypeOK, Place, [Next]_vars
    PROVE  TypeOK'
<1>1. program \in {"ooniprobe", "miniooni"} /\ SubTypeOK /\ NtTypeOK /\ RunTypeOK
  BY DEF TypeOK
<1> USE <1>1
<1>2. ASSUME NEW p \in Procs, SubmissionStep(p), UNCHANGED <<ntVars, runVars, program>>
      PROVE  TypeOK'
  BY <1>2, SubmissionType DEF TypeOK, NtTypeOK, RunTypeOK, ntVars, runVars
<1>3. ASSUME NEW p \in Procs, NettestStep(p), UNCHANGED <<runVars, program>>
      PROVE  TypeOK'
  <2>1. SubTypeOK'
    <3>1. PICK l \in Labels : pc' = [pc EXCEPT ![p] = l]
      BY <1>3, NettestMoves
    <3>2. PICK c \in [t : Nat, i : Nat] : cur' = [cur EXCEPT ![p] = c]
      BY <1>3, NettestMoves
    <3>3. PICK s \in {"none", "plain", "cred"} : sub' = [sub EXCEPT ![p] = s]
      BY <1>3, NettestMoves
    <3>4. faults' \in Nat /\ UNCHANGED credVars
      BY <1>3, NettestMoves
    <3>5. QED
      BY <3>1, <3>2, <3>3, <3>4 DEF SubTypeOK, credVars
  <2>2. QED
    BY <1>3, <2>1, NettestType DEF TypeOK, RunTypeOK, runVars
<1>4. ASSUME NEW p \in Procs, RunStep(p), UNCHANGED <<ntVars, program>>
      PROVE  TypeOK'
  <2>1. SubTypeOK'
    <3>1. PICK l \in Labels : pc' = [pc EXCEPT ![p] = l]
      BY <1>4, RunMoves
    <3>2. PICK c \in [t : Nat, i : Nat] : cur' = [cur EXCEPT ![p] = c]
      BY <1>4, RunMoves
    <3>3. PICK s \in {"none", "plain", "cred"} : sub' = [sub EXCEPT ![p] = s]
      BY <1>4, RunMoves
    <3>4. faults' \in Nat /\ UNCHANGED submitterVars
      BY <1>4, RunMoves
    <3>5. QED
      BY <3>1, <3>2, <3>3, <3>4 DEF SubTypeOK, submitterVars
  <2>2. QED
    BY <1>4, <2>1, RunType DEF TypeOK, NtTypeOK, ntVars
<1>5. ASSUME NEW p \in Procs, Crash(p)
      PROVE  TypeOK'
  <2>1. store' \in [cred : Nat, version : Nat]
    BY <1>5 DEF Crash, CrashSubmission, SetFails, Empty, NoCredential, SubTypeOK
  <2>2. pc' \in [Procs -> Labels] /\ faults' \in Nat
    BY <1>5 DEF Crash, CrashSubmission, Fault, Goto, SubTypeOK, Labels
  <2>3. SubTypeOK'
    BY <1>5, <2>1, <2>2 DEF Crash, CrashSubmission, SubTypeOK
  <2>4. cache' \in [Urls -> Int]
    BY <1>5 DEF Crash, Torn, RunTypeOK
  <2>5. QED
    BY <1>5, <2>3, <2>4 DEF Crash, TypeOK, NtTypeOK, RunTypeOK, ntVars
<1>6. ASSUME NewManifest, UNCHANGED <<ntVars, runVars, program>>
      PROVE  TypeOK'
  BY <1>6 DEF NewManifest, Fault, TypeOK, SubTypeOK, NtTypeOK, RunTypeOK, ntVars, runVars
<1>7. ASSUME NEW p \in Procs, Terminate(p), UNCHANGED <<runVars, program>>
      PROVE  TypeOK'
  BY <1>7 DEF Terminate, Fault, idleVars, TypeOK, SubTypeOK, NtTypeOK, RunTypeOK, runVars
<1>8. ASSUME NEW p \in Procs, DeleteRow(p), UNCHANGED <<runVars, program>>
      PROVE  TypeOK'
  <2>1. SubTypeOK'
    BY <1>8 DEF DeleteRow, Fault, idleVars, SubTypeOK
  <2>2. /\ result' \in [DOMAIN result' -> [uploaded : BOOLEAN, done : BOOLEAN]]
        /\ rows' \in [DOMAIN rows' -> Row]
    BY <1>8 DEF DeleteRow, NtTypeOK
  <2>3. NtTypeOK'
    BY <1>8, <2>2 DEF DeleteRow, NtTypeOK
  <2>4. QED
    BY <1>8, <2>1, <2>3 DEF TypeOK, RunTypeOK, runVars
<1>9. ASSUME NEW p \in Procs, RemoveDir(p), UNCHANGED <<runVars, program>>
      PROVE  TypeOK'
  BY <1>9 DEF RemoveDir, subVars, idleVars, TypeOK, SubTypeOK, NtTypeOK, RunTypeOK, runVars
<1>10. ASSUME NEW u \in Urls, Publish(u), UNCHANGED <<ntVars, program>>
       PROVE  TypeOK'
  BY <1>10 DEF Publish, Fault, idleVars, TypeOK, SubTypeOK, NtTypeOK, RunTypeOK, ntVars
<1>11. ASSUME UNCHANGED vars
       PROVE  TypeOK'
  BY <1>11 DEF vars, subVars, idleVars, ntVars, runVars, TypeOK, SubTypeOK, NtTypeOK, RunTypeOK
<1>12. QED
  BY <1>2, <1>3, <1>4, <1>5, <1>6, <1>7, <1>8, <1>9, <1>10, <1>11
  DEF Next, Step, Environment, AllHalted

-----------------------------------------------------------------------------
(* Where the invocations are.                                              *)

\* What a step of the submission does to the invocation: the measurement it is
\* at stays the same.
LEMMA SubmissionMoves ==
    ASSUME SubTypeOK, NEW p \in Procs, SubmissionStep(p)
    PROVE  /\ UNCHANGED <<cur, useAuth, manifest>>
           /\ \A q \in Procs : q # p =>
                /\ pc'[q] = pc[q] /\ sub'[q] = sub[q] /\ version'[q] = version[q]
                /\ held'[q] = held[q] /\ shown'[q] = shown[q]
<1>1. CASE NoProbeServices(p)
  BY <1>1 DEF NoProbeServices, Goto, SubTypeOK
<1>2. CASE PlainSubmitter(p)
  BY <1>2 DEF PlainSubmitter, Goto, SubTypeOK
<1>3. CASE GetManifest(p)
  BY <1>3 DEF GetManifest, Goto, SubTypeOK
<1>4. CASE ReuseCredential(p)
  BY <1>4 DEF ReuseCredential, Goto, SubTypeOK
<1>5. CASE Register(p)
  BY <1>5 DEF Register, Goto, SubTypeOK
<1>6. CASE KeepRegistered(p)
  BY <1>6 DEF KeepRegistered, Goto, SubTypeOK
<1>7. CASE StartSubmit(p)
  BY <1>7 DEF StartSubmit, Goto, SubTypeOK
<1>8. CASE SubmitWithCredential(p)
  BY <1>8 DEF SubmitWithCredential, Goto, SubTypeOK
<1>9. CASE CredentialRefused(p)
  BY <1>9 DEF CredentialRefused, Goto, SubTypeOK
<1>10. CASE RotateCredential(p)
  BY <1>10 DEF RotateCredential, Goto, SubTypeOK
<1>11. CASE PlainSubmit(p)
  BY <1>11 DEF PlainSubmit, Goto, SubTypeOK
<1>12. QED
  BY <1>1, <1>2, <1>3, <1>4, <1>5, <1>6, <1>7, <1>8, <1>9, <1>10, <1>11 DEF SubmissionStep

\* Nobody moves another invocation.
LEMMA OthersStay ==
    ASSUME SubTypeOK, NEW p \in Procs, Step(p) \/ Crash(p), NEW q \in Procs, q # p
    PROVE  /\ pc'[q] = pc[q] /\ cur'[q] = cur[q]
           /\ held'[q] = held[q] /\ shown'[q] = shown[q]
<1>1. CASE SubmissionStep(p)
  BY <1>1, SubmissionMoves
<1>2. CASE NettestStep(p)
  BY <1>2, NettestMoves DEF SubTypeOK, credVars
<1>3. CASE RunStep(p)
  BY <1>3, RunMoves DEF SubTypeOK, submitterVars
<1>4. CASE Crash(p)
  BY <1>4 DEF Crash, CrashSubmission, Goto, SubTypeOK
<1>5. QED
  BY <1>1, <1>2, <1>3, <1>4 DEF Step

\* What comes from outside moves no invocation.
LEMMA EnvironmentStays ==
    ASSUME Environment \/ UNCHANGED vars
    PROVE  UNCHANGED <<pc, cur, held, shown, store, minted, received, spent, orphaned, lost,
                         unsaved, sub>>
  BY DEF Environment, NewManifest, Terminate, DeleteRow, RemoveDir, Publish, idleVars, subVars,
     vars

\* A step of an invocation keeps its place.
LEMMA PlacedNext ==
    ASSUME SubTypeOK, NEW p \in Procs, Placed(p), Step(p) \/ Crash(p)
    PROVE  Placed(p)'
<1>1. /\ cur[p] \in [t : Nat, i : Nat] /\ Len(Inputs[p]) \in Nat
      /\ cur[p].t \in Nat /\ cur[p].i \in Nat
  BY InputsAssumption DEF SubTypeOK
<1>2. ASSUME UNCHANGED cur, pc'[p] \in Before => pc[p] \in Before,
             pc'[p] \in InMeasurement => pc[p] \in InMeasurement,
             pc'[p] \in InNettest => pc[p] \in InNettest, pc'[p] \notin {"nettests", "start"}
      PROVE  Placed(p)'
  BY <1>2 DEF Placed, InNettest
<1>3. ASSUME cur' = [cur EXCEPT ![p] = [t |-> cur[p].t + 1, i |-> 1]], pc'[p] = "nettests"
      PROVE  Placed(p)'
  <2>1. cur'[p] = [t |-> cur[p].t + 1, i |-> 1]
    BY <1>3 DEF SubTypeOK
  <2>2. cur'[p].t >= 1 /\ cur'[p].i >= 1
    BY <1>1, <2>1
  <2>3. QED
    BY <1>3, <2>2 DEF Placed, InNettest, InMeasurement, Before
<1>4. ASSUME cur' = [cur EXCEPT ![p].i = @ + 1], pc[p] \in InNettest, pc'[p] = "loop"
      PROVE  Placed(p)'
  <2>1. cur'[p].t = cur[p].t /\ cur'[p].i = cur[p].i + 1
    BY <1>1, <1>4 DEF SubTypeOK
  <2>2. QED
    BY <1>1, <1>4, <2>1 DEF Placed, InNettest, InMeasurement, Before
<1>5. ASSUME cur' = [cur EXCEPT ![p] = [t |-> 1, i |-> 1]],
             pc'[p] \in Before \cup {"nettests", "ended"}
      PROVE  Placed(p)'
  <2>1. cur'[p] = [t |-> 1, i |-> 1]
    BY <1>5 DEF SubTypeOK
  <2>2. cur'[p].t = 1 /\ cur'[p].i = 1
    BY <2>1
  <2>3. QED
    BY <1>5, <2>2 DEF Placed, InNettest, InMeasurement, Before
<1>6. ASSUME NEW l, Goto(p, l)
      PROVE  pc'[p] = l
  BY <1>6 DEF Goto, SubTypeOK
<1> USE DEF At, InNettest, InMeasurement, Before
<1>7. CASE SubmissionStep(p)
  <2>1. CASE NoProbeServices(p)
    BY <1>2, <1>6, <2>1 DEF NoProbeServices
  <2>2. CASE PlainSubmitter(p)
    BY <1>2, <1>6, <2>2 DEF PlainSubmitter
  <2>3. CASE GetManifest(p)
    BY <1>2, <1>6, <2>3 DEF GetManifest
  <2>4. CASE ReuseCredential(p)
    BY <1>2, <1>6, <2>4 DEF ReuseCredential
  <2>5. CASE Register(p)
    BY <1>2, <1>6, <2>5 DEF Register
  <2>6. CASE KeepRegistered(p)
    BY <1>2, <1>6, <2>6 DEF KeepRegistered
  <2>7. CASE StartSubmit(p)
    BY <1>2, <1>6, <2>7 DEF StartSubmit
  <2>8. CASE SubmitWithCredential(p)
    BY <1>2, <1>6, <2>8 DEF SubmitWithCredential
  <2>9. CASE CredentialRefused(p)
    BY <1>2, <1>6, <2>9 DEF CredentialRefused
  <2>10. CASE RotateCredential(p)
    BY <1>2, <1>6, <2>10 DEF RotateCredential
  <2>11. CASE PlainSubmit(p)
    BY <1>2, <1>6, <2>11 DEF PlainSubmit
  <2>12. QED
    BY <1>7, <2>1, <2>2, <2>3, <2>4, <2>5, <2>6, <2>7, <2>8, <2>9, <2>10, <2>11 DEF SubmissionStep
<1>8. CASE NettestStep(p)
  <2>1. CASE StartGroup(p)
    BY <1>2, <1>3, <1>4, <1>5, <1>6, <2>1 DEF StartGroup, Record, EndNettest, NextInput
  <2>2. CASE StartNettest(p)
    <3>1. CASE EndNettest(p, TRUE) \/ EndNettest(p, FALSE)
      BY <1>3, <1>6, <3>1 DEF EndNettest
    <3>2. CASE cur' = cur
      BY <1>1, <1>6, <2>2, <3>2 DEF StartNettest, EndNettest, Placed
    <3>3. QED
      BY <2>2, <3>1, <3>2 DEF StartNettest
  <2>3. CASE CleanUp(p)
    BY <1>2, <1>3, <1>4, <1>5, <1>6, <2>3 DEF CleanUp, Record, EndNettest, NextInput
  <2>4. CASE Finished(p)
    BY <1>2, <1>3, <1>4, <1>5, <1>6, <2>4 DEF Finished, Record, EndNettest, NextInput
  <2>5. CASE RunWithoutSubmitter(p)
    BY <1>2, <1>3, <1>4, <1>5, <1>6, <2>5 DEF RunWithoutSubmitter, Record, EndNettest, NextInput
  <2>6. CASE StopLoop(p)
    BY <1>2, <1>3, <1>4, <1>5, <1>6, <2>6 DEF StopLoop, Record, EndNettest, NextInput
  <2>7. CASE CreateMeasurement(p)
    <3>1. CASE EndNettest(p, TRUE) \/ EndNettest(p, FALSE)
      BY <1>3, <1>6, <3>1 DEF EndNettest
    <3>2. CASE cur' = cur
      BY <1>1, <1>6, <2>7, <3>2 DEF CreateMeasurement, EndNettest, Placed
    <3>3. QED
      BY <2>7, <3>1, <3>2 DEF CreateMeasurement
  <2>8. CASE Measure(p)
    BY <1>2, <1>3, <1>4, <1>5, <1>6, <2>8 DEF Measure, Record, EndNettest, NextInput
  <2>9. CASE UploadSucceeded(p)
    BY <1>2, <1>3, <1>4, <1>5, <1>6, <2>9 DEF UploadSucceeded, Record, EndNettest, NextInput
  <2>10. CASE UploadFailed(p)
    BY <1>2, <1>3, <1>4, <1>5, <1>6, <2>10 DEF UploadFailed, Record, EndNettest, NextInput
  <2>11. CASE SaveMeasurement(p)
    BY <1>2, <1>3, <1>4, <1>5, <1>6, <2>11 DEF SaveMeasurement, Record, EndNettest, NextInput
  <2>12. CASE Done(p)
    BY <1>2, <1>3, <1>4, <1>5, <1>6, <2>12 DEF Done, Record, EndNettest, NextInput
  <2>13. CASE AddTestKeys(p)
    BY <1>2, <1>3, <1>4, <1>5, <1>6, <2>13 DEF AddTestKeys, Record, EndNettest, NextInput
  <2>14. CASE UpdateUploadedStatus(p)
    BY <1>2, <1>3, <1>4, <1>5, <1>6, <2>14 DEF UpdateUploadedStatus, Record, EndNettest, NextInput
  <2>15. QED
    BY <1>8, <2>1, <2>2, <2>3, <2>4, <2>5, <2>6, <2>7, <2>8, <2>9, <2>10, <2>11, <2>12, <2>13, <2>14 DEF NettestStep
<1>9. CASE RunStep(p)
  <2>1. CASE LoadCache(p)
    BY <1>2, <1>3, <1>4, <1>5, <1>6, <2>1 DEF LoadCache, EndExperiment
  <2>2. CASE PullChanges(p)
    BY <1>2, <1>3, <1>4, <1>5, <1>6, <2>2 DEF PullChanges, EndExperiment
  <2>3. CASE CompareDescriptors(p)
    <3>1. CASE EndExperiment(p, TRUE) \/ EndExperiment(p, FALSE)
      BY <1>3, <1>6, <3>1 DEF EndExperiment
    <3>2. CASE cur' = cur
      BY <1>1, <1>6, <2>3, <3>2 DEF CompareDescriptors, EndExperiment, Placed
    <3>3. QED
      BY <2>3, <3>1, <3>2 DEF CompareDescriptors
  <2>4. CASE UpdateCache(p)
    BY <1>1, <1>6, <2>4 DEF UpdateCache, Placed
  <2>5. CASE StartExperiment(p)
    <3>1. CASE EndExperiment(p, TRUE) \/ EndExperiment(p, FALSE)
      BY <1>3, <1>6, <3>1 DEF EndExperiment
    <3>2. CASE cur' = cur
      BY <1>1, <1>6, <2>5, <3>2 DEF StartExperiment, EndExperiment, Placed
    <3>3. QED
      BY <2>5, <3>1, <3>2 DEF StartExperiment
  <2>6. CASE NoSubmitter(p)
    BY <1>2, <1>3, <1>4, <1>5, <1>6, <2>6 DEF NoSubmitter, EndExperiment
  <2>7. CASE ProcessInput(p)
    <3>1. CASE EndExperiment(p, TRUE) \/ EndExperiment(p, FALSE)
      BY <1>3, <1>6, <3>1 DEF EndExperiment
    <3>2. CASE cur' = cur
      BY <1>1, <1>6, <2>7, <3>2 DEF ProcessInput, EndExperiment, Placed
    <3>3. QED
      BY <2>7, <3>1, <3>2 DEF ProcessInput
  <2>8. CASE AfterSubmission(p)
    BY <1>2, <1>3, <1>4, <1>5, <1>6, <2>8 DEF AfterSubmission, EndExperiment
  <2>9. CASE SaveToReport(p)
    BY <1>2, <1>3, <1>4, <1>5, <1>6, <2>9 DEF SaveToReport, EndExperiment
  <2>10. QED
    BY <1>9, <2>1, <2>2, <2>3, <2>4, <2>5, <2>6, <2>7, <2>8, <2>9 DEF RunStep
<1>10. CASE Crash(p)
  BY <1>2, <1>6, <1>10 DEF Crash, CrashSubmission
<1>11. QED
  BY <1>7, <1>8, <1>9, <1>10 DEF Step

\* Every step keeps everybody's place.
LEMMA PlaceNext ==
    ASSUME SubTypeOK, Place, [Next]_vars
    PROVE  Place'
<1>1. ASSUME NEW p \in Procs, Step(p) \/ Crash(p), NEW q \in Procs
      PROVE  Placed(q)'
  <2>1. CASE q = p
    BY <1>1, <2>1, PlacedNext DEF Place
  <2>2. CASE q # p
    <3>1. pc'[q] = pc[q] /\ cur'[q] = cur[q]
      BY <1>1, <2>2, OthersStay
    <3>2. QED
      BY <3>1 DEF Place, Placed
  <2>3. QED
    BY <2>1, <2>2
<1>2. CASE Environment \/ UNCHANGED vars
  BY <1>2, EnvironmentStays DEF Place, Placed
<1>3. QED
  BY <1>1, <1>2 DEF Next, AllHalted, Place

\* Every step is of one program.
LEMMA SeparateNext ==
    ASSUME TypeOK, Separate, [Next]_vars
    PROVE  Separate'
<1>1. program' = program
  BY DEF Next, Step, Crash, Environment, AllHalted, vars
<1>2. program = "miniooni" => UNCHANGED ntVars
  BY DEF Next, Step, Crash, Environment, AllHalted, vars, TypeOK, NewManifest
<1>3. program = "ooniprobe" => UNCHANGED pulled
  BY DEF Next, Step, Crash, Environment, AllHalted, vars, TypeOK, runVars
<1>4. QED
  BY <1>1, <1>2, <1>3 DEF Separate, ntVars

-----------------------------------------------------------------------------
(* Credentials.                                                            *)

\* Outside the submission no invocation has anything to do with credentials.
LEMMA OutsideSubmission ==
    ASSUME SubTypeOK, NEW p \in Procs, NettestStep(p) \/ RunStep(p)
    PROVE  /\ pc[p] \notin {"submitter", "credential", "keep", "submit", "credpost", "rotate", "post"}
           /\ pc'[p] \notin {"credential", "keep", "credpost", "rotate", "post"}
           /\ UNCHANGED <<held, shown, store, minted, received, spent, orphaned, lost, unsaved>>
<1>1. ASSUME NEW l, Goto(p, l)
      PROVE  pc'[p] = l
  BY <1>1 DEF Goto, SubTypeOK
<1> USE DEF At
<1>2. CASE NettestStep(p)
  <2>1. CASE StartGroup(p)
    BY <1>1, <2>1 DEF StartGroup, Record, EndNettest, NextInput, credVars
  <2>2. CASE StartNettest(p)
    BY <1>1, <2>2 DEF StartNettest, Record, EndNettest, NextInput, credVars
  <2>3. CASE CleanUp(p)
    BY <1>1, <2>3 DEF CleanUp, Record, EndNettest, NextInput, credVars
  <2>4. CASE Finished(p)
    BY <1>1, <2>4 DEF Finished, Record, EndNettest, NextInput, credVars
  <2>5. CASE RunWithoutSubmitter(p)
    BY <1>1, <2>5 DEF RunWithoutSubmitter, Record, EndNettest, NextInput, credVars
  <2>6. CASE StopLoop(p)
    BY <1>1, <2>6 DEF StopLoop, Record, EndNettest, NextInput, credVars
  <2>7. CASE CreateMeasurement(p)
    BY <1>1, <2>7 DEF CreateMeasurement, Record, EndNettest, NextInput, credVars
  <2>8. CASE Measure(p)
    BY <1>1, <2>8 DEF Measure, Record, EndNettest, NextInput, credVars
  <2>9. CASE UploadSucceeded(p)
    BY <1>1, <2>9 DEF UploadSucceeded, Record, EndNettest, NextInput, credVars
  <2>10. CASE UploadFailed(p)
    BY <1>1, <2>10 DEF UploadFailed, Record, EndNettest, NextInput, credVars
  <2>11. CASE SaveMeasurement(p)
    BY <1>1, <2>11 DEF SaveMeasurement, Record, EndNettest, NextInput, credVars
  <2>12. CASE Done(p)
    BY <1>1, <2>12 DEF Done, Record, EndNettest, NextInput, credVars
  <2>13. CASE AddTestKeys(p)
    BY <1>1, <2>13 DEF AddTestKeys, Record, EndNettest, NextInput, credVars
  <2>14. CASE UpdateUploadedStatus(p)
    BY <1>1, <2>14 DEF UpdateUploadedStatus, Record, EndNettest, NextInput, credVars
  <2>15. QED
    BY <1>2, <2>1, <2>2, <2>3, <2>4, <2>5, <2>6, <2>7, <2>8, <2>9, <2>10, <2>11, <2>12, <2>13, <2>14 DEF NettestStep
<1>3. CASE RunStep(p)
  <2>1. CASE LoadCache(p)
    BY <1>1, <2>1 DEF LoadCache, EndExperiment, submitterVars
  <2>2. CASE PullChanges(p)
    BY <1>1, <2>2 DEF PullChanges, EndExperiment, submitterVars
  <2>3. CASE CompareDescriptors(p)
    BY <1>1, <2>3 DEF CompareDescriptors, EndExperiment, submitterVars
  <2>4. CASE UpdateCache(p)
    BY <1>1, <2>4 DEF UpdateCache, EndExperiment, submitterVars
  <2>5. CASE StartExperiment(p)
    BY <1>1, <2>5 DEF StartExperiment, EndExperiment, submitterVars
  <2>6. CASE NoSubmitter(p)
    BY <1>1, <2>6 DEF NoSubmitter, EndExperiment, submitterVars
  <2>7. CASE ProcessInput(p)
    BY <1>1, <2>7 DEF ProcessInput, EndExperiment, submitterVars
  <2>8. CASE AfterSubmission(p)
    BY <1>1, <2>8 DEF AfterSubmission, EndExperiment, submitterVars
  <2>9. CASE SaveToReport(p)
    BY <1>1, <2>9 DEF SaveToReport, EndExperiment, submitterVars
  <2>10. QED
    BY <1>3, <2>1, <2>2, <2>3, <2>4, <2>5, <2>6, <2>7, <2>8, <2>9 DEF RunStep
<1>4. QED
  BY <1>2, <1>3

\* A credential that is not in the store yet is known to its invocation only,
\* and the one in the store is only spent when its successor is on its way or a
\* fault has stopped it.
LEMMA CredentialsNext ==
    ASSUME SubTypeOK, Credentials, StoredCredentialFresh, [Next]_vars
    PROVE  Credentials' /\ StoredCredentialFresh'
<1>1. /\ pc \in [Procs -> Labels] /\ held \in [Procs -> Nat] /\ shown \in [Procs -> Nat]
      /\ store \in [cred : Nat, version : Nat] /\ minted \in Nat
      /\ store.cred \in Nat
  BY DEF SubTypeOK
<1>2. ASSUME UNCHANGED <<held, shown, store, minted, spent, orphaned>>,
             \A q \in Procs : /\ pc'[q] \in Giving => pc[q] \in Giving
                              /\ pc'[q] = "credpost" => pc[q] = "credpost"
                              /\ pc[q] = "rotate" => pc'[q] = "rotate"
      PROVE  Credentials' /\ StoredCredentialFresh'
  <2>1. Credentials'
    BY <1>2 DEF Credentials
  <2>2. StoredCredentialFresh'
    BY <1>2 DEF StoredCredentialFresh, At
  <2>3. QED
    BY <2>1, <2>2
<1>3. CASE Environment \/ UNCHANGED vars
  BY <1>2, <1>3, EnvironmentStays
<1>4. ASSUME NEW p \in Procs, NettestStep(p) \/ RunStep(p), Step(p)
      PROVE  Credentials' /\ StoredCredentialFresh'
  BY <1>2, <1>4, OthersStay, OutsideSubmission DEF Giving
<1>5. ASSUME NEW p \in Procs, NEW l, Goto(p, l)
      PROVE  pc'[p] = l /\ \A q \in Procs : q # p => pc'[q] = pc[q]
  BY <1>1, <1>5 DEF Goto
<1> USE DEF At, Giving
<1>6. ASSUME NEW p \in Procs, NoProbeServices(p) \/ PlainSubmitter(p) \/ GetManifest(p)
                              \/ ReuseCredential(p) \/ PlainSubmit(p)
      PROVE  Credentials' /\ StoredCredentialFresh'
  <2>1. UNCHANGED <<held, shown, store, minted, spent, orphaned>> /\ pc[p] # "rotate"
    BY <1>6 DEF NoProbeServices, PlainSubmitter, GetManifest, ReuseCredential, PlainSubmit
  <2>2. PICK l \in {"nosubmitter", "loop", "credential", "submitted", "notsubmitted"} : Goto(p, l)
    BY <1>6 DEF NoProbeServices, PlainSubmitter, GetManifest, ReuseCredential, PlainSubmit
  <2>3. QED
    BY <1>2, <1>5, <2>1, <2>2
<1>7. ASSUME NEW p \in Procs, Register(p)
      PROVE  Credentials' /\ StoredCredentialFresh'
  <2>1. CASE minted' = minted /\ held' = held /\ Goto(p, "loop")
    BY <1>2, <1>5, <1>7, <2>1 DEF Register
  <2>2. CASE minted' = minted + 1 /\ held' = [held EXCEPT ![p] = minted + 1] /\ Goto(p, "keep")
    <3>1. UNCHANGED <<shown, store, spent, orphaned>> /\ pc[p] = "credential"
      BY <1>7 DEF Register
    <3>2. /\ held'[p] = minted + 1
          /\ pc'[p] = "keep"
          /\ \A q \in Procs : q # p => held'[q] = held[q] /\ pc'[q] = pc[q] /\ held[q] <= minted
      BY <1>1, <1>5, <2>2 DEF Credentials
    <3>3. \A q \in Procs : held'[q] <= minted + 1
      BY <1>1, <3>2
    <3>4. \A c \in spent : c \in 1 .. minted /\ c \in 1 .. minted + 1
      BY <1>1 DEF Credentials
    <3>5. /\ minted + 1 \notin spent /\ minted + 1 # store.cred /\ store.cred <= minted + 1
          /\ minted + 1 # NoCredential
      BY <1>1, <3>4 DEF Credentials, NoCredential
    <3>6. \A q \in Procs : q # p => held[q] # minted + 1
      BY <1>1, <3>2
    <3>7. Credentials'
      BY <2>2, <3>1, <3>2, <3>3, <3>4, <3>5, <3>6 DEF Credentials
    <3>8. StoredCredentialFresh'
      BY <3>1, <3>2 DEF StoredCredentialFresh
    <3>9. QED
      BY <3>7, <3>8
  <2>3. QED
    BY <1>7, <2>1, <2>2 DEF Register
<1>8. ASSUME NEW p \in Procs, pc[p] \in Giving, pc'[p] \notin Giving \cup {"credpost"},
             \A q \in Procs : q # p => pc'[q] = pc[q],
             SetStore(p), UNCHANGED <<held, shown, minted, spent>>
      PROVE  Credentials' /\ StoredCredentialFresh'
  <2>1. store'.cred = held[p] /\ held[p] \notin spent /\ held[p] <= minted
    BY <1>8 DEF SetStore, Credentials
  <2>2. \A q \in Procs : pc'[q] \in Giving => q # p /\ pc[q] \in Giving /\ held[q] # held[p]
    BY <1>8 DEF Credentials
  <2>3. Credentials'
    BY <1>8, <2>1, <2>2 DEF Credentials
  <2>4. StoredCredentialFresh'
    BY <1>8, <2>1 DEF StoredCredentialFresh
  <2>5. QED
    BY <2>3, <2>4
<1>9. ASSUME NEW p \in Procs, pc'[p] \notin Giving \cup {"credpost"},
             \A q \in Procs : q # p => pc'[q] = pc[q],
             pc[p] \in Giving \/ store' = store, SetFails, UNCHANGED <<held, shown, minted, spent>>,
             orphaned' = IF pc[p] = "rotate" THEN orphaned \cup {shown[p]} ELSE orphaned
      PROVE  Credentials' /\ StoredCredentialFresh'
  <2>1. store'.cred = store.cred \/ store'.cred = NoCredential
    BY <1>9 DEF SetFails, Empty
  <2>2. NoCredential \notin spent /\ NoCredential <= minted
    BY <1>1 DEF NoCredential, Credentials
  <2>3. ASSUME store'.cred = store.cred
        PROVE  Credentials'
    BY <1>9, <2>3 DEF Credentials
  <2>4. ASSUME store'.cred = NoCredential
        PROVE  Credentials'
    BY <1>9, <2>2, <2>4 DEF Credentials
  <2>5. StoredCredentialFresh'
    <3>1. CASE store'.cred = NoCredential
      BY <1>9, <2>2, <3>1 DEF StoredCredentialFresh
    <3>2. CASE store'.cred = store.cred
      BY <1>9, <3>2 DEF StoredCredentialFresh
    <3>3. QED
      BY <2>1, <3>1, <3>2
  <2>6. QED
    BY <2>1, <2>3, <2>4, <2>5
<1>10. ASSUME NEW p \in Procs, KeepRegistered(p)
       PROVE  Credentials' /\ StoredCredentialFresh'
  <2>1. /\ pc[p] = "keep" /\ UNCHANGED <<held, shown, minted, spent, orphaned>>
        /\ SetStore(p) \/ SetFails
        /\ pc'[p] = "loop" /\ \A q \in Procs : q # p => pc'[q] = pc[q]
    BY <1>5, <1>10 DEF KeepRegistered
  <2>2. QED
    BY <1>8, <1>9, <2>1
<1>11. ASSUME NEW p \in Procs, StartSubmit(p)
       PROVE  Credentials' /\ StoredCredentialFresh'
  <2>1. pc[p] = "submit" /\ UNCHANGED <<shown, store, minted, spent, orphaned>>
    BY <1>11 DEF StartSubmit
  <2>2. CASE held' = held /\ Goto(p, "post")
    BY <1>2, <1>5, <2>1, <2>2
  <2>3. CASE /\ held' = [held EXCEPT ![p] = store.cred]
             /\ store.cred # NoCredential
             /\ Goto(p, "credpost") \/ Goto(p, "post")
    <3>1. /\ held'[p] = store.cred
          /\ pc'[p] \in {"credpost", "post"}
          /\ \A q \in Procs : q # p => held'[q] = held[q] /\ pc'[q] = pc[q]
      BY <1>1, <1>5, <2>3
    <3>2. Credentials'
      BY <2>1, <2>3, <3>1 DEF Credentials
    <3>3. StoredCredentialFresh'
      BY <2>1, <3>1 DEF StoredCredentialFresh
    <3>4. QED
      BY <3>2, <3>3
  <2>4. QED
    BY <1>11, <2>2, <2>3 DEF StartSubmit
<1>12. ASSUME NEW p \in Procs, SubmitWithCredential(p)
       PROVE  Credentials' /\ StoredCredentialFresh'
  <2>1. /\ pc[p] = "credpost" /\ minted' = minted + 1 /\ spent' = spent \cup {held[p]}
        /\ UNCHANGED <<store, orphaned>>
    BY <1>12 DEF SubmitWithCredential
  <2>2. /\ pc'[p] = "rotate" /\ held'[p] = minted + 1 /\ shown'[p] = held[p]
        /\ \A q \in Procs : q # p =>
             pc'[q] = pc[q] /\ held'[q] = held[q] /\ shown'[q] = shown[q] /\ held[q] <= minted
    BY <1>1, <1>5, <1>12 DEF SubmitWithCredential, Credentials
  <2>3. held[p] \in 1 .. minted
    BY <1>1, <2>1 DEF Credentials, NoCredential
  <2>4. \A c \in spent' : c \in 1 .. minted /\ c \in 1 .. minted'
    BY <1>1, <2>1, <2>3 DEF Credentials
  <2>5. /\ minted + 1 \notin spent' /\ minted + 1 # store.cred /\ store.cred <= minted'
        /\ minted + 1 # NoCredential /\ \A q \in Procs : held'[q] <= minted'
    BY <1>1, <2>1, <2>2, <2>4 DEF Credentials, NoCredential
  <2>6. \A q \in Procs : q # p => held[q] # minted + 1
    BY <1>1, <2>2
  <2>7. \A q \in Procs : q # p /\ pc[q] \in Giving => held[q] \notin spent'
    BY <2>1 DEF Credentials
  <2>8. Credentials'
    BY <2>1, <2>2, <2>4, <2>5, <2>6, <2>7 DEF Credentials
  <2>9. StoredCredentialFresh'
    BY <2>1, <2>2 DEF StoredCredentialFresh
  <2>10. QED
    BY <2>8, <2>9
<1>13. ASSUME NEW p \in Procs, CredentialRefused(p)
       PROVE  Credentials' /\ StoredCredentialFresh'
  <2>1. /\ pc[p] = "credpost" /\ UNCHANGED <<held, store, minted>>
        /\ pc'[p] = "post" /\ \A q \in Procs : q # p => pc'[q] = pc[q]
    BY <1>5, <1>13 DEF CredentialRefused
  <2>2. CASE UNCHANGED <<spent, orphaned, shown>>
    BY <1>2, <2>1, <2>2
  <2>3. CASE /\ shown' = [shown EXCEPT ![p] = held[p]]
             /\ spent' = spent \cup {held[p]} /\ orphaned' = orphaned \cup {held[p]}
    <3>1. held[p] \in 1 .. minted
      BY <1>1, <2>1 DEF Credentials, NoCredential
    <3>2. \A q \in Procs : q # p => shown'[q] = shown[q]
      BY <1>1, <2>3
    <3>3. Credentials'
      BY <2>1, <2>3, <3>1 DEF Credentials
    <3>4. StoredCredentialFresh'
      BY <2>1, <2>3, <3>2 DEF StoredCredentialFresh
    <3>5. QED
      BY <3>3, <3>4
  <2>4. QED
    BY <1>13, <2>2, <2>3 DEF CredentialRefused
<1>14. ASSUME NEW p \in Procs, RotateCredential(p)
       PROVE  Credentials' /\ StoredCredentialFresh'
  <2>1. /\ pc[p] = "rotate" /\ UNCHANGED <<held, shown, minted, spent>>
        /\ pc'[p] \in {"submitted", "post"} /\ \A q \in Procs : q # p => pc'[q] = pc[q]
        /\ SetStore(p) \/ (SetFails /\ orphaned' = orphaned \cup {shown[p]})
    BY <1>5, <1>14 DEF RotateCredential
  <2>2. QED
    BY <1>8, <1>9, <2>1
<1>15. ASSUME NEW p \in Procs, Crash(p)
       PROVE  Credentials' /\ StoredCredentialFresh'
  <2>1. /\ UNCHANGED <<held, shown, minted, spent>>
        /\ pc'[p] = "crashed" /\ \A q \in Procs : q # p => pc'[q] = pc[q]
        /\ orphaned' = IF pc[p] = "rotate" THEN orphaned \cup {shown[p]} ELSE orphaned
        /\ IF pc[p] \in Giving THEN SetFails ELSE store' = store
    BY <1>5, <1>15 DEF Crash, CrashSubmission
  <2>2. SetFails /\ (pc[p] \in Giving \/ store' = store)
    BY <2>1 DEF SetFails
  <2>3. QED
    BY <1>9, <2>1, <2>2
<1>16. QED
  BY <1>3, <1>4, <1>6, <1>7, <1>10, <1>11, <1>12, <1>13, <1>14, <1>15
  DEF Next, Step, SubmissionStep, AllHalted

-----------------------------------------------------------------------------
(* What the backend has.                                                   *)

\* The parts of a measurement.
LEMMA MeasurementParts ==
    ASSUME NEW m \in Measurements
    PROVE  /\ m[1] \in Procs /\ m[2] \in Nat /\ m[2] >= 1 /\ m[3] \in Nat /\ m[3] >= 1
           /\ m = <<m[1], m[2], m[3]>>
<1>1. PICK p \in Procs : \E t \in 1 .. Len(Inputs[p]) : \E i \in 1 .. Inputs[p][t] : m = <<p, t, i>>
  BY MeasurementsDef
<1>2. PICK t \in 1 .. Len(Inputs[p]) : \E i \in 1 .. Inputs[p][t] : m = <<p, t, i>>
  BY <1>1
<1>3. PICK i \in 1 .. Inputs[p][t] : m = <<p, t, i>>
  BY <1>2
<1>4. Len(Inputs[p]) \in Nat /\ Inputs[p][t] \in Nat
  BY InputsAssumption
<1>5. QED
  BY <1>3, <1>4

\* A measurement is of a nettest of the group and of an input of the nettest.
LEMMA MeasurementBound ==
    ASSUME NEW m \in Measurements
    PROVE  /\ m[2] <= Len(Inputs[m[1]])
           /\ Inputs[m[1]][m[2]] \in Nat /\ m[3] <= Inputs[m[1]][m[2]]
<1>1. PICK p \in Procs : \E t \in 1 .. Len(Inputs[p]) : \E i \in 1 .. Inputs[p][t] : m = <<p, t, i>>
  BY MeasurementsDef
<1>2. PICK t \in 1 .. Len(Inputs[p]) : \E i \in 1 .. Inputs[p][t] : m = <<p, t, i>>
  BY <1>1
<1>3. PICK i \in 1 .. Inputs[p][t] : m = <<p, t, i>>
  BY <1>2
<1>4. Len(Inputs[p]) \in Nat /\ Inputs[p][t] \in Nat
  BY InputsAssumption
<1>5. m[1] = p /\ m[2] = t /\ m[3] = i
  BY <1>3
<1>6. QED
  BY <1>4, <1>5

\* A step outside the submission goes on to a later input, or leaves the
\* invocation where it is without going back to an earlier phase.
LEMMA OutsideAdvances ==
    ASSUME SubTypeOK, NEW p \in Procs, Placed(p), NettestStep(p) \/ RunStep(p)
    PROVE  /\ pc'[p] # "submitted"
           /\ \/ cur'[p] = cur[p] /\ (pc'[p] \in Unsent => pc[p] \in Unsent)
              \/ cur'[p].t > cur[p].t
              \/ cur'[p].t = cur[p].t /\ cur'[p].i > cur[p].i
<1>1. ASSUME NEW l, Goto(p, l)
      PROVE  pc'[p] = l
  BY <1>1 DEF Goto, SubTypeOK
<1>2. /\ cur[p] \in [t : Nat, i : Nat] /\ cur[p].t \in Nat /\ cur[p].i \in Nat
  BY DEF SubTypeOK
<1>3. ASSUME cur' = [cur EXCEPT ![p] = [t |-> cur[p].t + 1, i |-> 1]]
      PROVE  cur'[p].t > cur[p].t
  BY <1>2, <1>3 DEF SubTypeOK
<1>4. ASSUME cur' = [cur EXCEPT ![p].i = @ + 1]
      PROVE  cur'[p].t = cur[p].t /\ cur'[p].i > cur[p].i
  BY <1>2, <1>4 DEF SubTypeOK
<1>5. ASSUME cur' = [cur EXCEPT ![p] = [t |-> 1, i |-> 1]], pc[p] = "start"
      PROVE  cur'[p].t > cur[p].t
  BY <1>2, <1>5 DEF SubTypeOK, Placed
<1> USE DEF At, Unsent
<1>6. CASE NettestStep(p)
  <2>1. CASE StartGroup(p)
    BY <1>1, <1>3, <1>4, <1>5, <2>1 DEF StartGroup, Record, EndNettest, NextInput
  <2>2. CASE StartNettest(p)
    BY <1>1, <1>3, <1>4, <1>5, <2>2 DEF StartNettest, Record, EndNettest, NextInput
  <2>3. CASE CleanUp(p)
    BY <1>1, <1>3, <1>4, <1>5, <2>3 DEF CleanUp, Record, EndNettest, NextInput
  <2>4. CASE Finished(p)
    BY <1>1, <1>3, <1>4, <1>5, <2>4 DEF Finished, Record, EndNettest, NextInput
  <2>5. CASE RunWithoutSubmitter(p)
    BY <1>1, <1>3, <1>4, <1>5, <2>5 DEF RunWithoutSubmitter, Record, EndNettest, NextInput
  <2>6. CASE StopLoop(p)
    BY <1>1, <1>3, <1>4, <1>5, <2>6 DEF StopLoop, Record, EndNettest, NextInput
  <2>7. CASE CreateMeasurement(p)
    BY <1>1, <1>3, <1>4, <1>5, <2>7 DEF CreateMeasurement, Record, EndNettest, NextInput
  <2>8. CASE Measure(p)
    BY <1>1, <1>3, <1>4, <1>5, <2>8 DEF Measure, Record, EndNettest, NextInput
  <2>9. CASE UploadSucceeded(p)
    BY <1>1, <1>3, <1>4, <1>5, <2>9 DEF UploadSucceeded, Record, EndNettest, NextInput
  <2>10. CASE UploadFailed(p)
    BY <1>1, <1>3, <1>4, <1>5, <2>10 DEF UploadFailed, Record, EndNettest, NextInput
  <2>11. CASE SaveMeasurement(p)
    BY <1>1, <1>3, <1>4, <1>5, <2>11 DEF SaveMeasurement, Record, EndNettest, NextInput
  <2>12. CASE Done(p)
    BY <1>1, <1>3, <1>4, <1>5, <2>12 DEF Done, Record, EndNettest, NextInput
  <2>13. CASE AddTestKeys(p)
    BY <1>1, <1>3, <1>4, <1>5, <2>13 DEF AddTestKeys, Record, EndNettest, NextInput
  <2>14. CASE UpdateUploadedStatus(p)
    BY <1>1, <1>3, <1>4, <1>5, <2>14 DEF UpdateUploadedStatus, Record, EndNettest, NextInput
  <2>15. QED
    BY <1>6, <2>1, <2>2, <2>3, <2>4, <2>5, <2>6, <2>7, <2>8, <2>9, <2>10, <2>11, <2>12, <2>13, <2>14 DEF NettestStep
<1>7. CASE RunStep(p)
  <2>1. CASE LoadCache(p)
    BY <1>1, <1>3, <1>4, <1>5, <2>1 DEF LoadCache, EndExperiment
  <2>2. CASE PullChanges(p)
    BY <1>1, <1>3, <1>4, <1>5, <2>2 DEF PullChanges, EndExperiment
  <2>3. CASE CompareDescriptors(p)
    BY <1>1, <1>3, <1>4, <1>5, <2>3 DEF CompareDescriptors, EndExperiment
  <2>4. CASE UpdateCache(p)
    BY <1>1, <1>3, <1>4, <1>5, <2>4 DEF UpdateCache, EndExperiment
  <2>5. CASE StartExperiment(p)
    BY <1>1, <1>3, <1>4, <1>5, <2>5 DEF StartExperiment, EndExperiment
  <2>6. CASE NoSubmitter(p)
    BY <1>1, <1>3, <1>4, <1>5, <2>6 DEF NoSubmitter, EndExperiment
  <2>7. CASE ProcessInput(p)
    BY <1>1, <1>3, <1>4, <1>5, <2>7 DEF ProcessInput, EndExperiment
  <2>8. CASE AfterSubmission(p)
    BY <1>1, <1>3, <1>4, <1>5, <2>8 DEF AfterSubmission, EndExperiment
  <2>9. CASE SaveToReport(p)
    BY <1>1, <1>3, <1>4, <1>5, <2>9 DEF SaveToReport, EndExperiment
  <2>10. QED
    BY <1>7, <2>1, <2>2, <2>3, <2>4, <2>5, <2>6, <2>7, <2>8, <2>9 DEF RunStep
<1>8. QED
  BY <1>6, <1>7

\* The backend gets nothing of the measurements to come, and of the current one
\* only what the invocation has submitted.
LEMMA ReceivedNext ==
    ASSUME SubTypeOK, Place, Received, DuplicatesExplained, [Next]_vars
    PROVE  Received' /\ DuplicatesExplained'
<1>1. /\ pc \in [Procs -> Labels] /\ cur \in [Procs -> [t : Nat, i : Nat]]
      /\ received \in [Measurements -> [plain : Nat, cred : Nat]]
      /\ \A q \in Procs : cur[q].t \in Nat /\ cur[q].i \in Nat
  BY DEF SubTypeOK
<1>2. ASSUME NEW m \in Measurements, received'[m] = received[m], m \in Resent => m \in Resent'
      PROVE  /\ received'[m].plain <= 1
             /\ received'[m].cred <= 1
             /\ received'[m].plain = 1 /\ received'[m].cred = 1 => m \in Resent'
  BY <1>2 DEF DuplicatesExplained
<1>3. ASSUME NEW m \in Measurements, received'[m] = received[m], m \in Resent => m \in Resent',
             cur'[m[1]] = cur[m[1]],
             \/ pc'[m[1]] = pc[m[1]]
             \/ /\ pc'[m[1]] \in Unsent \cup {"post"} => pc[m[1]] \in Unsent
                /\ pc'[m[1]] \notin {"rotate", "submitted"}
      PROVE  ReceivedOf(m)'
  <2>1. ReceivedOf(m) /\ Later(m)' = Later(m) /\ Here(m[1])' = Here(m[1])
    BY <1>3 DEF Received, Later, Here
  <2>2. Nothing.plain = 0 /\ Nothing.cred = 0
    BY DEF Nothing
  <2>3. "post" \notin Unsent
    BY DEF Unsent
  <2>4. QED
    BY <1>3, <2>1, <2>2, <2>3 DEF ReceivedOf, Nothing
<1>4. ASSUME NEW m \in Measurements, received'[m] = received[m],
             cur' \in [Procs -> [t : Nat, i : Nat]],
             \/ cur'[m[1]].t > cur[m[1]].t
             \/ cur'[m[1]].t = cur[m[1]].t /\ cur'[m[1]].i > cur[m[1]].i,
             pc'[m[1]] \notin {"rotate", "post", "submitted"}
      PROVE  ReceivedOf(m)'
  <2>1. /\ m[1] \in Procs /\ m[2] \in Nat /\ m[3] \in Nat
        /\ cur[m[1]].t \in Nat /\ cur[m[1]].i \in Nat
        /\ cur'[m[1]].t \in Nat /\ cur'[m[1]].i \in Nat
    BY <1>1, <1>4, MeasurementParts
  <2>2. Later(m)' => Later(m)
    BY <1>4, <2>1 DEF Later
  <2>3. Here(m[1])' = m => Later(m)
    BY <1>4, <2>1 DEF Here, Later
  <2>4. Later(m) => received'[m] = Nothing
    BY <1>4 DEF Received, ReceivedOf
  <2>5. QED
    BY <1>4, <2>2, <2>3, <2>4 DEF ReceivedOf, Nothing
<1>5. CASE Environment \/ UNCHANGED vars
  BY <1>2, <1>3, <1>5, EnvironmentStays DEF Received, DuplicatesExplained, Resent
<1>6. ASSUME NEW p \in Procs, NettestStep(p) \/ RunStep(p), Step(p)
      PROVE  Received' /\ DuplicatesExplained'
  <2>1. received' = received /\ Resent' = Resent
    BY <1>6, OutsideSubmission DEF Resent
  <2>2. cur' \in [Procs -> [t : Nat, i : Nat]]
    BY <1>1, <1>6, NettestMoves, RunMoves
  <2>3. ASSUME NEW m \in Measurements
        PROVE  ReceivedOf(m)'
    <3>1. m[1] \in Procs
      BY MeasurementParts
    <3>2. CASE m[1] # p
      BY <1>3, <1>6, <2>1, <3>1, <3>2, OthersStay
    <3>3. CASE m[1] = p
      <4>1. Placed(p)
        BY DEF Place
      <4>2. pc'[p] \notin {"rotate", "post", "submitted"}
        BY <1>6, <4>1, OutsideSubmission, OutsideAdvances
      <4>3. \/ cur'[p] = cur[p] /\ (pc'[p] \in Unsent => pc[p] \in Unsent)
            \/ cur'[p].t > cur[p].t
            \/ cur'[p].t = cur[p].t /\ cur'[p].i > cur[p].i
        BY <1>6, <4>1, OutsideAdvances
      <4>4. QED
        BY <1>3, <1>4, <2>1, <2>2, <3>3, <4>2, <4>3
    <3>4. QED
      BY <3>2, <3>3
  <2>4. QED
    BY <1>2, <2>1, <2>3 DEF Received, DuplicatesExplained
<1>7. ASSUME NEW p \in Procs, cur' = cur, received' = received, Resent \subseteq Resent',
             \A q \in Procs : q # p => pc'[q] = pc[q],
             \A m \in Measurements : Here(p) = m => ReceivedOf(m)'
      PROVE  Received' /\ DuplicatesExplained'
  <2>1. ASSUME NEW m \in Measurements
        PROVE  ReceivedOf(m)'
    <3>1. m[1] \in Procs /\ ReceivedOf(m)
      BY MeasurementParts DEF Received
    <3>2. CASE m[1] # p
      BY <1>3, <1>7, <3>1, <3>2
    <3>3. CASE m[1] = p /\ Here(p) # m
      <4>1. Later(m)' = Later(m) /\ Here(m[1])' # m
        BY <1>7, <3>3 DEF Later, Here
      <4>2. QED
        BY <1>7, <3>1, <4>1 DEF ReceivedOf
    <3>4. QED
      BY <1>7, <3>2, <3>3
  <2>2. QED
    BY <1>2, <1>7, <2>1 DEF Received, DuplicatesExplained
<1>8. ASSUME NEW p \in Procs, NEW path \in {"plain", "cred"}, Accept(Here(p), path),
             pc[p] \in InMeasurement, cur' = cur, Resent \subseteq Resent',
             \A q \in Procs : q # p => pc'[q] = pc[q],
             ReceivedOf(Here(p))',
             /\ received'[Here(p)].plain <= 1
             /\ received'[Here(p)].cred <= 1
             /\ received'[Here(p)].plain = 1 /\ received'[Here(p)].cred = 1 => Here(p) \in Resent'
      PROVE  Received' /\ DuplicatesExplained'
  <2>1. Here(p) \in Measurements /\ Here(p)' = Here(p)
    BY <1>8, HereIsMeasurement DEF Here
  <2>2. \A m \in Measurements : m # Here(p) => received'[m] = received[m]
    BY <1>1, <1>8, <2>1, Accepting
  <2>3. ASSUME NEW m \in Measurements, m # Here(p)
        PROVE  ReceivedOf(m)'
    <3>1. m[1] \in Procs /\ ReceivedOf(m)
      BY MeasurementParts DEF Received
    <3>2. CASE m[1] # p
      BY <1>3, <1>8, <2>2, <2>3, <3>1, <3>2
    <3>3. CASE m[1] = p
      <4>1. Later(m)' = Later(m) /\ Here(m[1])' # m
        BY <1>8, <2>3, <3>3 DEF Later, Here
      <4>2. QED
        BY <2>2, <2>3, <3>1, <4>1 DEF ReceivedOf
    <3>4. QED
      BY <3>2, <3>3
  <2>4. Received'
    <3>1. ASSUME NEW m \in Measurements
          PROVE  ReceivedOf(m)'
      <4>1. CASE m = Here(p)
        BY <1>8, <2>1, <4>1 DEF ReceivedOf, Later
      <4>2. QED
        BY <2>3, <4>1
    <3>2. QED
      BY <3>1 DEF Received
  <2>5. DuplicatesExplained'
    BY <1>2, <1>8, <2>2 DEF DuplicatesExplained
  <2>6. QED
    BY <2>4, <2>5
<1>9. ASSUME NEW p \in Procs, cur' = cur, received' = received, Resent \subseteq Resent',
             \A q \in Procs : q # p => pc'[q] = pc[q],
             pc'[p] \in Unsent \cup {"post"} => pc[p] \in Unsent,
             pc'[p] \notin {"rotate", "submitted"}
      PROVE  Received' /\ DuplicatesExplained'
  <2>1. ASSUME NEW m \in Measurements
        PROVE  ReceivedOf(m)'
    <3>1. m[1] \in Procs
      BY MeasurementParts
    <3>2. QED
      BY <1>3, <1>9, <3>1
  <2>2. QED
    BY <1>2, <1>9, <2>1 DEF Received, DuplicatesExplained
<1>10. ASSUME NEW p \in Procs, NEW l, Goto(p, l)
       PROVE  pc'[p] = l /\ \A q \in Procs : q # p => pc'[q] = pc[q]
  BY <1>1, <1>10 DEF Goto
<1> USE DEF At
<1>11. ASSUME NEW p \in Procs, NoProbeServices(p) \/ PlainSubmitter(p) \/ GetManifest(p)
                               \/ ReuseCredential(p) \/ Register(p) \/ KeepRegistered(p)
                               \/ StartSubmit(p)
       PROVE  Received' /\ DuplicatesExplained'
  <2>1. /\ UNCHANGED <<cur, received, Resent>>
        /\ pc[p] \in {"submitter", "credential", "keep", "submit"}
    BY <1>11 DEF NoProbeServices, PlainSubmitter, GetManifest, ReuseCredential, Register,
       KeepRegistered, StartSubmit, Resent
  <2>2. PICK l \in {"nosubmitter", "loop", "credential", "keep", "post", "credpost"} : Goto(p, l)
    BY <1>11 DEF NoProbeServices, PlainSubmitter, GetManifest, ReuseCredential, Register,
       KeepRegistered, StartSubmit
  <2>3. QED
    BY <1>9, <1>10, <2>1, <2>2 DEF Unsent
<1>12. ASSUME NEW p \in Procs, Crash(p)
       PROVE  Received' /\ DuplicatesExplained'
  <2>1. UNCHANGED <<cur, received>> /\ Resent \subseteq Resent' /\ Goto(p, "crashed")
    BY <1>12 DEF Crash, CrashSubmission, Resent
  <2>2. QED
    BY <1>9, <1>10, <2>1 DEF Unsent
<1>13. ASSUME NEW p \in Procs, pc[p] \in {"credpost", "rotate", "post"}
       PROVE  /\ Here(p) \in Measurements /\ Here(p)[1] = p
              /\ ReceivedOf(Here(p)) /\ ~ Later(Here(p))
              /\ received[Here(p)].plain \in Nat /\ received[Here(p)].cred \in Nat
              /\ received[Here(p)].plain <= 1 /\ received[Here(p)].cred <= 1
  <2>1. Here(p) \in Measurements
    BY <1>13, HereIsMeasurement DEF InMeasurement
  <2>2. ~ Later(Here(p)) /\ Here(p)[1] = p
    BY <1>1 DEF Later, Here
  <2>3. received[Here(p)] \in [plain : Nat, cred : Nat]
    BY <1>1, <2>1
  <2>4. QED
    BY <2>1, <2>2, <2>3 DEF Received, DuplicatesExplained
<1>14. ASSUME NEW p \in Procs, NEW path \in {"plain", "cred"}, Accept(Here(p), path),
              pc[p] = (IF path = "plain" THEN "post" ELSE "credpost"),
              cur' = cur, Resent \subseteq Resent',
              \A q \in Procs : q # p => pc'[q] = pc[q],
              path = "plain" => pc'[p] \in {"submitted", "notsubmitted"},
              path = "cred" => pc'[p] = "rotate" \/ (pc'[p] = "post" /\ Here(p) \in Resent')
       PROVE  Received' /\ DuplicatesExplained'
  <2>0. PICK m : m = Here(p)
    OBVIOUS
  <2>1. /\ m \in Measurements /\ m[1] = p
        /\ ReceivedOf(m) /\ ~ Later(m)
        /\ received[m].plain \in Nat /\ received[m].cred \in Nat
        /\ received[m].plain <= 1 /\ received[m].cred <= 1
    BY <1>13, <1>14, <2>0
  <2>2. Later(m)' = Later(m) /\ Here(p)' = m
    BY <1>14, <2>0 DEF Later, Here
  <2>3. /\ received'[m].plain = received[m].plain + (IF path = "plain" THEN 1 ELSE 0)
        /\ received'[m].cred = received[m].cred + (IF path = "cred" THEN 1 ELSE 0)
    BY <1>1, <1>14, <2>0, <2>1, Accepting
  <2>4. received[m].plain = 0
    BY <1>14, <2>0, <2>1 DEF ReceivedOf, Unsent, Nothing
  <2>5. path = "cred" => received[m].cred = 0
    BY <1>14, <2>0, <2>1 DEF ReceivedOf, Unsent, Nothing
  <2>6. path = "plain" => received[m].cred = 0 \/ m \in Resent
    BY <1>14, <2>0, <2>1 DEF ReceivedOf
  <2>7. ReceivedOf(m)'
    <3>1. CASE path = "plain"
      BY <1>14, <2>1, <2>2, <2>3, <3>1 DEF ReceivedOf, Unsent
    <3>2. CASE path = "cred"
      BY <1>14, <2>1, <2>2, <2>3, <2>4, <2>5, <2>0, <3>2 DEF ReceivedOf, Unsent
    <3>3. QED
      BY <3>1, <3>2
  <2>8. /\ received'[m].plain <= 1
        /\ received'[m].cred <= 1
        /\ received'[m].plain = 1 /\ received'[m].cred = 1 => m \in Resent'
    BY <1>14, <2>0, <2>1, <2>3, <2>4, <2>5, <2>6
  <2>9. pc[p] \in InMeasurement
    BY <1>14 DEF InMeasurement
  <2>10. ReceivedOf(Here(p))'
    BY <1>14, <2>0, <2>2, <2>7 DEF ReceivedOf, Later, Here
  <2>11. QED
    BY <1>8, <1>14, <2>0, <2>8, <2>9, <2>10
<1>15. ASSUME NEW p \in Procs, SubmitWithCredential(p)
       PROVE  Received' /\ DuplicatesExplained'
  <2>1. /\ Accept(Here(p), "cred") /\ pc[p] = "credpost" /\ cur' = cur /\ Resent' = Resent
        /\ Goto(p, "rotate")
    BY <1>15 DEF SubmitWithCredential, Resent
  <2>2. QED
    BY <1>10, <1>14, <2>1
<1>16. ASSUME NEW p \in Procs, CredentialRefused(p)
       PROVE  Received' /\ DuplicatesExplained'
  <2>1. pc[p] = "credpost" /\ cur' = cur /\ Goto(p, "post")
    BY <1>16 DEF CredentialRefused
  <2>2. CASE UNCHANGED <<received, Resent>>
    BY <1>9, <1>10, <2>1, <2>2 DEF Unsent
  <2>3. CASE Accept(Here(p), "cred") /\ Resent' = Resent \cup {Here(p)}
    BY <1>10, <1>14, <2>1, <2>3
  <2>4. QED
    BY <1>16, <2>2, <2>3 DEF CredentialRefused, Resent
<1>17. ASSUME NEW p \in Procs, PlainSubmit(p)
       PROVE  Received' /\ DuplicatesExplained'
  <2>1. pc[p] = "post" /\ UNCHANGED <<cur, Resent>>
    BY <1>17 DEF PlainSubmit, Resent
  <2>2. CASE received' = received /\ Goto(p, "notsubmitted")
    BY <1>9, <1>10, <2>1, <2>2 DEF Unsent
  <2>3. CASE Accept(Here(p), "plain") /\ (Goto(p, "submitted") \/ Goto(p, "notsubmitted"))
    BY <1>10, <1>14, <2>1, <2>3
  <2>4. QED
    BY <1>17, <2>2, <2>3 DEF PlainSubmit
<1>18. ASSUME NEW p \in Procs, RotateCredential(p)
       PROVE  Received' /\ DuplicatesExplained'
  <2>0. PICK m : m = Here(p)
    OBVIOUS
  <2>1. pc[p] = "rotate" /\ UNCHANGED <<cur, received>> /\ Resent \subseteq Resent'
    BY <1>18 DEF RotateCredential, Resent
  <2>2. /\ pc'[p] = "submitted" \/ (pc'[p] = "post" /\ m \in Resent')
        /\ \A q \in Procs : q # p => pc'[q] = pc[q]
    BY <1>10, <1>18, <2>0 DEF RotateCredential, Resent
  <2>3. /\ m \in Measurements /\ m[1] = p
        /\ ReceivedOf(m) /\ ~ Later(m)
        /\ received[m].plain \in Nat /\ received[m].cred \in Nat
    BY <1>13, <2>0, <2>1
  <2>4. received[m].plain = 0 /\ received[m].cred > 0
    BY <2>0, <2>1, <2>3 DEF ReceivedOf
  <2>5. Later(m)' = Later(m) /\ Here(p)' = m
    BY <2>0, <2>1 DEF Later, Here
  <2>6. ReceivedOf(m)'
    <3>1. QED
      BY <2>1, <2>2, <2>3, <2>4, <2>5 DEF ReceivedOf, Unsent
  <2>7. \A n \in Measurements : Here(p) = n => ReceivedOf(n)'
    BY <2>0, <2>1, <2>5, <2>6 DEF ReceivedOf, Later, Here
  <2>8. QED
    BY <1>7, <2>1, <2>2, <2>7
<1>19. QED
  BY <1>5, <1>6, <1>11, <1>12, <1>15, <1>16, <1>17, <1>18
  DEF Next, Step, SubmissionStep, AllHalted

-----------------------------------------------------------------------------
(* The database and the files.                                             *)

\* A nettest adds a row for its current measurement and then fills it in.
LEMMA RowSteps ==
    ASSUME SubTypeOK, NEW p \in Procs, NettestStep(p)
    PROVE  \/ rows' = rows
           \/ /\ pc[p] = "loop" /\ pc'[p] = "measure" /\ cur' = cur /\ HasResult(p)
              /\ cur[p].i <= Inputs[p][cur[p].t]
              /\ rows' = Insert(rows, Here(p), NewRow)
           \/ pc[p] = "measure" /\ pc'[p] = "loop" /\ Set(Here(p), "failed")
           \/ pc[p] = "submitted" /\ pc'[p] = "done" /\ cur' = cur /\ Set(Here(p), "uploaded")
           \/ pc[p] = "done" /\ pc'[p] = "keys" /\ cur' = cur /\ Set(Here(p), "done")
           \/ pc[p] = "keys" /\ pc'[p] = "loop" /\ Set(Here(p), "keys")
<1>0. ASSUME NEW l, Goto(p, l)
      PROVE  pc'[p] = l
  BY <1>0 DEF Goto, SubTypeOK
<1> USE DEF At
<1>1. CASE StartGroup(p)
  BY <1>0, <1>1 DEF StartGroup, Record, EndNettest, NextInput, ntVars
<1>2. CASE StartNettest(p)
  BY <1>0, <1>2 DEF StartNettest, Record, EndNettest, NextInput, ntVars
<1>3. CASE CleanUp(p)
  BY <1>0, <1>3 DEF CleanUp, Record, EndNettest, NextInput, ntVars
<1>4. CASE Finished(p)
  BY <1>0, <1>4 DEF Finished, Record, EndNettest, NextInput, ntVars
<1>5. CASE RunWithoutSubmitter(p)
  BY <1>0, <1>5 DEF RunWithoutSubmitter, Record, EndNettest, NextInput, ntVars
<1>6. CASE StopLoop(p)
  BY <1>0, <1>6 DEF StopLoop, Record, EndNettest, NextInput, ntVars
<1>7. CASE CreateMeasurement(p)
  BY <1>0, <1>7 DEF CreateMeasurement, Record, EndNettest, NextInput, ntVars
<1>8. CASE Measure(p)
  BY <1>0, <1>8 DEF Measure, Record, EndNettest, NextInput, ntVars
<1>9. CASE UploadSucceeded(p)
  BY <1>0, <1>9 DEF UploadSucceeded, Record, EndNettest, NextInput, ntVars
<1>10. CASE UploadFailed(p)
  BY <1>0, <1>10 DEF UploadFailed, Record, EndNettest, NextInput, ntVars
<1>11. CASE SaveMeasurement(p)
  BY <1>0, <1>11 DEF SaveMeasurement, Record, EndNettest, NextInput, ntVars
<1>12. CASE Done(p)
  BY <1>0, <1>12 DEF Done, Record, EndNettest, NextInput, ntVars
<1>13. CASE AddTestKeys(p)
  BY <1>0, <1>13 DEF AddTestKeys, Record, EndNettest, NextInput, ntVars
<1>14. CASE UpdateUploadedStatus(p)
  BY <1>0, <1>14 DEF UpdateUploadedStatus, Record, EndNettest, NextInput, ntVars
<1>15. QED
  BY <1>1, <1>2, <1>3, <1>4, <1>5, <1>6, <1>7, <1>8, <1>9, <1>10, <1>11, <1>12, <1>13, <1>14 DEF NettestStep

\* One more thing is known of the current measurement
Filled(p, field) ==
    LET old == rows[Here(p)]
        new == rows'[Here(p)] IN
    /\ new.done = (old.done \/ field = "done")
    /\ new.failed = (old.failed \/ field = "failed")
    /\ new.uploaded = (old.uploaded \/ field = "uploaded")
    /\ new.keys = (old.keys \/ field = "keys")

\* The rows after the step of a nettest.
LEMMA RowsAfter ==
    ASSUME SubTypeOK, NtTypeOK, Place, NEW p \in Procs, NettestStep(p)
    PROVE  /\ DOMAIN rows \subseteq DOMAIN rows'
           /\ DOMAIN rows' \subseteq DOMAIN rows \cup {Here(p)}
           /\ \A m \in DOMAIN rows : m # Here(p) => rows'[m] = rows[m]
           /\ Here(p) \in DOMAIN rows' \ DOMAIN rows =>
                /\ HasResult(p) /\ pc[p] = "loop" /\ pc'[p] = "measure" /\ cur' = cur
                /\ Here(p) \in Measurements
                /\ rows'[Here(p)] = NewRow
           /\ Here(p) \in DOMAIN rows =>
                \/ rows'[Here(p)] = rows[Here(p)]
                \/ pc[p] = "measure" /\ pc'[p] = "loop" /\ Filled(p, "failed")
                \/ pc[p] = "submitted" /\ pc'[p] = "done" /\ cur' = cur /\ Filled(p, "uploaded")
                \/ pc[p] = "done" /\ pc'[p] = "keys" /\ cur' = cur /\ Filled(p, "done")
                \/ pc[p] = "keys" /\ pc'[p] = "loop" /\ Filled(p, "keys")
<1>1. CASE rows' = rows
  BY <1>1
<1>2. CASE /\ pc[p] = "loop" /\ pc'[p] = "measure" /\ cur' = cur /\ HasResult(p)
           /\ cur[p].i <= Inputs[p][cur[p].t]
           /\ rows' = Insert(rows, Here(p), NewRow)
  <2>1. cur[p].t \in 1 .. Len(Inputs[p]) /\ cur[p].i \in Nat /\ cur[p].i >= 1
    BY <1>2, InputsAssumption DEF Place, Placed, InNettest, SubTypeOK
  <2>2. cur[p].i \in 1 .. Inputs[p][cur[p].t]
    BY <1>2, <2>1, InputsAssumption
  <2>3. Here(p) \in Measurements
    BY <2>1, <2>2, MeasurementsDef DEF Here
  <2>4. /\ DOMAIN Insert(rows, Here(p), NewRow) = DOMAIN rows \cup {Here(p)}
        /\ \A k \in DOMAIN rows : Insert(rows, Here(p), NewRow)[k] = rows[k]
        /\ Here(p) \notin DOMAIN rows => Insert(rows, Here(p), NewRow)[Here(p)] = NewRow
    BY Inserting
  <2>5. /\ DOMAIN rows' = DOMAIN rows \cup {Here(p)}
        /\ \A k \in DOMAIN rows : rows'[k] = rows[k]
        /\ Here(p) \notin DOMAIN rows => rows'[Here(p)] = NewRow
    BY <1>2, <2>4
  <2>6. QED
    BY <1>2, <2>3, <2>5
<1>3. ASSUME NEW f \in {"done", "failed", "uploaded", "keys"}, Set(Here(p), f)
      PROVE  /\ DOMAIN rows' = DOMAIN rows
             /\ \A m \in DOMAIN rows : m # Here(p) => rows'[m] = rows[m]
             /\ Here(p) \in DOMAIN rows => Filled(p, f)
  BY <1>3, Setting DEF NtTypeOK, Filled
<1>4. QED
  BY <1>1, <1>2, <1>3, RowSteps

\* The files and the directory after the step of a nettest.
LEMMA FilesAfter ==
    ASSUME SubTypeOK, NtTypeOK, NEW p \in Procs, NettestStep(p)
    PROVE  /\ removing' = removing
           /\ \/ files' = files
              \/ files' = files \cup {Here(p)} /\ dir[p]
           /\ \A q \in Procs : q # p => dir'[q] = dir[q]
           /\ dir'[p] => dir[p] \/ pc[p] = "start" \/ \E m \in files : m[1] = p
           /\ pc'[p] = "done" =>
                cur' = cur /\ (Set(Here(p), "uploaded") \/ Here(p) \in files')
<1>0. ASSUME NEW l, Goto(p, l)
      PROVE  pc'[p] = l
  BY <1>0 DEF Goto, SubTypeOK
<1> USE DEF At, NtTypeOK
<1>1. CASE StartGroup(p)
  BY <1>0, <1>1 DEF StartGroup, Record, EndNettest, NextInput, ntVars
<1>2. CASE StartNettest(p)
  BY <1>0, <1>2 DEF StartNettest, Record, EndNettest, NextInput, ntVars
<1>3. CASE CleanUp(p)
  BY <1>0, <1>3 DEF CleanUp, Record, EndNettest, NextInput, ntVars
<1>4. CASE Finished(p)
  BY <1>0, <1>4 DEF Finished, Record, EndNettest, NextInput, ntVars
<1>5. CASE RunWithoutSubmitter(p)
  BY <1>0, <1>5 DEF RunWithoutSubmitter, Record, EndNettest, NextInput, ntVars
<1>6. CASE StopLoop(p)
  BY <1>0, <1>6 DEF StopLoop, Record, EndNettest, NextInput, ntVars
<1>7. CASE CreateMeasurement(p)
  BY <1>0, <1>7 DEF CreateMeasurement, Record, EndNettest, NextInput, ntVars
<1>8. CASE Measure(p)
  BY <1>0, <1>8 DEF Measure, Record, EndNettest, NextInput, ntVars
<1>9. CASE UploadSucceeded(p)
  BY <1>0, <1>9 DEF UploadSucceeded, Record, EndNettest, NextInput, ntVars
<1>10. CASE UploadFailed(p)
  BY <1>0, <1>10 DEF UploadFailed, Record, EndNettest, NextInput, ntVars
<1>11. CASE SaveMeasurement(p)
  BY <1>0, <1>11 DEF SaveMeasurement, Record, EndNettest, NextInput, ntVars
<1>12. CASE Done(p)
  BY <1>0, <1>12 DEF Done, Record, EndNettest, NextInput, ntVars
<1>13. CASE AddTestKeys(p)
  BY <1>0, <1>13 DEF AddTestKeys, Record, EndNettest, NextInput, ntVars
<1>14. CASE UpdateUploadedStatus(p)
  BY <1>0, <1>14 DEF UpdateUploadedStatus, Record, EndNettest, NextInput, ntVars
<1>15. QED
  BY <1>1, <1>2, <1>3, <1>4, <1>5, <1>6, <1>7, <1>8, <1>9, <1>10, <1>11, <1>12, <1>13, <1>14 DEF NettestStep

\* The result after the step of a nettest.
LEMMA ResultAfter ==
    ASSUME SubTypeOK, NtTypeOK, NEW p \in Procs, NettestStep(p)
    PROVE  /\ \A q : q # p => (q \in DOMAIN result' <=> q \in DOMAIN result)
           /\ \A q \in DOMAIN result : q # p => result'[q] = result[q]
           /\ p \in DOMAIN result' => p \in DOMAIN result \/ pc[p] = "start"
           /\ \/ pc[p] = "start"
              \/ result' = result /\ pc[p] # "ended"
              \/ p \in DOMAIN result /\ ~ result'[p].done
              \/ /\ p \in DOMAIN result /\ pc[p] = "finished" /\ pc'[p] = "ended"
                 /\ rows' = rows
<1>0. ASSUME NEW l, Goto(p, l)
      PROVE  pc'[p] = l
  BY <1>0 DEF Goto, SubTypeOK
<1> USE DEF At
<1>16. ASSUME NEW r, UpdateResult(p, r)
       PROVE  /\ DOMAIN result' = DOMAIN result
              /\ \A q \in DOMAIN result : q # p => result'[q] = result[q]
              /\ result' = result \/ (p \in DOMAIN result /\ result'[p] = r)
  BY <1>16 DEF UpdateResult, HasResult, NtTypeOK
<1>17. /\ DOMAIN Insert(result, p, [uploaded |-> FALSE, done |-> FALSE]) = DOMAIN result \cup {p}
       /\ \A q \in DOMAIN result :
            Insert(result, p, [uploaded |-> FALSE, done |-> FALSE])[q] = result[q]
  BY DEF Insert
<1>1. CASE StartGroup(p)
  BY <1>0, <1>1, <1>17 DEF StartGroup
<1>2. CASE StartNettest(p)
  BY <1>0, <1>2 DEF StartNettest, Record, EndNettest, NextInput, ntVars
<1>3. CASE CleanUp(p)
  BY <1>0, <1>3 DEF CleanUp, Record, EndNettest, NextInput, ntVars
<1>4. CASE Finished(p)
  BY <1>0, <1>4, <1>16 DEF Finished
<1>5. CASE RunWithoutSubmitter(p)
  BY <1>0, <1>5 DEF RunWithoutSubmitter, Record, EndNettest, NextInput, ntVars
<1>6. CASE StopLoop(p)
  BY <1>0, <1>6 DEF StopLoop, Record, EndNettest, NextInput, ntVars
<1>7. CASE CreateMeasurement(p)
  BY <1>0, <1>7 DEF CreateMeasurement, Record, EndNettest, NextInput, ntVars
<1>8. CASE Measure(p)
  BY <1>0, <1>8 DEF Measure, Record, EndNettest, NextInput, ntVars
<1>9. CASE UploadSucceeded(p)
  BY <1>0, <1>9 DEF UploadSucceeded, Record, EndNettest, NextInput, ntVars
<1>10. CASE UploadFailed(p)
  BY <1>0, <1>10 DEF UploadFailed, Record, EndNettest, NextInput, ntVars
<1>11. CASE SaveMeasurement(p)
  BY <1>0, <1>11 DEF SaveMeasurement, Record, EndNettest, NextInput, ntVars
<1>12. CASE Done(p)
  BY <1>0, <1>12 DEF Done, Record, EndNettest, NextInput, ntVars
<1>13. CASE AddTestKeys(p)
  BY <1>0, <1>13 DEF AddTestKeys, Record, EndNettest, NextInput, ntVars
<1>14. CASE UpdateUploadedStatus(p)
  <2>1. pc[p] = "status"
    BY <1>14 DEF UpdateUploadedStatus
  <2>2. \/ result' = result
        \/ \E b : UpdateResult(p, [uploaded |-> b, done |-> FALSE])
    BY <1>14 DEF UpdateUploadedStatus
  <2>3. ASSUME NEW b, UpdateResult(p, [uploaded |-> b, done |-> FALSE])
        PROVE  /\ DOMAIN result' = DOMAIN result
               /\ \A q \in DOMAIN result : q # p => result'[q] = result[q]
               /\ result' = result \/ (p \in DOMAIN result /\ ~ result'[p].done)
    <3> DEFINE r == [uploaded |-> b, done |-> FALSE]
    <3>1. ~ r.done
      OBVIOUS
    <3>2. UpdateResult(p, r)
      BY <2>3
    <3> HIDE DEF r
    <3>3. QED
      BY <1>16, <3>1, <3>2
  <2>4. QED
    BY <2>1, <2>2, <2>3
<1>18. QED
  BY <1>1, <1>2, <1>3, <1>4, <1>5, <1>6, <1>7, <1>8, <1>9, <1>10, <1>11, <1>12, <1>13, <1>14 DEF NettestStep

\* The books in memory after the step of a nettest.
LEMMA MemoryAfter ==
    ASSUME SubTypeOK, NtTypeOK, NEW p \in Procs, NettestStep(p)
    PROVE  /\ \A q \in Procs : q # p => failed'[q] = failed[q]
           /\ failed[p] \subseteq failed'[p]
           /\ pc'[p] # "start"
           /\ pc'[p] = "keys" => pc[p] = "done" /\ cur' = cur /\ Set(Here(p), "done")
           /\ pc'[p] \in InMeasurement =>
                \/ pc[p] = "loop" /\ pc'[p] = "measure" /\ cur' = cur
                \/ pc[p] \in InMeasurement /\ cur' = cur
           /\ pc'[p] \in Between /\ failed'[p] = {} =>
                \/ pc[p] = "start"
                \/ pc[p] \in Between /\ rows' = rows
                \/ pc[p] = "measure" /\ Set(Here(p), "failed")
                \/ pc[p] = "keys" /\ Set(Here(p), "keys")
<1>0. ASSUME NEW l, Goto(p, l)
      PROVE  pc'[p] = l
  BY <1>0 DEF Goto, SubTypeOK
<1>16. ASSUME EndNettest(p, TRUE)
       PROVE  /\ failed'[p] # {} /\ failed[p] \subseteq failed'[p] /\ pc'[p] = "nettests"
              /\ \A q \in Procs : q # p => failed'[q] = failed[q]
  BY <1>0, <1>16 DEF EndNettest, NtTypeOK
<1>17. ASSUME EndNettest(p, FALSE)
       PROVE  failed' = failed /\ pc'[p] = "nettests"
  BY <1>0, <1>17 DEF EndNettest
<1> USE DEF At, InMeasurement, Between
<1>1. CASE StartGroup(p)
  BY <1>0, <1>16, <1>17, <1>1 DEF StartGroup, Record, NextInput, ntVars
<1>2. CASE StartNettest(p)
  BY <1>0, <1>16, <1>17, <1>2 DEF StartNettest, Record, NextInput, ntVars
<1>3. CASE CleanUp(p)
  BY <1>0, <1>16, <1>17, <1>3 DEF CleanUp, Record, NextInput, ntVars
<1>4. CASE Finished(p)
  BY <1>0, <1>16, <1>17, <1>4 DEF Finished, Record, NextInput, ntVars
<1>5. CASE RunWithoutSubmitter(p)
  BY <1>0, <1>16, <1>17, <1>5 DEF RunWithoutSubmitter, Record, NextInput, ntVars
<1>6. CASE StopLoop(p)
  BY <1>0, <1>16, <1>17, <1>6 DEF StopLoop, Record, NextInput, ntVars
<1>7. CASE CreateMeasurement(p)
  BY <1>0, <1>16, <1>17, <1>7 DEF CreateMeasurement, Record, NextInput, ntVars
<1>8. CASE Measure(p)
  BY <1>0, <1>16, <1>17, <1>8 DEF Measure, Record, NextInput, ntVars
<1>9. CASE UploadSucceeded(p)
  BY <1>0, <1>16, <1>17, <1>9 DEF UploadSucceeded, Record, NextInput, ntVars
<1>10. CASE UploadFailed(p)
  BY <1>0, <1>16, <1>17, <1>10 DEF UploadFailed, Record, NextInput, ntVars
<1>11. CASE SaveMeasurement(p)
  BY <1>0, <1>16, <1>17, <1>11 DEF SaveMeasurement, Record, NextInput, ntVars
<1>12. CASE Done(p)
  BY <1>0, <1>16, <1>17, <1>12 DEF Done, Record, NextInput, ntVars
<1>13. CASE AddTestKeys(p)
  BY <1>0, <1>16, <1>17, <1>13 DEF AddTestKeys, Record, NextInput, ntVars
<1>14. CASE UpdateUploadedStatus(p)
  BY <1>0, <1>14, <1>16, <1>17 DEF UpdateUploadedStatus, NtTypeOK
<1>18. QED
  BY <1>1, <1>2, <1>3, <1>4, <1>5, <1>6, <1>7, <1>8, <1>9, <1>10, <1>11, <1>12, <1>13, <1>14 DEF NettestStep

\* The steps as far as the database and the files are concerned.
LEMMA BookSteps ==
    ASSUME [Next]_vars
    PROVE  \/ \E p \in Procs : (SubmissionStep(p) \/ Crash(p)) /\ UNCHANGED ntVars
           \/ \E p \in Procs : NettestStep(p) /\ Step(p)
           \/ \E p \in Procs : program = "miniooni" /\ RunStep(p) /\ UNCHANGED ntVars
           \/ \E p \in Procs : DeleteRow(p) \/ RemoveDir(p)
           \/ UNCHANGED <<pc, cur, received, result, isUploaded, dir, rows, files, removing, failed>>
<1>1. CASE \E p \in Procs : Step(p) \/ Crash(p)
  BY <1>1 DEF Step, Crash
<1>2. CASE Environment
  BY <1>2 DEF Environment, NewManifest, Terminate, Publish, ntVars, idleVars
<1>3. CASE UNCHANGED vars
  BY <1>3 DEF vars, subVars, idleVars, ntVars
<1>4. QED
  BY <1>1, <1>2, <1>3 DEF Next, AllHalted

\* Where a step of the submission may go.
LEMMA SubmissionGoes ==
    ASSUME SubTypeOK, NEW p \in Procs, SubmissionStep(p) \/ Crash(p)
    PROVE  /\ cur' = cur
           /\ \A q \in Procs : q # p => pc'[q] = pc[q]
           /\ pc[p] # "ended"
           /\ pc'[p] \notin {"start", "done", "keys", "status", "nettests", "finish", "finished",
                            "ended"}
           /\ pc'[p] \in Between => pc[p] \in Between
           /\ pc'[p] \in InMeasurement => pc[p] \in InMeasurement
<1>1. ASSUME NEW l, Goto(p, l)
      PROVE  pc'[p] = l /\ \A q \in Procs : q # p => pc'[q] = pc[q]
  BY <1>1 DEF Goto, SubTypeOK
<1> USE DEF At, Between, InMeasurement
<1>2. CASE Crash(p)
  BY <1>1, <1>2 DEF Crash, CrashSubmission, Halted
<1>3. CASE NoProbeServices(p) \/ PlainSubmitter(p) \/ GetManifest(p) \/ ReuseCredential(p)
  BY <1>1, <1>3 DEF NoProbeServices, PlainSubmitter, GetManifest, ReuseCredential
<1>4. CASE Register(p) \/ KeepRegistered(p) \/ StartSubmit(p)
  BY <1>1, <1>4 DEF Register, KeepRegistered, StartSubmit
<1>5. CASE SubmitWithCredential(p) \/ CredentialRefused(p)
  BY <1>1, <1>5 DEF SubmitWithCredential, CredentialRefused
<1>6. CASE RotateCredential(p) \/ PlainSubmit(p)
  BY <1>1, <1>6 DEF RotateCredential, PlainSubmit
<1>7. QED
  BY <1>2, <1>3, <1>4, <1>5, <1>6 DEF SubmissionStep

\* The backend accepts only what is being measured.
LEMMA Submitting ==
    ASSUME NEW p \in Procs, SubmissionStep(p) \/ Crash(p)
    PROVE  \/ received' = received
           \/ /\ pc[p] \in InMeasurement
              /\ \E path \in {"plain", "cred"} : Accept(Here(p), path)
<1> USE DEF At, InMeasurement
<1>1. CASE Crash(p)
  BY <1>1 DEF Crash, CrashSubmission
<1>2. CASE NoProbeServices(p) \/ PlainSubmitter(p) \/ GetManifest(p) \/ ReuseCredential(p)
  BY <1>2 DEF NoProbeServices, PlainSubmitter, GetManifest, ReuseCredential
<1>3. CASE Register(p) \/ KeepRegistered(p) \/ StartSubmit(p) \/ RotateCredential(p)
  BY <1>3 DEF Register, KeepRegistered, StartSubmit, RotateCredential
<1>4. CASE SubmitWithCredential(p) \/ CredentialRefused(p) \/ PlainSubmit(p)
  BY <1>4 DEF SubmitWithCredential, CredentialRefused, PlainSubmit
<1>5. QED
  BY <1>1, <1>2, <1>3, <1>4 DEF SubmissionStep

\* What the backend has it keeps.
LEMMA ReceivedStays ==
    ASSUME SubTypeOK, Place, [Next]_vars, NEW m \in Measurements,
           received[m].plain + received[m].cred > 0
    PROVE  received'[m].plain + received'[m].cred > 0
<1>1. received \in [Measurements -> [plain : Nat, cred : Nat]]
  BY DEF SubTypeOK
<1>2. received[m].plain \in Nat /\ received[m].cred \in Nat
  BY <1>1
<1>3. ASSUME NEW n \in Measurements, NEW path \in {"plain", "cred"}, Accept(n, path)
      PROVE  received'[m].plain + received'[m].cred > 0
  <2>1. CASE m = n
    BY <1>1, <1>2, <1>3, <2>1, Accepting
  <2>2. CASE m # n
    BY <1>1, <1>3, <2>2, Accepting
  <2>3. QED
    BY <2>1, <2>2
<1>4. CASE received' = received
  BY <1>4
<1>6. ASSUME NEW p \in Procs, NettestStep(p) \/ RunStep(p)
      PROVE  received' = received
  BY <1>6, OutsideSubmission
<1>7. CASE Environment \/ UNCHANGED vars
  BY <1>4, <1>7, EnvironmentStays
<1>8. QED
  BY <1>3, <1>4, <1>6, <1>7, Submitting, HereIsMeasurement DEF Next, Step, AllHalted

\* miniooni does not start over.
LEMMA RunStart ==
    ASSUME SubTypeOK, NEW p \in Procs, RunStep(p)
    PROVE  pc'[p] # "start"
<1>0. ASSUME NEW l, Goto(p, l)
      PROVE  pc'[p] = l
  BY <1>0 DEF Goto, SubTypeOK
<1>1. CASE LoadCache(p)
  BY <1>0, <1>1 DEF LoadCache, EndExperiment
<1>2. CASE PullChanges(p)
  BY <1>0, <1>2 DEF PullChanges, EndExperiment
<1>3. CASE CompareDescriptors(p)
  BY <1>0, <1>3 DEF CompareDescriptors, EndExperiment
<1>4. CASE UpdateCache(p)
  BY <1>0, <1>4 DEF UpdateCache, EndExperiment
<1>5. CASE StartExperiment(p)
  BY <1>0, <1>5 DEF StartExperiment, EndExperiment
<1>6. CASE NoSubmitter(p)
  BY <1>0, <1>6 DEF NoSubmitter, EndExperiment
<1>7. CASE ProcessInput(p)
  BY <1>0, <1>7 DEF ProcessInput, EndExperiment
<1>8. CASE AfterSubmission(p)
  BY <1>0, <1>8 DEF AfterSubmission, EndExperiment
<1>9. CASE SaveToReport(p)
  BY <1>0, <1>9 DEF SaveToReport, EndExperiment
<1>10. QED
  BY <1>1, <1>2, <1>3, <1>4, <1>5, <1>6, <1>7, <1>8, <1>9 DEF RunStep

\* The step of a nettest leaves the rows of the others alone.
LEMMA OthersRows ==
    ASSUME SubTypeOK, NtTypeOK, Place, NEW p \in Procs, NettestStep(p), NEW q \in Procs, q # p
    PROVE  /\ RowsOf(q)' = RowsOf(q)
           /\ \A m \in RowsOf(q) : rows'[m] = rows[m]
<1>1. Here(p)[1] = p
  BY DEF Here
<1>2. QED
  BY <1>1, RowsAfter DEF RowsOf

\* What has been deleted stays deleted.
LEMMA DeletedNext ==
    ASSUME TypeOK, Place, Deleted, DeletedStaysDeleted, [Next]_vars
    PROVE  Deleted' /\ DeletedStaysDeleted'
<1>1. SubTypeOK /\ NtTypeOK /\ removing \in [Procs -> {"no", "row", "done"}]
      /\ dir \in [Procs -> BOOLEAN]
  BY DEF TypeOK, NtTypeOK
<1>2. ASSUME NEW p \in Procs, pc' = pc \/ (pc'[p] # "start" /\ \A q \in Procs : q # p => pc'[q] = pc[q]),
             UNCHANGED <<result, dir, rows, files, removing>>
      PROVE  Deleted' /\ DeletedStaysDeleted'
  BY <1>2 DEF Deleted, DeletedStaysDeleted, HasResult, RowsOf
<1>3. ASSUME NEW p \in Procs, SubmissionStep(p) \/ Crash(p), UNCHANGED ntVars
      PROVE  Deleted' /\ DeletedStaysDeleted'
  BY <1>1, <1>2, <1>3, SubmissionGoes DEF ntVars
<1>4. ASSUME NEW p \in Procs, RunStep(p), UNCHANGED ntVars
      PROVE  Deleted' /\ DeletedStaysDeleted'
  <2>1. PICK l \in Labels : pc' = [pc EXCEPT ![p] = l]
    BY <1>1, <1>4, RunMoves
  <2>2. l # "start"
    BY <1>1, <1>4, <2>1, RunStart DEF SubTypeOK
  <2>3. QED
    BY <1>1, <1>2, <1>4, <2>1, <2>2 DEF ntVars, SubTypeOK
<1>5. ASSUME NEW p \in Procs, NettestStep(p), Step(p)
      PROVE  Deleted' /\ DeletedStaysDeleted'
  <2>1. removing' = removing /\ pc'[p] # "start"
    BY <1>1, <1>5, FilesAfter, MemoryAfter
  <2>2. DOMAIN result' \subseteq Procs
    BY <1>1, <1>5, ResultAfter DEF Deleted
  <2>3. ASSUME NEW q \in Procs, q # p
        PROVE  /\ pc'[q] = pc[q] /\ HasResult(q)' = HasResult(q) /\ RowsOf(q)' = RowsOf(q)
               /\ dir'[q] = dir[q]
               /\ (\A m \in files : m[1] # q) => (\A m \in files' : m[1] # q)
    <3>1. pc'[q] = pc[q] /\ RowsOf(q)' = RowsOf(q) /\ dir'[q] = dir[q]
      BY <1>1, <1>5, <2>3, OthersStay, OthersRows, FilesAfter
    <3>2. HasResult(q)' = HasResult(q)
      BY <1>1, <1>5, <2>3, ResultAfter DEF HasResult
    <3>3. (\A m \in files : m[1] # q) => (\A m \in files' : m[1] # q)
      <4>1. files' \subseteq files \cup {Here(p)}
        BY <1>1, <1>5, FilesAfter
      <4>2. Here(p)[1] = p
        BY DEF Here
      <4>3. QED
        BY <2>3, <4>1, <4>2
    <3>4. QED
      BY <3>1, <3>2, <3>3
  <2>4. ASSUME removing[p] # "no"
        PROVE  ~ HasResult(p)' /\ RowsOf(p)' = {}
    <3>1. ~ HasResult(p) /\ RowsOf(p) = {} /\ pc[p] # "start"
      BY <2>4 DEF Deleted
    <3>2. ~ HasResult(p)'
      BY <1>1, <1>5, <3>1, ResultAfter DEF HasResult
    <3>3. DOMAIN rows' = DOMAIN rows
      BY <1>1, <1>5, <3>1, RowsAfter
    <3>4. QED
      BY <3>1, <3>2, <3>3 DEF RowsOf
  <2>5. ASSUME removing[p] = "done"
        PROVE  ~ dir'[p] /\ \A m \in files' : m[1] # p
    <3>1. ~ dir[p] /\ (\A m \in files : m[1] # p) /\ pc[p] # "start"
      BY <2>5 DEF DeletedStaysDeleted, Deleted
    <3>2. QED
      BY <1>1, <1>5, <3>1, FilesAfter
  <2>6. Deleted'
    BY <2>1, <2>2, <2>3, <2>4 DEF Deleted
  <2>7. DeletedStaysDeleted'
    BY <2>1, <2>3, <2>4, <2>5 DEF DeletedStaysDeleted
  <2>8. QED
    BY <2>6, <2>7
<1>6. ASSUME NEW p \in Procs, DeleteRow(p)
      PROVE  Deleted' /\ DeletedStaysDeleted'
  <2>1. /\ DOMAIN result' = DOMAIN result \ {p} /\ DOMAIN rows' = DOMAIN rows \ RowsOf(p)
        /\ removing' = [removing EXCEPT ![p] = "row"] /\ HasResult(p)
        /\ UNCHANGED <<pc, dir, files>>
    BY <1>6 DEF DeleteRow, idleVars
  <2>2. ~ HasResult(p)' /\ RowsOf(p)' = {} /\ pc[p] # "start" /\ removing'[p] = "row"
    BY <1>1, <2>1 DEF HasResult, RowsOf, Deleted
  <2>3. \A q \in Procs : q # p => /\ HasResult(q)' = HasResult(q) /\ RowsOf(q)' = RowsOf(q)
                                  /\ removing'[q] = removing[q]
    BY <1>1, <2>1 DEF HasResult, RowsOf
  <2>4. QED
    BY <2>1, <2>2, <2>3 DEF Deleted, DeletedStaysDeleted
<1>7. ASSUME NEW p \in Procs, RemoveDir(p)
      PROVE  Deleted' /\ DeletedStaysDeleted'
  <2>1. /\ removing[p] = "row" /\ dir' = [dir EXCEPT ![p] = FALSE]
        /\ files' = {m \in files : m[1] # p} /\ removing' = [removing EXCEPT ![p] = "done"]
        /\ UNCHANGED <<pc, result, rows>>
    BY <1>7 DEF RemoveDir, subVars, idleVars
  <2>2. /\ removing'[p] = "done" /\ ~ dir'[p]
        /\ \A q \in Procs : q # p => removing'[q] = removing[q] /\ dir'[q] = dir[q]
    BY <1>1, <2>1
  <2>3. \A q \in Procs : HasResult(q)' = HasResult(q) /\ RowsOf(q)' = RowsOf(q)
    BY <2>1 DEF HasResult, RowsOf
  <2>4. QED
    BY <2>1, <2>2, <2>3 DEF Deleted, DeletedStaysDeleted
<1>8. CASE UNCHANGED <<pc, cur, received, result, isUploaded, dir, rows, files, removing, failed>>
  BY <1>8 DEF Deleted, DeletedStaysDeleted, HasResult, RowsOf
<1>9. QED
  BY <1>3, <1>4, <1>5, <1>6, <1>7, <1>8, BookSteps

\* The rows say what is so, and nothing that is marked as done is lost.
LEMMA RecordedNext ==
    ASSUME TypeOK, Place, Separate, Received, Deleted, Recorded, NothingLost, [Next]_vars
    PROVE  Recorded' /\ NothingLost'
<1>1. SubTypeOK /\ NtTypeOK
  BY DEF TypeOK
<1>2. \A m \in Measurements : received[m].plain + received[m].cred > 0 =>
                                received'[m].plain + received'[m].cred > 0
  BY <1>1, ReceivedStays
<1>3. ASSUME DOMAIN rows' \subseteq DOMAIN rows, \A m \in DOMAIN rows' : rows'[m] = rows[m],
             \A m \in DOMAIN rows' : m \in files => m \in files',
             \A q \in Procs : pc'[q] = "done" => pc[q] = "done" /\ cur'[q] = cur[q]
      PROVE  Recorded' /\ NothingLost'
  <2>1. \A q \in Procs : cur'[q] = cur[q] => Here(q)' = Here(q)
    BY DEF Here
  <2>2. Recorded'
    BY <1>2, <1>3, <2>1 DEF Recorded
  <2>3. NothingLost'
    BY <1>2, <1>3 DEF NothingLost, Recorded
  <2>4. QED
    BY <2>2, <2>3
<1>4. ASSUME NEW p \in Procs, SubmissionStep(p) \/ Crash(p), UNCHANGED ntVars
      PROVE  Recorded' /\ NothingLost'
  BY <1>1, <1>3, <1>4, SubmissionGoes DEF ntVars
<1>5. ASSUME NEW p \in Procs, program = "miniooni", UNCHANGED ntVars
      PROVE  Recorded' /\ NothingLost'
  BY <1>5 DEF ntVars, Separate, Recorded, NothingLost
<1>6. ASSUME NEW p \in Procs, DeleteRow(p)
      PROVE  Recorded' /\ NothingLost'
  <2>1. /\ DOMAIN rows' \subseteq DOMAIN rows /\ \A m \in DOMAIN rows' : rows'[m] = rows[m]
        /\ UNCHANGED <<pc, cur, files>>
    BY <1>6 DEF DeleteRow, idleVars
  <2>2. QED
    BY <1>3, <2>1
<1>7. ASSUME NEW p \in Procs, RemoveDir(p)
      PROVE  Recorded' /\ NothingLost'
  <2>1. removing[p] = "row" /\ files' = {m \in files : m[1] # p} /\ UNCHANGED <<pc, cur, rows>>
    BY <1>7 DEF RemoveDir, subVars, idleVars
  <2>2. \A m \in DOMAIN rows : m[1] # p
    BY <2>1 DEF Deleted, RowsOf
  <2>3. QED
    BY <1>3, <2>1, <2>2
<1>8. ASSUME NEW p \in Procs, NettestStep(p), Step(p)
      PROVE  Recorded' /\ NothingLost'
  <2>0. PICK h : h = Here(p)
    OBVIOUS
  <2>1. /\ DOMAIN rows \subseteq DOMAIN rows'
        /\ DOMAIN rows' \subseteq DOMAIN rows \cup {h}
        /\ \A m \in DOMAIN rows : m # h => rows'[m] = rows[m]
    BY <1>1, <1>8, <2>0, RowsAfter
  <2>2. files \subseteq files'
    BY <1>1, <1>8, FilesAfter
  <2>3. ASSUME h \notin DOMAIN rows, h \in DOMAIN rows'
        PROVE  h \in Measurements /\ ~ rows'[h].uploaded /\ ~ rows'[h].done
    BY <1>1, <1>8, <2>0, <2>3, RowsAfter DEF NewRow
  <2>4. ASSUME h \in DOMAIN rows
        PROVE  /\ rows'[h].uploaded => received[h].plain + received[h].cred > 0
               /\ rows'[h].done => rows'[h].uploaded \/ h \in files
    <3>1. h \in Measurements /\ ReceivedOf(h) /\ h[1] = p
      BY <2>0, <2>4 DEF Recorded, Received, Here
    <3>2. /\ rows[h].uploaded => received[h].plain + received[h].cred > 0
          /\ rows[h].done => rows[h].uploaded \/ h \in files
      BY <2>4 DEF Recorded, NothingLost
    <3>3. CASE rows'[h] = rows[h]
      BY <3>2, <3>3
    <3>4. CASE (pc[p] = "measure" /\ Filled(p, "failed")) \/ (pc[p] = "keys" /\ Filled(p, "keys"))
      BY <2>0, <3>2, <3>4 DEF Filled
    <3>5. CASE pc[p] = "submitted" /\ Filled(p, "uploaded")
      <4>1. received[h].plain + received[h].cred > 0
        BY <2>0, <3>1, <3>5 DEF ReceivedOf
      <4>2. QED
        BY <2>0, <3>2, <3>5, <4>1 DEF Filled
    <3>6. CASE pc[p] = "done" /\ Filled(p, "done")
      <4>1. rows[h].uploaded \/ h \in files
        BY <2>0, <2>4, <3>6 DEF Recorded
      <4>2. QED
        BY <2>0, <3>2, <3>6, <4>1 DEF Filled
    <3>7. QED
      BY <1>1, <1>8, <2>0, <2>4, <3>3, <3>4, <3>5, <3>6, RowsAfter
  <2>5. DOMAIN rows' \subseteq Measurements
    BY <2>1, <2>3 DEF Recorded
  <2>6. \A m \in DOMAIN rows' : rows'[m].uploaded => received'[m].plain + received'[m].cred > 0
    BY <1>2, <2>1, <2>3, <2>4, <2>5 DEF Recorded
  <2>7. ASSUME NEW q \in Procs, pc'[q] = "done", Here(q)' \in DOMAIN rows'
        PROVE  rows'[Here(q)'].uploaded \/ Here(q)' \in files'
    <3>1. CASE q # p
      <4>1. pc[q] = "done" /\ Here(q)' = Here(q) /\ Here(q) # h
        BY <1>1, <1>8, <2>0, <2>7, <3>1, OthersStay DEF Here
      <4>2. QED
        BY <2>1, <2>2, <2>7, <4>1 DEF Recorded
    <3>2. CASE q = p
      <4>1. cur' = cur /\ (Set(h, "uploaded") \/ h \in files')
        BY <1>1, <1>8, <2>0, <2>7, <3>2, FilesAfter
      <4>2. Here(q)' = h
        BY <2>0, <3>2, <4>1 DEF Here
      <4>3. CASE Set(h, "uploaded")
        <5>1. rows \in [DOMAIN rows -> Row]
          BY <1>1 DEF NtTypeOK
        <5>2. DOMAIN rows' = DOMAIN rows /\ (h \in DOMAIN rows => rows'[h].uploaded)
          BY <4>3, <5>1, Setting
        <5>3. QED
          BY <2>7, <4>2, <5>2
      <4>4. QED
        BY <4>1, <4>2, <4>3
    <3>3. QED
      BY <3>1, <3>2
  <2>8. Recorded'
    BY <2>5, <2>6, <2>7 DEF Recorded
  <2>9. ASSUME NEW m \in DOMAIN rows', rows'[m].done
        PROVE  IF rows'[m].uploaded THEN received'[m].plain + received'[m].cred > 0 ELSE m \in files'
    <3>1. CASE m # h
      BY <2>1, <2>2, <2>6, <2>9, <3>1 DEF NothingLost
    <3>2. CASE m = h
      BY <2>2, <2>3, <2>4, <2>6, <2>9, <3>2
    <3>3. QED
      BY <3>1, <3>2
  <2>10. NothingLost'
    BY <2>9 DEF NothingLost
  <2>11. QED
    BY <2>8, <2>10
<1>9. CASE UNCHANGED <<pc, cur, received, result, isUploaded, dir, rows, files, removing, failed>>
  BY <1>3, <1>9
<1>10. QED
  BY <1>4, <1>5, <1>6, <1>7, <1>8, <1>9, BookSteps

\* A result starts undone.
LEMMA StartsUndone ==
    ASSUME NEW p \in Procs, NettestStep(p), pc[p] = "start", p \notin DOMAIN result,
           p \in DOMAIN result'
    PROVE  ~ result'[p].done
<1>1. StartGroup(p)
  BY DEF NettestStep, StartNettest, CleanUp, Finished, RunWithoutSubmitter, StopLoop,
     CreateMeasurement, Measure, UploadSucceeded, UploadFailed, SaveMeasurement, Done, AddTestKeys,
     UpdateUploadedStatus, Record, At
<1>2. Insert(result, p, [uploaded |-> FALSE, done |-> FALSE])[p] = [uploaded |-> FALSE, done |-> FALSE]
  BY DEF Insert
<1>3. QED
  BY <1>1, <1>2 DEF StartGroup

\* What is known of the rows of an invocation that nothing has happened to.
LEMMA CompleteStays ==
    ASSUME NEW q \in Procs, pc'[q] = pc[q], cur'[q] = cur[q],
           RowsOf(q)' = RowsOf(q), \A m \in RowsOf(q) : rows'[m] = rows[m],
           HasResult(q)' = HasResult(q), HasResult(q) => result'[q] = result[q],
           failed'[q] = failed[q], CompleteOf(q)
    PROVE  CompleteOf(q)'
<1>1. Here(q)' = Here(q) /\ (Here(q) \in DOMAIN rows' <=> Here(q) \in DOMAIN rows)
      /\ (Here(q) \in DOMAIN rows => rows'[Here(q)] = rows[Here(q)])
  <2>1. Here(q)' = Here(q) /\ Here(q)[1] = q
    BY DEF Here
  <2>2. QED
    BY <2>1 DEF RowsOf
<1>2. \A m \in RowsOf(q) : Settled(m)' = Settled(m)
  BY DEF Settled
<1>3. QED
  BY <1>1, <1>2 DEF CompleteOf

\* Until a nettest fails, the invocation leaves no row behind unsettled.
LEMMA CompleteNext ==
    ASSUME TypeOK, Place, Separate, Deleted, Complete, [Next]_vars
    PROVE  Complete'
<1>1. SubTypeOK /\ NtTypeOK /\ failed \in [Procs -> SUBSET Nat]
  BY DEF TypeOK, NtTypeOK
<1>2. ASSUME NEW p \in Procs, SubmissionStep(p) \/ Crash(p), UNCHANGED ntVars
      PROVE  Complete'
  <2>1. UNCHANGED <<result, rows, failed, cur>>
    BY <1>1, <1>2, SubmissionGoes DEF ntVars
  <2>2. \A q \in Procs : /\ RowsOf(q)' = RowsOf(q) /\ HasResult(q)' = HasResult(q)
                         /\ Here(q)' = Here(q)
    BY <2>1 DEF RowsOf, HasResult, Here
  <2>3. \A q \in Procs : q # p => CompleteOf(q)'
    BY <1>1, <1>2, <2>1, <2>2, SubmissionGoes, CompleteStays DEF Complete
  <2>4. CompleteOf(p)'
    <3>1. /\ pc[p] # "ended"
          /\ pc'[p] \notin {"start", "done", "keys", "nettests", "finish", "finished", "ended"}
          /\ pc'[p] \in Between => pc[p] \in Between
          /\ pc'[p] \in InMeasurement => pc[p] \in InMeasurement
      BY <1>1, <1>2, SubmissionGoes
    <3>2. \A m : Settled(m)' = Settled(m)
      BY <2>1 DEF Settled
    <3>3. QED
      BY <2>1, <2>2, <3>1, <3>2 DEF Complete, CompleteOf
  <2>5. QED
    BY <2>3, <2>4 DEF Complete
<1>3. ASSUME program = "miniooni", UNCHANGED ntVars
      PROVE  Complete'
  <2>1. DOMAIN rows' = {} /\ DOMAIN result' = {}
    BY <1>3 DEF Separate, ntVars
  <2>2. QED
    BY <2>1 DEF Complete, CompleteOf, RowsOf, HasResult
<1>4. ASSUME NEW p \in Procs, DeleteRow(p)
      PROVE  Complete'
  <2>1. /\ DOMAIN rows' = DOMAIN rows \ RowsOf(p) /\ \A m \in DOMAIN rows' : rows'[m] = rows[m]
        /\ DOMAIN result' = DOMAIN result \ {p} /\ \A q \in DOMAIN result' : result'[q] = result[q]
        /\ UNCHANGED <<pc, cur, failed>>
    BY <1>4 DEF DeleteRow, idleVars
  <2>2. ASSUME NEW q \in Procs, q # p
        PROVE  CompleteOf(q)'
    <3>1. RowsOf(q)' = RowsOf(q) /\ \A m \in RowsOf(q) : rows'[m] = rows[m]
      BY <2>1, <2>2 DEF RowsOf
    <3>2. HasResult(q)' = HasResult(q) /\ (HasResult(q) => result'[q] = result[q])
      BY <2>1, <2>2 DEF HasResult
    <3>3. QED
      BY <2>1, <3>1, <3>2, CompleteStays DEF Complete
  <2>3. CompleteOf(p)'
    <3>1. RowsOf(p)' = {} /\ ~ HasResult(p)' /\ Here(p)[1] = p /\ Here(p)' = Here(p)
      BY <2>1 DEF RowsOf, HasResult, Here
    <3>2. Here(p)' \notin DOMAIN rows'
      BY <3>1 DEF RowsOf
    <3>3. QED
      BY <3>1, <3>2 DEF CompleteOf
  <2>4. QED
    BY <2>2, <2>3 DEF Complete
<1>5. CASE UNCHANGED <<pc, cur, result, rows, failed>>
  <2>1. \A q \in Procs : RowsOf(q)' = RowsOf(q) /\ HasResult(q)' = HasResult(q)
    BY <1>5 DEF RowsOf, HasResult
  <2>2. QED
    BY <1>5, <2>1, CompleteStays DEF Complete
<1>6. ASSUME NEW p \in Procs, RemoveDir(p)
      PROVE  Complete'
  BY <1>5, <1>6 DEF RemoveDir, subVars, idleVars
<1>7. ASSUME NEW p \in Procs, NettestStep(p), Step(p)
      PROVE  Complete'
  <2>1. ASSUME NEW q \in Procs, q # p
        PROVE  CompleteOf(q)'
    <3>1. pc'[q] = pc[q] /\ cur'[q] = cur[q] /\ failed'[q] = failed[q]
      BY <1>1, <1>7, <2>1, OthersStay, MemoryAfter
    <3>2. RowsOf(q)' = RowsOf(q) /\ \A m \in RowsOf(q) : rows'[m] = rows[m]
      BY <1>1, <1>7, <2>1, OthersRows
    <3>3. HasResult(q)' = HasResult(q) /\ (HasResult(q) => result'[q] = result[q])
      BY <1>1, <1>7, <2>1, ResultAfter DEF HasResult
    <3>4. QED
      BY <3>1, <3>2, <3>3, CompleteStays DEF Complete
  <2>2. CompleteOf(p)'
    <3>0. PICK h : h = Here(p)
      OBVIOUS
    <3>1. CompleteOf(p) /\ pc'[p] # "start" /\ failed[p] \subseteq failed'[p] /\ h[1] = p
      BY <1>1, <1>7, <3>0, MemoryAfter DEF Complete, Here
    <3>2. /\ DOMAIN rows \subseteq DOMAIN rows'
          /\ DOMAIN rows' \subseteq DOMAIN rows \cup {h}
          /\ \A m \in DOMAIN rows : m # h => rows'[m] = rows[m]
      BY <1>1, <1>7, <3>0, RowsAfter
    <3>3. \A m \in DOMAIN rows : m # h => Settled(m)' = Settled(m)
      BY <3>2 DEF Settled
    <3>4. ASSUME NEW f \in {"done", "failed", "uploaded", "keys"}, Set(h, f)
          PROVE  /\ DOMAIN rows' = DOMAIN rows
                 /\ h \in DOMAIN rows =>
                      /\ rows'[h].done = (rows[h].done \/ f = "done")
                      /\ rows'[h].failed = (rows[h].failed \/ f = "failed")
                      /\ rows'[h].uploaded = (rows[h].uploaded \/ f = "uploaded")
                      /\ rows'[h].keys = (rows[h].keys \/ f = "keys")
      BY <1>1, <3>4, Setting DEF NtTypeOK
    <3>5. pc'[p] = "keys" /\ Here(p)' \in DOMAIN rows' => rows'[Here(p)'].done
      <4>1. ASSUME pc'[p] = "keys"
            PROVE  Here(p)' = h /\ Set(h, "done")
        BY <1>1, <1>7, <3>0, <4>1, MemoryAfter DEF Here
      <4>2. QED
        BY <3>4, <4>1
    <3>6. HasResult(p)' /\ result'[p].done => pc'[p] = "ended"
      <4>1. CASE pc[p] = "start"
        BY <1>1, <1>7, <4>1, StartsUndone DEF HasResult, Deleted
      <4>2. CASE pc[p] # "start"
        BY <1>1, <1>7, <3>1, <4>2, ResultAfter DEF CompleteOf, HasResult
      <4>3. QED
        BY <4>1, <4>2
    <3>7. ASSUME failed'[p] = {}, pc'[p] \in Between
          PROVE  \A m \in RowsOf(p)' : Settled(m)'
      <4>1. failed[p] = {}
        BY <3>1, <3>7
      <4>2. CASE pc[p] = "start"
        <5>1. RowsOf(p) = {} /\ h \notin DOMAIN rows
          BY <3>1, <4>2 DEF CompleteOf, RowsOf
        <5>2. h \notin DOMAIN rows'
          BY <1>1, <1>7, <3>0, <4>2, <5>1, RowsAfter
        <5>3. QED
          BY <3>2, <5>1, <5>2 DEF RowsOf
      <4>3. CASE pc[p] \in Between /\ rows' = rows
        BY <3>1, <4>1, <4>3 DEF CompleteOf, RowsOf, Settled
      <4>4. CASE pc[p] = "measure" /\ Set(h, "failed")
        <5>1. h \in DOMAIN rows => Settled(h)'
          BY <3>4, <4>4 DEF Settled
        <5>2. \A m \in RowsOf(p) : m # h => Settled(m)
          BY <3>0, <3>1, <4>1, <4>4 DEF CompleteOf, InMeasurement
        <5>3. DOMAIN rows' = DOMAIN rows
          BY <3>4, <4>4
        <5>4. QED
          BY <3>3, <5>1, <5>2, <5>3 DEF RowsOf
      <4>5. CASE pc[p] = "keys" /\ Set(h, "keys")
        <5>1. h \in DOMAIN rows => rows[h].done
          BY <3>0, <3>1, <4>5 DEF CompleteOf
        <5>2. h \in DOMAIN rows => Settled(h)'
          BY <3>4, <4>5, <5>1 DEF Settled
        <5>3. \A m \in RowsOf(p) : m # h => Settled(m)
          BY <3>0, <3>1, <4>1, <4>5 DEF CompleteOf, InMeasurement
        <5>4. DOMAIN rows' = DOMAIN rows
          BY <3>4, <4>5
        <5>5. QED
          BY <3>3, <5>2, <5>3, <5>4 DEF RowsOf
      <4>6. QED
        BY <1>1, <1>7, <3>0, <3>7, <4>2, <4>3, <4>4, <4>5, MemoryAfter
    <3>8. ASSUME failed'[p] = {}, pc'[p] \in InMeasurement, NEW m \in RowsOf(p)', m # Here(p)'
          PROVE  Settled(m)'
      <4>1. failed[p] = {}
        BY <3>1, <3>8
      <4>2. /\ cur' = cur
            /\ pc[p] \in Between \cup InMeasurement
        BY <1>1, <1>7, <3>8, MemoryAfter DEF Between
      <4>3. Here(p)' = h
        BY <3>0, <4>2 DEF Here
      <4>4. m \in RowsOf(p) /\ m \in DOMAIN rows
        BY <3>2, <3>8, <4>3 DEF RowsOf
      <4>5. Settled(m)
        BY <3>0, <3>1, <3>8, <4>1, <4>2, <4>3, <4>4 DEF CompleteOf
      <4>6. QED
        BY <3>3, <3>8, <4>3, <4>4, <4>5
    <3>9. QED
      BY <3>1, <3>5, <3>6, <3>7, <3>8 DEF CompleteOf
  <2>3. QED
    BY <2>1, <2>2 DEF Complete
<1>8. QED
  BY <1>2, <1>3, <1>4, <1>5, <1>6, <1>7, BookSteps

\* Where the step of a nettest goes while none has failed.
LEMMA NettestGoes ==
    ASSUME SubTypeOK, NtTypeOK, Place, NEW p \in Procs, NettestStep(p), failed'[p] = {}
    PROVE  \/ pc[p] = "start" /\ pc'[p] \in {"nettests", "ended"} /\ cur'[p] = [t |-> 1, i |-> 1]
           \/ /\ pc[p] # "start" /\ cur'[p] = cur[p] /\ pc'[p] \notin {"status", "finish"}
              /\ pc'[p] \in InMeasurement => pc[p] \in InMeasurement
              /\ pc'[p] = "finished" => pc[p] = "finish"
           \/ /\ pc[p] = "loop" /\ pc'[p] = "measure" /\ cur'[p] = cur[p]
              /\ Here(p) \in DOMAIN rows'
           \/ /\ pc[p] = "loop" /\ pc'[p] = "status" /\ cur'[p] = cur[p]
              /\ \/ cur[p].i > Inputs[p][cur[p].t]
                 \/ terminated[p]
                 \/ config[p].limited
           \/ /\ pc[p] = "nettests" /\ pc'[p] = "finish" /\ cur'[p] = cur[p]
              /\ cur[p].t > Len(Inputs[p]) \/ terminated[p]
           \/ /\ pc[p] = "nettests" /\ pc'[p] = "nettests"
              /\ cur'[p] = [t |-> cur[p].t + 1, i |-> 1]
              /\ config[p].manual /\ cur[p].t \in OnlyBackground
           \/ /\ pc[p] \in InMeasurement /\ pc'[p] = "loop"
              /\ cur'[p].t = cur[p].t /\ cur'[p].i = cur[p].i + 1
           \/ /\ pc[p] = "status" /\ pc'[p] = "nettests"
              /\ cur'[p] = [t |-> cur[p].t + 1, i |-> 1]
<1>0. ASSUME NEW l, Goto(p, l)
      PROVE  pc'[p] = l
  BY <1>0 DEF Goto, SubTypeOK
<1>16. ~ EndNettest(p, TRUE)
  BY DEF EndNettest, NtTypeOK
<1>17. ASSUME EndNettest(p, FALSE)
       PROVE  pc'[p] = "nettests" /\ cur'[p] = [t |-> cur[p].t + 1, i |-> 1]
  BY <1>0, <1>17 DEF EndNettest, SubTypeOK
<1>18. ASSUME NextInput(p)
       PROVE  pc'[p] = "loop" /\ cur'[p].t = cur[p].t /\ cur'[p].i = cur[p].i + 1
  BY <1>0, <1>18 DEF NextInput, SubTypeOK
<1> USE DEF At, InMeasurement
<1>1. CASE StartGroup(p)
  <2>1. cur'[p] = [t |-> 1, i |-> 1]
    BY <1>1 DEF StartGroup, SubTypeOK
  <2>2. QED
    BY <1>0, <1>1, <2>1 DEF StartGroup
<1>2. CASE StartNettest(p)
  BY <1>0, <1>2, <1>16, <1>17 DEF StartNettest
<1>3. CASE CleanUp(p)
  BY <1>0, <1>3 DEF CleanUp
<1>4. CASE Finished(p)
  BY <1>0, <1>4 DEF Finished
<1>5. CASE RunWithoutSubmitter(p)
  BY <1>0, <1>5 DEF RunWithoutSubmitter
<1>6. CASE StopLoop(p)
  BY <1>0, <1>6 DEF StopLoop
<1>7. CASE CreateMeasurement(p)
  <2>1. Here(p) \in DOMAIN Insert(rows, Here(p), NewRow)
    <3>1. DOMAIN Insert(rows, Here(p), NewRow) = DOMAIN rows \cup {Here(p)}
      BY Inserting
    <3>2. QED
      BY <3>1, Zenon
  <2>2. /\ pc[p] = "loop" /\ cur' = cur /\ Goto(p, "measure")
        /\ rows' = Insert(rows, Here(p), NewRow)
    BY <1>7, <1>16 DEF CreateMeasurement
  <2>3. QED
    BY <1>0, <2>1, <2>2
<1>8. CASE Measure(p)
  BY <1>0, <1>8, <1>16, <1>18 DEF Measure
<1>9. CASE UploadSucceeded(p)
  BY <1>0, <1>9, <1>16 DEF UploadSucceeded, Record
<1>10. CASE UploadFailed(p)
  BY <1>0, <1>10, <1>16 DEF UploadFailed, Record
<1>11. CASE SaveMeasurement(p)
  BY <1>0, <1>11, <1>16 DEF SaveMeasurement
<1>12. CASE Done(p)
  BY <1>0, <1>12, <1>16 DEF Done, Record
<1>13. CASE AddTestKeys(p)
  BY <1>0, <1>13, <1>16, <1>18 DEF AddTestKeys
<1>14. CASE UpdateUploadedStatus(p)
  BY <1>0, <1>14, <1>16, <1>17 DEF UpdateUploadedStatus
<1>15. QED
  BY <1>1, <1>2, <1>3, <1>4, <1>5, <1>6, <1>7, <1>8, <1>9, <1>10, <1>11, <1>12, <1>13, <1>14 DEF NettestStep

\* Settings do not change, and a request to stop is not taken back.
LEMMA SettingsStay ==
    ASSUME TypeOK, [Next]_vars
    PROVE  config' = config /\ \A q \in Procs : terminated[q] => terminated'[q]
<1>1. CASE \E p \in Procs : Step(p) \/ Crash(p)
  BY <1>1 DEF Step, Crash, ntVars, NettestStep, StartGroup, StartNettest, CleanUp, Finished,
     RunWithoutSubmitter, StopLoop, CreateMeasurement, Measure, UploadSucceeded, UploadFailed,
     SaveMeasurement, Done, AddTestKeys, UpdateUploadedStatus, Record
<1>2. CASE Environment
  BY <1>2 DEF Environment, Terminate, DeleteRow, RemoveDir, ntVars, TypeOK, NtTypeOK
<1>3. CASE UNCHANGED vars
  BY <1>3 DEF vars, ntVars
<1>4. QED
  BY <1>1, <1>2, <1>3 DEF Next, AllHalted

\* What is covered stays so for an invocation that nothing has happened to.
LEMMA CoveredStays ==
    ASSUME NEW q \in Procs, pc'[q] = pc[q], cur'[q] = cur[q], RowsOf(q)' = RowsOf(q),
           HasResult(q)' => HasResult(q), failed'[q] = failed[q],
           config' = config, terminated[q] => terminated'[q], CoveredOf(q)
    PROVE  CoveredOf(q)'
<1>1. Here(q)' = Here(q) /\ (Here(q) \in DOMAIN rows => Here(q) \in DOMAIN rows')
  <2>1. Here(q)' = Here(q) /\ Here(q)[1] = q
    BY DEF Here
  <2>2. QED
    BY <2>1 DEF RowsOf
<1>2. Wanted(q)' = Wanted(q)
  BY DEF Wanted
<1>3. \A m \in Wanted(q) : m[1] = q /\ Passed(m)' = Passed(m)
  BY DEF Wanted, Passed
<1>4. \A m \in Wanted(q) : m \in DOMAIN rows => m \in DOMAIN rows'
  BY <1>3 DEF RowsOf
<1>5. QED
  BY <1>1, <1>2, <1>3, <1>4 DEF CoveredOf

\* Until a nettest fails or the run is cut short, the invocation leaves out none
\* of its measurements.
LEMMA CoveredNext ==
    ASSUME TypeOK, Place, Separate, Deleted, Covered, [Next]_vars
    PROVE  Covered'
<1>1. SubTypeOK /\ NtTypeOK /\ config' = config /\ \A q \in Procs : terminated[q] => terminated'[q]
  BY SettingsStay DEF TypeOK
<1>2. ASSUME NEW p \in Procs, SubmissionStep(p) \/ Crash(p), UNCHANGED ntVars
      PROVE  Covered'
  <2>1. UNCHANGED <<result, rows, failed, cur>>
    BY <1>1, <1>2, SubmissionGoes DEF ntVars
  <2>2. \A q \in Procs : /\ RowsOf(q)' = RowsOf(q) /\ HasResult(q)' = HasResult(q)
                         /\ Here(q)' = Here(q)
    BY <2>1 DEF RowsOf, HasResult, Here
  <2>3. \A q \in Procs : q # p => CoveredOf(q)'
    BY <1>1, <1>2, <2>1, <2>2, SubmissionGoes, CoveredStays DEF Covered
  <2>4. CoveredOf(p)'
    <3>1. /\ pc'[p] \notin {"status", "finish", "finished"}
          /\ pc'[p] \in InMeasurement => pc[p] \in InMeasurement
      BY <1>1, <1>2, SubmissionGoes
    <3>2. Wanted(p)' = Wanted(p) /\ \A m \in Wanted(p) : Passed(m)' = Passed(m)
      BY <1>1, <2>1 DEF Wanted, Passed
    <3>3. CoveredOf(p)
      BY DEF Covered
    <3>4. QED
      BY <1>1, <2>1, <2>2, <3>1, <3>2, <3>3 DEF CoveredOf
  <2>5. QED
    BY <2>3, <2>4 DEF Covered
<1>3. ASSUME program = "miniooni", UNCHANGED ntVars
      PROVE  Covered'
  <2>1. DOMAIN result' = {}
    BY <1>3 DEF Separate, ntVars
  <2>2. QED
    BY <2>1 DEF Covered, CoveredOf, HasResult
<1>4. ASSUME NEW p \in Procs, DeleteRow(p)
      PROVE  Covered'
  <2>1. /\ DOMAIN rows' = DOMAIN rows \ RowsOf(p)
        /\ DOMAIN result' = DOMAIN result \ {p}
        /\ UNCHANGED <<pc, cur, failed>>
    BY <1>4 DEF DeleteRow, idleVars
  <2>2. ASSUME NEW q \in Procs, q # p
        PROVE  CoveredOf(q)'
    <3>1. RowsOf(q)' = RowsOf(q)
      BY <2>1, <2>2 DEF RowsOf
    <3>2. HasResult(q)' = HasResult(q)
      BY <2>1, <2>2 DEF HasResult
    <3>3. QED
      BY <1>1, <2>1, <3>1, <3>2, CoveredStays DEF Covered
  <2>3. CoveredOf(p)'
    BY <2>1 DEF CoveredOf, HasResult
  <2>4. QED
    BY <2>2, <2>3 DEF Covered
<1>5. CASE UNCHANGED <<pc, cur, result, rows, failed>>
  <2>1. \A q \in Procs : RowsOf(q)' = RowsOf(q) /\ HasResult(q)' = HasResult(q)
    BY <1>5 DEF RowsOf, HasResult
  <2>2. QED
    BY <1>1, <1>5, <2>1, CoveredStays DEF Covered
<1>6. ASSUME NEW p \in Procs, RemoveDir(p)
      PROVE  Covered'
  BY <1>5, <1>6 DEF RemoveDir, subVars, idleVars
<1>7. ASSUME NEW p \in Procs, NettestStep(p), Step(p)
      PROVE  Covered'
  <2>1. ASSUME NEW q \in Procs, q # p
        PROVE  CoveredOf(q)'
    <3>1. pc'[q] = pc[q] /\ cur'[q] = cur[q] /\ failed'[q] = failed[q]
      BY <1>1, <1>7, <2>1, OthersStay, MemoryAfter
    <3>2. RowsOf(q)' = RowsOf(q)
      BY <1>1, <1>7, <2>1, OthersRows
    <3>3. HasResult(q)' = HasResult(q)
      BY <1>1, <1>7, <2>1, ResultAfter DEF HasResult
    <3>4. QED
      BY <1>1, <3>1, <3>2, <3>3, CoveredStays DEF Covered
  <2>2. CoveredOf(p)'
    <3>0. PICK h : h = Here(p)
      OBVIOUS
    <3>1. SUFFICES ASSUME HasResult(p)', failed'[p] = {}, ~ terminated'[p], ~ config'[p].limited
                   PROVE  /\ \A m \in Wanted(p)' : Passed(m)' => m \in DOMAIN rows'
                          /\ pc'[p] \in InMeasurement => Here(p)' \in DOMAIN rows'
                          /\ pc'[p] = "status" => cur'[p].i > Inputs[p][cur'[p].t]
                          /\ pc'[p] \in {"finish", "finished"} => cur'[p].t > Len(Inputs[p])
      BY DEF CoveredOf
    <3>2. failed[p] = {} /\ ~ terminated[p] /\ ~ config[p].limited
      BY <1>1, <1>7, <3>1, MemoryAfter
    <3>3. pc[p] # "start" =>
            /\ \A m \in Wanted(p) : Passed(m) => m \in DOMAIN rows
            /\ pc[p] \in InMeasurement => h \in DOMAIN rows
            /\ pc[p] = "status" => cur[p].i > Inputs[p][cur[p].t]
            /\ pc[p] \in {"finish", "finished"} => cur[p].t > Len(Inputs[p])
      <4>1. ASSUME pc[p] # "start"
            PROVE  HasResult(p)
        BY <1>1, <1>7, <3>1, <4>1, ResultAfter DEF HasResult
      <4>2. CoveredOf(p)
        BY DEF Covered
      <4>3. QED
        BY <3>0, <3>2, <4>1, <4>2 DEF CoveredOf
    <3>4. /\ DOMAIN rows \subseteq DOMAIN rows'
          /\ cur[p].t \in Nat /\ cur[p].i \in Nat
          /\ Wanted(p)' = Wanted(p)
      BY <1>1, <1>7, RowsAfter DEF SubTypeOK, Wanted
    <3>5. ASSUME NEW m \in Wanted(p)
          PROVE  /\ m[1] = p /\ m[2] \in Nat /\ m[2] >= 1 /\ m[3] \in Nat /\ m[3] >= 1
                 /\ m = <<p, m[2], m[3]>>
                 /\ m[3] <= Inputs[p][m[2]] /\ Inputs[p][m[2]] \in Nat
                 /\ ~ (config[p].manual /\ m[2] \in OnlyBackground)
      <4>1. m \in Measurements /\ m[1] = p /\ ~ (config[p].manual /\ m[2] \in OnlyBackground)
        BY DEF Wanted
      <4>2. QED
        BY <4>1, MeasurementParts, MeasurementBound
    <3>6. \A m \in Wanted(p) :
            /\ Passed(m) <=> m[2] < cur[p].t \/ (m[2] = cur[p].t /\ m[3] < cur[p].i)
            /\ Passed(m)' <=> m[2] < cur'[p].t \/ (m[2] = cur'[p].t /\ m[3] < cur'[p].i)
      BY <3>5 DEF Passed
    <3>7. cur'[p] = cur[p] => Here(p)' = h
      BY <3>0 DEF Here
    <3>8. \A m \in Wanted(p) : m[2] = cur[p].t /\ m[3] = cur[p].i => m = h
      BY <3>0, <3>5 DEF Here
    <3>9. CASE cur'[p] = cur[p] /\ pc[p] # "start"
      <4>1. \A m \in Wanted(p)' : Passed(m)' => m \in DOMAIN rows'
        BY <3>3, <3>4, <3>6, <3>9
      <4>2. QED
        BY <1>1, <1>7, <3>0, <3>1, <3>2, <3>3, <3>4, <3>7, <3>9, <4>1, NettestGoes
        DEF InMeasurement
    <3>10. CASE pc[p] = "start"
      <4>0. pc'[p] \in {"nettests", "ended"} /\ cur'[p] = [t |-> 1, i |-> 1]
        <5>1. pc[p] \notin InMeasurement
          BY <3>10 DEF InMeasurement
        <5>2. QED
          BY <1>1, <1>7, <3>1, <3>10, <5>1, NettestGoes
      <4>1. pc'[p] \in {"nettests", "ended"} /\ cur'[p].t = 1 /\ cur'[p].i = 1
        BY <4>0
      <4>2. \A m \in Wanted(p) : ~ Passed(m)'
        BY <3>5, <3>6, <4>1
      <4>3. QED
        BY <3>4, <4>1, <4>2 DEF InMeasurement
    <3>11. CASE /\ pc'[p] = "nettests" /\ pc[p] # "start"
                /\ cur'[p] = [t |-> cur[p].t + 1, i |-> 1]
                /\ \/ pc[p] = "status"
                   \/ config[p].manual /\ cur[p].t \in OnlyBackground
      <4>1. cur'[p].t = cur[p].t + 1 /\ cur'[p].i = 1
        BY <3>11
      <4>2. ASSUME NEW m \in Wanted(p), Passed(m)'
            PROVE  Passed(m)
        <5>1. m[2] <= cur[p].t
          BY <3>4, <3>5, <3>6, <4>1, <4>2
        <5>2. CASE m[2] < cur[p].t
          BY <3>6, <5>2
        <5>3. CASE m[2] = cur[p].t
          <6>1. pc[p] = "status"
            BY <3>5, <3>11, <5>3
          <6>2. cur[p].i > Inputs[p][m[2]]
            BY <3>3, <5>3, <6>1
          <6>3. m[3] < cur[p].i
            BY <3>4, <3>5, <6>2
          <6>4. QED
            BY <3>6, <5>3, <6>3
        <5>4. QED
          BY <3>4, <3>5, <5>1, <5>2, <5>3
      <4>3. QED
        BY <3>3, <3>4, <3>11, <4>2 DEF InMeasurement
    <3>12. CASE /\ pc[p] \in InMeasurement /\ pc'[p] = "loop"
                /\ cur'[p].t = cur[p].t /\ cur'[p].i = cur[p].i + 1
      <4>1. pc[p] # "start"
        BY <3>12 DEF InMeasurement
      <4>2. ASSUME NEW m \in Wanted(p), Passed(m)'
            PROVE  Passed(m) \/ m = h
        BY <3>4, <3>5, <3>6, <3>8, <3>12, <4>2
      <4>3. QED
        BY <3>3, <3>4, <3>12, <4>1, <4>2 DEF InMeasurement
    <3>13. QED
      BY <1>1, <1>7, <3>1, <3>9, <3>10, <3>11, <3>12, NettestGoes
  <2>3. QED
    BY <2>1, <2>2 DEF Covered
<1>8. QED
  BY <1>2, <1>3, <1>4, <1>5, <1>6, <1>7, BookSteps

\* What RunGroup has finished is complete.
LEMMA FinishedNext ==
    ASSUME TypeOK, Place, Separate, Deleted, Complete, Covered, FinishedIsComplete, [Next]_vars
    PROVE  FinishedIsComplete'
<1>1. /\ SubTypeOK /\ NtTypeOK /\ DOMAIN result \subseteq Procs
      /\ config' = config /\ \A q \in Procs : terminated[q] => terminated'[q]
  BY SettingsStay DEF TypeOK, Deleted
<1> DEFINE FinishedOf(q) ==
        result[q].done /\ failed[q] = {} =>
            /\ \A m \in RowsOf(q) : rows[m].failed \/ (rows[m].done /\ rows[m].keys)
            /\ terminated[q] \/ config[q].limited \/ Wanted(q) \subseteq DOMAIN rows
<1>2. ASSUME NEW q \in DOMAIN result, result'[q] = result[q], failed'[q] = failed[q],
             RowsOf(q)' = RowsOf(q), \A m \in RowsOf(q) : rows'[m] = rows[m]
      PROVE  FinishedOf(q)'
  <2>1. Wanted(q)' = Wanted(q) /\ \A m \in Wanted(q) : m \in DOMAIN rows => m \in RowsOf(q)
    BY <1>1 DEF Wanted, RowsOf
  <2>2. \A m \in RowsOf(q)' : m \in DOMAIN rows'
    BY DEF RowsOf
  <2>3. FinishedOf(q) /\ (terminated[q] => terminated'[q])
    BY <1>1 DEF FinishedIsComplete
  <2>4. QED
    BY <1>1, <1>2, <2>1, <2>2, <2>3
<1>3. CASE UNCHANGED <<result, failed, rows>>
  <2>1. ASSUME NEW q \in DOMAIN result'
        PROVE  FinishedOf(q)'
    BY <1>2, <1>3 DEF RowsOf
  <2>2. QED
    BY <2>1 DEF FinishedIsComplete
<1>4. ASSUME NEW p \in Procs, DeleteRow(p)
      PROVE  FinishedIsComplete'
  <2>1. /\ DOMAIN rows' = DOMAIN rows \ RowsOf(p) /\ \A m \in DOMAIN rows' : rows'[m] = rows[m]
        /\ DOMAIN result' = DOMAIN result \ {p} /\ \A q \in DOMAIN result' : result'[q] = result[q]
        /\ failed' = failed
    BY <1>4 DEF DeleteRow, idleVars
  <2>2. ASSUME NEW q \in DOMAIN result'
        PROVE  FinishedOf(q)'
    <3>1. q \in DOMAIN result /\ q # p
      BY <2>1
    <3>2. RowsOf(q)' = RowsOf(q) /\ \A m \in RowsOf(q) : rows'[m] = rows[m]
      BY <2>1, <3>1 DEF RowsOf
    <3>3. QED
      BY <1>2, <2>1, <3>1, <3>2
  <2>3. QED
    BY <2>2 DEF FinishedIsComplete
<1>5. ASSUME NEW p \in Procs, NettestStep(p), Step(p)
      PROVE  FinishedIsComplete'
  <2>1. ASSUME NEW q \in DOMAIN result', q # p
        PROVE  FinishedOf(q)'
    <3>1. q \in DOMAIN result /\ q \in Procs /\ result'[q] = result[q]
      BY <1>1, <1>5, <2>1, ResultAfter
    <3>2. failed'[q] = failed[q]
      BY <1>1, <1>5, <2>1, <3>1, MemoryAfter
    <3>3. RowsOf(q)' = RowsOf(q) /\ \A m \in RowsOf(q) : rows'[m] = rows[m]
      BY <1>1, <1>5, <2>1, <3>1, OthersRows
    <3>4. QED
      BY <1>2, <3>1, <3>2, <3>3
  <2>2. ASSUME p \in DOMAIN result', result'[p].done, failed'[p] = {}
        PROVE  FinishedOf(p)'
    <3>1. pc[p] # "start"
      BY <1>1, <1>5, <2>2, StartsUndone DEF Deleted, HasResult
    <3>2. p \in DOMAIN result /\ failed[p] = {} /\ CompleteOf(p)
      BY <1>1, <1>5, <2>2, <3>1, ResultAfter, MemoryAfter DEF Complete
    <3>3. result' # result \/ pc[p] = "ended"
      BY <2>2, <3>2 DEF CompleteOf, HasResult
    <3>4. pc[p] = "finished" /\ rows' = rows
      BY <1>1, <1>5, <2>2, <3>1, <3>3, ResultAfter
    <3>5. RowsOf(p)' = RowsOf(p)
      BY <3>4 DEF RowsOf
    <3>6. \A m \in RowsOf(p)' : rows'[m].failed \/ (rows'[m].done /\ rows'[m].keys)
      BY <3>2, <3>4, <3>5 DEF CompleteOf, Between, Settled
    <3>7. ASSUME ~ terminated'[p], ~ config'[p].limited, NEW m \in Wanted(p)'
          PROVE  m \in DOMAIN rows'
      <4>1. /\ CoveredOf(p) /\ HasResult(p) /\ ~ terminated[p] /\ ~ config[p].limited
            /\ m \in Wanted(p) /\ m \in Measurements /\ m[1] = p
        BY <1>1, <3>2, <3>7 DEF Covered, HasResult, Wanted
      <4>2. cur[p].t > Len(Inputs[p]) /\ (Passed(m) => m \in DOMAIN rows)
        BY <3>2, <3>4, <4>1 DEF CoveredOf
      <4>3. m[2] <= Len(Inputs[p]) /\ m[2] \in Nat /\ Len(Inputs[p]) \in Nat /\ cur[p].t \in Nat
        <5>1. m[2] <= Len(Inputs[p]) /\ m[2] \in Nat
          BY <4>1, MeasurementParts, MeasurementBound
        <5>2. Len(Inputs[p]) \in Nat /\ cur[p].t \in Nat
          BY <1>1, InputsAssumption DEF SubTypeOK
        <5>3. QED
          BY <5>1, <5>2
      <4>4. Passed(m)
        BY <4>1, <4>2, <4>3 DEF Passed
      <4>5. QED
        BY <3>4, <4>2, <4>4
    <3>8. QED
      BY <3>6, <3>7
  <2>3. QED
    BY <2>1, <2>2 DEF FinishedIsComplete
<1>6. QED
  BY <1>3, <1>4, <1>5, BookSteps DEF ntVars, RemoveDir

-----------------------------------------------------------------------------
(* The report.                                                             *)

\* The step of miniooni only leaves a measurement behind that it has reported,
\* that has ended its nettest with an error, or that it has not submitted.
LEMMA RunReports ==
    ASSUME SubTypeOK, RunTypeOK, NEW p \in Procs, RunStep(p)
    PROVE  /\ report \subseteq report'
           /\ stopped[p] \subseteq stopped'[p]
           /\ \A q \in Procs : q # p => pulled'[q] = pulled[q] /\ stopped'[q] = stopped[q]
           /\ pc[p] # "crashed"
           /\ pulled'[p] = pulled[p] \/ (pc[p] = "pull" /\ cur' = cur)
           /\ \/ cur'[p] = cur[p]
              \/ pc[p] \in {"start", "loop"}
              \/ Here(p) \in report'
              \/ cur[p].t \in stopped'[p]
<1>0. ASSUME EndExperiment(p, TRUE)
      PROVE  /\ stopped[p] \subseteq stopped'[p] /\ cur[p].t \in stopped'[p]
             /\ \A q \in Procs : q # p => stopped'[q] = stopped[q]
  BY <1>0 DEF EndExperiment, RunTypeOK
<1>10. ASSUME EndExperiment(p, FALSE)
       PROVE  stopped' = stopped
  BY <1>10 DEF EndExperiment
<1> USE DEF At
<1>1. CASE LoadCache(p)
  BY <1>0, <1>10, <1>1 DEF LoadCache, runVars
<1>2. CASE PullChanges(p)
  BY <1>2 DEF PullChanges, RunTypeOK
<1>3. CASE CompareDescriptors(p)
  BY <1>0, <1>10, <1>3 DEF CompareDescriptors, runVars
<1>4. CASE UpdateCache(p)
  BY <1>0, <1>10, <1>4 DEF UpdateCache, runVars
<1>5. CASE StartExperiment(p)
  BY <1>0, <1>10, <1>5 DEF StartExperiment, runVars
<1>6. CASE NoSubmitter(p)
  BY <1>0, <1>10, <1>6 DEF NoSubmitter, runVars
<1>7. CASE ProcessInput(p)
  BY <1>0, <1>10, <1>7 DEF ProcessInput, runVars
<1>8. CASE AfterSubmission(p)
  BY <1>0, <1>10, <1>8 DEF AfterSubmission, runVars
<1>9. CASE SaveToReport(p)
  BY <1>0, <1>10, <1>9 DEF SaveToReport, runVars
<1>11. QED
  BY <1>1, <1>2, <1>3, <1>4, <1>5, <1>6, <1>7, <1>8, <1>9 DEF RunStep

\* The steps of the submission are taken while measuring.
LEMMA NotCrashed ==
    ASSUME NEW p \in Procs, SubmissionStep(p) \/ Crash(p)
    PROVE  /\ pc[p] # "crashed"
           /\ SubmissionStep(p) => pc[p] \in Measuring
  BY DEF SubmissionStep, NoProbeServices, PlainSubmitter, GetManifest, ReuseCredential, Register,
     KeepRegistered, StartSubmit, SubmitWithCredential, CredentialRefused, RotateCredential,
     PlainSubmit, Crash, CrashSubmission, Halted, At, Measuring

\* What the backend has received is reported.
LEMMA ReportedNext ==
    ASSUME TypeOK, Place, Separate, Received, ReceivedIsReported, [Next]_vars
    PROVE  ReceivedIsReported'
<1>1. SubTypeOK /\ RunTypeOK /\ received \in [Measurements -> [plain : Nat, cred : Nat]]
  BY DEF TypeOK, SubTypeOK
<1> SUFFICES ASSUME NEW m \in Measurements, pulled'[m[1]] # Unknown,
                    received'[m].plain + received'[m].cred > 0
             PROVE  \/ m \in report'
                    \/ Here(m[1])' = m
                    \/ m[2] \in stopped'[m[1]]
                    \/ pc'[m[1]] = "crashed"
  BY DEF ReceivedIsReported
<1>2. PICK p \in Procs : p = m[1]
  BY MeasurementParts
<1>3. ASSUME received'[m] = received[m], pulled'[p] = pulled[p]
      PROVE  m \in report \/ Here(p) = m \/ m[2] \in stopped[p] \/ pc[p] = "crashed"
  BY <1>2, <1>3 DEF ReceivedIsReported
<1>4. CASE UNCHANGED <<pc, cur, received, pulled, report, stopped>>
  BY <1>2, <1>3, <1>4 DEF Here
<1>5. ASSUME NEW r \in Procs, SubmissionStep(r) \/ Crash(r), UNCHANGED <<pulled, report, stopped>>
      PROVE  m \in report' \/ Here(p)' = m \/ m[2] \in stopped'[p] \/ pc'[p] = "crashed"
  <2>1. Here(p)' = Here(p) /\ (r # p => pc'[p] = pc[p]) /\ (r = p => pc[p] # "crashed")
    BY <1>1, <1>5, SubmissionGoes, NotCrashed DEF Here
  <2>2. CASE received'[m] = received[m]
    BY <1>3, <1>5, <2>1, <2>2
  <2>3. CASE received'[m] # received[m]
    <3>1. pc[r] \in InMeasurement /\ \E path \in {"plain", "cred"} : Accept(Here(r), path)
      BY <1>5, <2>3, Submitting
    <3>2. Here(r) \in Measurements
      BY <1>1, <3>1, HereIsMeasurement
    <3>3. m = Here(r)
      BY <1>1, <2>3, <3>1, <3>2, Accepting
    <3>4. r = p
      BY <1>2, <3>3 DEF Here
    <3>5. QED
      BY <2>1, <3>3, <3>4
  <2>4. QED
    BY <2>2, <2>3
<1>6. ASSUME NEW r \in Procs, RunStep(r), Step(r)
      PROVE  m \in report' \/ Here(p)' = m \/ m[2] \in stopped'[p] \/ pc'[p] = "crashed"
  <2>1. received' = received
    BY <1>1, <1>6, OutsideSubmission
  <2>2. CASE r # p
    <3>1. pc'[p] = pc[p] /\ cur'[p] = cur[p]
      BY <1>1, <1>6, <2>2, OthersStay
    <3>2. pulled'[p] = pulled[p] /\ stopped'[p] = stopped[p] /\ report \subseteq report'
      BY <1>1, <1>6, <2>2, RunReports
    <3>3. QED
      BY <1>3, <2>1, <3>1, <3>2 DEF Here
  <2>3. CASE r = p
    <3>1. received[m] # Nothing
      BY <2>1 DEF Nothing
    <3>2. ReceivedOf(m) /\ m[2] \in Nat /\ m[2] >= 1 /\ m[3] \in Nat /\ m[3] >= 1
          /\ m = <<m[1], m[2], m[3]>> /\ cur[p].t \in Nat /\ cur[p].i \in Nat /\ Placed(p)
      BY <1>1, MeasurementParts DEF Received, SubTypeOK, Place
    <3>3. CASE pulled'[p] # pulled[p]
      <4>1. pc[p] = "pull"
        BY <1>1, <1>6, <2>3, <3>3, RunReports
      <4>2. cur[p].t = 1 /\ cur[p].i = 1
        BY <3>2, <4>1 DEF Placed, Before
      <4>3. Later(m) \/ Here(p) = m
        BY <1>2, <3>2, <4>2 DEF Later, Here
      <4>4. QED
        BY <1>2, <3>1, <3>2, <4>1, <4>3 DEF ReceivedOf, Unsent
    <3>4. CASE pulled'[p] = pulled[p]
      <4>1. pc[p] # "crashed" /\ report \subseteq report' /\ stopped[p] \subseteq stopped'[p]
        BY <1>1, <1>6, <2>3, RunReports
      <4>2. CASE Here(p) # m
        BY <1>3, <2>1, <3>4, <4>1, <4>2
      <4>3. CASE Here(p) = m
        <5>1. CASE cur'[p] = cur[p]
          BY <4>3, <5>1 DEF Here
        <5>2. pc[p] \notin {"start", "loop"}
          BY <1>2, <3>1, <3>2, <4>3 DEF ReceivedOf, Unsent
        <5>3. m[2] = cur[p].t
          BY <4>3 DEF Here
        <5>4. QED
          BY <1>1, <1>6, <2>3, <4>3, <5>1, <5>2, <5>3, RunReports
      <4>4. QED
        BY <4>2, <4>3
    <3>5. QED
      BY <3>3, <3>4
  <2>4. QED
    BY <2>2, <2>3
<1>7. CASE program = "ooniprobe" /\ program' = program
  <2>1. pulled'[p] = Unknown
    BY <1>7, SeparateNext DEF Separate
  <2>2. QED
    BY <1>2, <2>1
<1>8. CASE program # "ooniprobe"
  <2>1. CASE \E r \in Procs : Step(r) \/ Crash(r)
    BY <1>2, <1>5, <1>6, <1>8, <2>1 DEF Step, Crash, runVars
  <2>2. CASE Environment
    BY <1>4, <1>8, <2>2 DEF Environment, NewManifest, Publish, runVars, idleVars
  <2>3. CASE UNCHANGED vars
    BY <1>4, <2>3 DEF vars, subVars, idleVars, runVars
  <2>4. QED
    BY <2>1, <2>2, <2>3 DEF Next, AllHalted
<1>9. program' = program
  BY DEF Next, Step, Crash, Environment, AllHalted, vars
<1>10. QED
  BY <1>7, <1>8, <1>9

-----------------------------------------------------------------------------
(* What the cache vouches for.                                             *)

\* The cache, and every copy of it, vouches only for what has been accepted.
LEMMA ReviewedNext ==
    ASSUME TypeOK, Separate, Reviewed, [Next]_vars
    PROVE  Reviewed'
<1>1. /\ SubTypeOK /\ pc \in [Procs -> Labels]
      /\ link \in [Procs -> [url : Urls, accept : BOOLEAN, collect : BOOLEAN, limited : BOOLEAN]]
      /\ cache \in [Urls -> Int] /\ loaded \in [Procs -> [Urls -> Int]]
      /\ pulled \in [Procs -> Nat]
      /\ \A q \in Procs : link[q].url \in Urls
  BY DEF TypeOK, SubTypeOK, RunTypeOK
<1> DEFINE Past == Measuring \cup {"nettests", "update"}
           Consent(q) == pulled[q] # Unknown /\ pc[q] \in Past =>
                           <<link[q].url, pulled[q]>> \in accepted
<1>2. ASSUME NEW f, Vouched(f), accepted \subseteq accepted'
      PROVE  Vouched(f)'
  BY <1>2 DEF Vouched
<1>3. ASSUME cache' = cache \/ cache' = Torn, UNCHANGED <<loaded, accepted>>,
             \A q \in Procs : Consent(q)'
      PROVE  Reviewed'
  BY <1>3 DEF Reviewed, Vouched
<1>4. ASSUME NEW p \in Procs, NEW l, Goto(p, l)
      PROVE  pc'[p] = l /\ \A q \in Procs : q # p => pc'[q] = pc[q]
  BY <1>1, <1>4 DEF Goto
<1>5. ASSUME NEW p \in Procs, UNCHANGED <<link, pulled, accepted>>,
             pc'[p] \in Past => pc[p] \in Past, \A q \in Procs : q # p => pc'[q] = pc[q]
      PROVE  \A q \in Procs : Consent(q)'
  BY <1>5 DEF Reviewed
<1>6. CASE program = "ooniprobe" /\ program' = program
  <2>1. \A q \in Procs : pulled'[q] = Unknown
    BY <1>6, SeparateNext DEF Separate
  <2>2. UNCHANGED <<loaded, accepted>> /\ (cache' = cache \/ cache' = Torn)
    BY <1>6 DEF Next, Step, Crash, Environment, AllHalted, vars, runVars
  <2>3. QED
    BY <1>3, <2>1, <2>2
<1>7. ASSUME NEW p \in Procs, SubmissionStep(p), UNCHANGED runVars
      PROVE  Reviewed'
  <2>1. pc[p] \in Past /\ \A q \in Procs : q # p => pc'[q] = pc[q]
    BY <1>1, <1>7, NotCrashed, SubmissionGoes
  <2>2. QED
    BY <1>3, <1>5, <1>7, <2>1 DEF runVars
<1>8. ASSUME NEW p \in Procs, Crash(p)
      PROVE  Reviewed'
  <2>1. /\ pc'[p] = "crashed" /\ \A q \in Procs : q # p => pc'[q] = pc[q]
        /\ cache' = cache \/ cache' = Torn
        /\ UNCHANGED <<link, loaded, pulled, accepted>>
    BY <1>4, <1>8 DEF Crash, CrashSubmission
  <2>2. pc'[p] \notin Past
    BY <2>1 DEF Measuring
  <2>3. QED
    BY <1>3, <1>5, <2>1, <2>2
<1>9. CASE UNCHANGED <<pc, link, cache, loaded, pulled, accepted>>
  BY <1>9 DEF Reviewed, Vouched
<1>10. ASSUME NEW p \in Procs, LoadCache(p)
       PROVE  Reviewed'
  <2>1. /\ UNCHANGED <<link, cache, pulled, accepted>>
        /\ pc'[p] \in {"ended", "pull"} /\ \A q \in Procs : q # p => pc'[q] = pc[q]
        /\ \/ loaded' = loaded
           \/ cache # Torn /\ loaded' = [loaded EXCEPT ![p] = cache]
           \/ loaded' = [loaded EXCEPT ![p] = [u \in Urls |-> Unknown]]
    BY <1>4, <1>10 DEF LoadCache
  <2>2. \A q \in Procs : Consent(q)'
    <3>1. pc'[p] \notin Past
      BY <2>1 DEF Measuring
    <3>2. QED
      BY <1>5, <2>1, <3>1
  <2>3. Vouched([u \in Urls |-> Unknown])
    BY DEF Vouched
  <2>4. \A q \in Procs : Vouched(loaded'[q])
    BY <1>1, <2>1, <2>3 DEF Reviewed
  <2>5. QED
    BY <2>1, <2>2, <2>4 DEF Reviewed, Vouched
<1>11. ASSUME NEW p \in Procs, PullChanges(p)
       PROVE  Reviewed'
  <2>1. /\ UNCHANGED <<link, cache, loaded, accepted>>
        /\ pc'[p] \in {"ended", "compare"} /\ \A q \in Procs : q # p => pc'[q] = pc[q]
        /\ \A q \in Procs : q # p => pulled'[q] = pulled[q]
    BY <1>1, <1>4, <1>11 DEF PullChanges
  <2>2. pc'[p] \notin Past
    BY <2>1 DEF Measuring
  <2>3. \A q \in Procs : Consent(q)'
    BY <2>1, <2>2 DEF Reviewed
  <2>4. QED
    BY <1>3, <2>1, <2>3
<1>12. ASSUME NEW p \in Procs, CompareDescriptors(p)
       PROVE  Reviewed'
  <2>1. /\ UNCHANGED <<link, cache, loaded, pulled>> /\ accepted \subseteq accepted'
        /\ \A q \in Procs : q # p => pc'[q] = pc[q]
    BY <1>4, <1>12 DEF CompareDescriptors
  <2>2. Consent(p)'
    <3>1. CASE link[p].accept
      BY <1>12, <2>1, <3>1 DEF CompareDescriptors
    <3>2. CASE ~ link[p].accept
      <4>1. CASE Changed(p)
        <5>1. pc'[p] = "ended"
          BY <1>4, <1>12, <3>2, <4>1 DEF CompareDescriptors
        <5>2. QED
          BY <5>1 DEF Measuring
      <4>2. CASE ~ Changed(p)
        <5>1. loaded[p][link[p].url] = pulled[p]
          BY <4>2 DEF Changed
        <5>2. pulled[p] # Unknown => <<link[p].url, pulled[p]>> \in accepted
          BY <1>1, <5>1 DEF Reviewed, Vouched
        <5>3. QED
          BY <2>1, <5>2
      <4>3. QED
        BY <4>1, <4>2
    <3>3. QED
      BY <3>1, <3>2
  <2>3. \A q \in Procs : Consent(q)'
    BY <2>1, <2>2 DEF Reviewed
  <2>4. (cache # Torn => Vouched(cache)') /\ \A q \in Procs : Vouched(loaded[q])'
    BY <2>1 DEF Reviewed, Vouched
  <2>5. QED
    BY <2>1, <2>3, <2>4 DEF Reviewed
<1>13. ASSUME NEW p \in Procs, UpdateCache(p)
       PROVE  Reviewed'
  <2>1. /\ UNCHANGED <<link, loaded, pulled, accepted>> /\ pc[p] = "update"
        /\ \A q \in Procs : q # p => pc'[q] = pc[q]
        /\ \/ cache' = cache \/ cache' = Torn
           \/ cache' = [loaded[p] EXCEPT ![link[p].url] = pulled[p]]
    BY <1>4, <1>13 DEF UpdateCache, At
  <2>2. \A q \in Procs : Consent(q)'
    BY <1>5, <2>1
  <2>3. ASSUME cache' = [loaded[p] EXCEPT ![link[p].url] = pulled[p]]
        PROVE  Vouched(cache')
    <3>1. Vouched(loaded[p]) /\ (pulled[p] # Unknown => <<link[p].url, pulled[p]>> \in accepted)
      BY <2>1 DEF Reviewed
    <3>2. loaded[p] \in [Urls -> Int]
      BY <1>1
    <3>3. QED
      BY <2>3, <3>1, <3>2 DEF Vouched
  <2>4. QED
    BY <1>3, <2>1, <2>2, <2>3 DEF Reviewed, Vouched
<1>14. ASSUME NEW p \in Procs, StartExperiment(p) \/ NoSubmitter(p) \/ ProcessInput(p)
                               \/ AfterSubmission(p) \/ SaveToReport(p)
       PROVE  Reviewed'
  <2>1. UNCHANGED <<link, cache, loaded, pulled, accepted>>
    BY <1>14 DEF StartExperiment, NoSubmitter, ProcessInput, AfterSubmission, SaveToReport, runVars
  <2>2. pc[p] \in Past
    BY <1>14 DEF StartExperiment, NoSubmitter, ProcessInput, AfterSubmission, SaveToReport, At,
       Measuring
  <2>3. \E l : Goto(p, l)
    BY <1>14 DEF StartExperiment, NoSubmitter, ProcessInput, AfterSubmission, SaveToReport,
       EndExperiment
  <2>4. \A q \in Procs : q # p => pc'[q] = pc[q]
    BY <1>4, <2>3
  <2>5. QED
    BY <1>3, <1>5, <2>1, <2>2, <2>4
<1>15. CASE program # "ooniprobe"
  <2>1. CASE \E p \in Procs : Step(p) \/ Crash(p)
    BY <1>7, <1>8, <1>10, <1>11, <1>12, <1>13, <1>14, <1>15, <2>1 DEF Step, RunStep
  <2>2. CASE Environment
    BY <1>9, <1>15, <2>2 DEF Environment, NewManifest, Publish, runVars, idleVars
  <2>3. CASE UNCHANGED vars
    BY <1>9, <2>3 DEF vars, subVars, idleVars, runVars
  <2>4. QED
    BY <2>1, <2>2, <2>3 DEF Next, AllHalted
<1>16. program' = program
  BY DEF Next, Step, Crash, Environment, AllHalted, vars
<1>17. QED
  BY <1>6, <1>15, <1>16

-----------------------------------------------------------------------------
(* The theorems.                                                           *)

\* The invariant holds when no invocation has started.
LEMMA InvInit ==
    ASSUME Init
    PROVE  IInv
<1>1. TypeOK
  <2>1. SubTypeOK
    BY BoundsAssumption DEF Init, SubInit, SubTypeOK, Labels, NoCredential, Empty
  <2>2. NtTypeOK
    BY ConfigsAssumption DEF Init, NtInit, NtTypeOK
  <2>3. RunTypeOK
    BY LinksAssumption DEF Init, RunInit, RunTypeOK, Unknown
  <2>4. QED
    BY <2>1, <2>2, <2>3 DEF TypeOK, Init
<1>2. /\ \A p \in Procs : pc[p] = "start" /\ cur[p].t = 0
      /\ DOMAIN rows = {} /\ DOMAIN result = {} /\ files = {} /\ spent = {}
      /\ \A m \in Measurements : received[m] = Nothing
      /\ \A p \in Procs : pulled[p] = Unknown /\ removing[p] = "no" /\ held[p] = 0
      /\ store.cred = 0 /\ minted = 0
  BY DEF Init, SubInit, NtInit, RunInit, Nothing, NoCredential, Empty
<1>3. Place /\ Separate
  BY <1>2 DEF Place, Placed, Separate, InNettest, InMeasurement, Before
<1>4. Credentials /\ StoredCredentialFresh
  BY <1>2 DEF Credentials, StoredCredentialFresh, Giving
<1>5. Received /\ DuplicatesExplained /\ ReceivedIsReported
  <2>1. Received
    <3>1. \A m \in Measurements : m[1] \in Procs
      BY MeasurementParts
    <3>2. QED
      BY <1>2, <3>1 DEF Received, ReceivedOf, Unsent
  <2>2. DuplicatesExplained
    BY <1>2 DEF DuplicatesExplained, Nothing
  <2>3. ReceivedIsReported
    BY <1>2 DEF ReceivedIsReported, Nothing
  <2>4. QED
    BY <2>1, <2>2, <2>3
<1>6. Deleted /\ Recorded /\ NothingLost /\ DeletedStaysDeleted
  BY <1>2 DEF Deleted, Recorded, NothingLost, DeletedStaysDeleted, HasResult, RowsOf
<1>7. Complete /\ Covered /\ FinishedIsComplete
  BY <1>2 DEF Complete, CompleteOf, Covered, CoveredOf, FinishedIsComplete, HasResult, RowsOf,
     Between, InMeasurement
<1>8. Reviewed
  <2>1. Vouched(cache) /\ \A p \in Procs : Vouched(loaded[p])
    BY DEF Init, RunInit, Vouched
  <2>2. QED
    BY <1>2, <2>1 DEF Reviewed
<1>9. QED
  BY <1>1, <1>3, <1>4, <1>5, <1>6, <1>7, <1>8 DEF IInv

\* Every step of either program, every crash and every intervention keeps it.
LEMMA InvNext ==
    ASSUME IInv, [Next]_vars
    PROVE  IInv'
<1>1. TypeOK' /\ Place' /\ Separate'
  BY TypeNext, PlaceNext, SeparateNext DEF IInv, TypeOK
<1>2. Credentials' /\ StoredCredentialFresh'
  BY CredentialsNext DEF IInv, TypeOK
<1>3. Received' /\ DuplicatesExplained'
  BY ReceivedNext DEF IInv, TypeOK
<1>4. Deleted' /\ DeletedStaysDeleted'
  BY DeletedNext DEF IInv
<1>5. Recorded' /\ NothingLost'
  BY RecordedNext DEF IInv
<1>6. Complete' /\ Covered' /\ FinishedIsComplete'
  BY CompleteNext, CoveredNext, FinishedNext DEF IInv
<1>7. ReceivedIsReported' /\ Reviewed'
  BY ReportedNext, ReviewedNext DEF IInv
<1>8. QED
  BY <1>1, <1>2, <1>3, <1>4, <1>5, <1>6, <1>7 DEF IInv

\* The invariant holds whatever the invocations, the faults and their order.
THEOREM Invariance == Spec => []IInv
<1>1. Init => IInv
  BY InvInit
<1>2. IInv /\ [Next]_vars => IInv'
  BY InvNext
<1>3. QED
  BY <1>1, <1>2, PTL DEF Spec

\* submitWithCredential persists the rotated credential before it reports
\* success: what is in the store has only been used when its successor is on its
\* way or a fault has stopped it, however many invocations share the store.
THEOREM StoredCredentialIsFresh == Spec => []StoredCredentialFresh
<1>1. IInv => StoredCredentialFresh
  BY DEF IInv
<1>2. QED
  BY <1>1, Invariance, PTL

\* The backend has a measurement twice only if it came once on each path, and then
\* a fault explains it: the answer that Submit waited for was lost, or Submit had
\* it and could not store the rotated credential.
THEOREM DuplicatesAreExplained == Spec => []DuplicatesExplained
<1>1. IInv => DuplicatesExplained
  BY DEF IInv
<1>2. QED
  BY <1>1, Invariance, PTL

\* The database, the files and the report of both programs agree with what the
\* backend has, through crashes, failed writes and `ooniprobe rm` at any time.
THEOREM MeasurementsAreAccounted == Spec => []MeasurementsAccounted
<1>1. IInv => MeasurementsAccounted
  BY DEF IInv, MeasurementsAccounted
<1>2. QED
  BY <1>1, Invariance, PTL

\* A result that RunGroup has marked as done, with no nettest failed, has only
\* settled rows and, unless the run was cut short, one for each input of each
\* nettest that it had to run.
THEOREM FinishedResultsAreComplete == Spec => []FinishedIsComplete
<1>1. IInv => FinishedIsComplete
  BY DEF IInv
<1>2. QED
  BY <1>1, Invariance, PTL

\* v2MeasureHTTPS runs no descriptor that the user has not consented to, although
\* other invocations rewrite the cache between its load and its update.
THEOREM NothingRunsUnreviewed == Spec => []NoUnreviewedRun
<1>1. IInv => NoUnreviewedRun
  BY DEF IInv, Reviewed, NoUnreviewedRun
<1>2. QED
  BY <1>1, Invariance, PTL
=============================================================================
