----------------------------- MODULE Programs -----------------------------
(***************************************************************************)
(* The two command line programs over the shared submission: all the       *)
(* invocations are of one of them, which the first state chooses.          *)
(***************************************************************************)
EXTENDS Nettests, OONIRun

VARIABLE program   \* "ooniprobe" or "miniooni"

vars == <<subVars, ntVars, runVars, program>>

Init ==
    /\ program \in {"ooniprobe", "miniooni"}
    /\ pc = [p \in Procs |-> "start"]
    /\ SubInit
    /\ NtInit
    /\ RunInit
    \* The command line that the other program would have had is fixed.
    /\ program = "ooniprobe" => link = CHOOSE l \in Links : TRUE
    /\ program = "miniooni" => config = CHOOSE c \in Configs : TRUE

Step(p) ==
    \/ SubmissionStep(p) /\ UNCHANGED <<ntVars, runVars, program>>
    \/ program = "ooniprobe" /\ NettestStep(p) /\ UNCHANGED <<runVars, program>>
    \/ program = "miniooni" /\ RunStep(p) /\ UNCHANGED <<ntVars, program>>

\* A crash may also tear the cache file that is being written.
Crash(p) ==
    /\ CrashSubmission(p)
    /\ IF At(p, "update") THEN cache' \in {cache, Torn} ELSE UNCHANGED cache
    /\ UNCHANGED <<ntVars, link, server, loaded, pulled, report, stopped, accepted, program>>

Environment ==
    \/ NewManifest /\ UNCHANGED <<ntVars, runVars, program>>
    \/ /\ program = "ooniprobe"
       /\ \E p \in Procs : Terminate(p) \/ DeleteRow(p) \/ RemoveDir(p)
       /\ UNCHANGED <<runVars, program>>
    \/ /\ program = "miniooni"
       /\ \E u \in Urls : Publish(u)
       /\ UNCHANGED <<ntVars, program>>

\* Nothing is left to happen: any other state without a successor is an
\* invocation that hangs.
AllHalted == (\A p \in Procs : pc[p] \in Halted) /\ UNCHANGED vars

Next ==
    \/ \E p \in Procs : Step(p) \/ Crash(p)
    \/ Environment
    \/ AllHalted

Spec == Init /\ [][Next]_vars

-----------------------------------------------------------------------------

\* Both programs keep their books: what is marked as measured can be found, what
\* the backend has is in the report, and what was deleted stays deleted.
MeasurementsAccounted == NothingLost /\ DeletedStaysDeleted /\ ReceivedIsReported
=============================================================================
