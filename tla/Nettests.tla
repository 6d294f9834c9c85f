----------------------------- MODULE Nettests -----------------------------
(***************************************************************************)
(* ooniprobe: a group of nettests (nettests.RunGroup), the loop over the   *)
(* inputs of each one (Controller.Run), and the database and the files in  *)
(* which the measurements are kept, with `ooniprobe rm` and signals at any *)
(* time.  Each invocation runs one group and so owns one row of results,   *)
(* one directory, and the rows of its measurements.                        *)
(***************************************************************************)
EXTENDS Submission

CONSTANTS
    OnlyBackground,  \* the nettests skipped in manual runs
    Configs          \* the settings and command lines to consider, for all Procs

\* A maximum runtime is only honoured in manual runs.
ASSUME ConfigsAssumption ==
    /\ Configs \subseteq [Procs -> [upload : BOOLEAN, manual : BOOLEAN, limited : BOOLEAN]]
    /\ \A c \in Configs, p \in Procs : c[p].limited => c[p].manual

VARIABLES
    config,      \* config[p] = [upload, manual, limited]
    terminated,  \* terminated[p]: Ctrl-C, or the end of stdin
    result,      \* result[p]: the row in results; no row, not in the domain
    isUploaded,  \* isUploaded[p]: the flag in the in-memory result
    dir,         \* dir[p]: the measurement directory exists
    rows,        \* rows[m]: the row in measurements; no row, not in the domain
    files,       \* the measurements saved to a file
    removing,    \* removing[p]: "no", "row" (row deleted) or "done"
    failed       \* failed[p]: the nettests of p that returned an error

ntVars == <<config, terminated, result, isUploaded, dir, rows, files, removing, failed>>

\* Whatever the submission has of its own and the nettests do not touch.
credVars == <<useAuth, version, held, shown, store, manifest, minted, received, spent, orphaned,
              lost, unsaved>>

NewRow == [done |-> FALSE, failed |-> FALSE, uploaded |-> FALSE, keys |-> FALSE]

RowsOf(p) == {m \in DOMAIN rows : m[1] = p}

HasResult(p) == p \in DOMAIN result

\* A row is added to a table, which never replaces one.
Insert(table, key, row) ==
    [k \in DOMAIN table \cup {key} |-> IF k \in DOMAIN table THEN table[k] ELSE row]

NtInit ==
    /\ config \in Configs
    /\ terminated = [p \in Procs |-> FALSE]
    /\ result = << >>
    /\ isUploaded = [p \in Procs |-> FALSE]
    /\ dir = [p \in Procs |-> FALSE]
    /\ rows = << >>
    /\ files = {}
    /\ removing = [p \in Procs |-> "no"]
    /\ failed = [p \in Procs |-> {}]

-----------------------------------------------------------------------------
(* RunGroup.                                                               *)

\* Session, location, network row, backends and result row, in this order:
\* the first that fails ends the run, possibly after the directory was made.
StartGroup(p) ==
    /\ At(p, "start")
    /\ \/ terminated[p] /\ Goto(p, "ended") /\ NoFault /\ UNCHANGED <<result, dir>>
       \/ /\ ~ terminated[p]
          /\ Goto(p, "nettests")
          /\ NoFault
          /\ result' = Insert(result, p, [uploaded |-> FALSE, done |-> FALSE])
          /\ dir' = [dir EXCEPT ![p] = TRUE]
       \/ /\ ~ terminated[p]
          /\ Fault
          /\ Goto(p, "ended")
          /\ dir' \in {dir, [dir EXCEPT ![p] = TRUE]}
          /\ UNCHANGED result
    /\ cur' = [cur EXCEPT ![p] = [t |-> 1, i |-> 1]]
    /\ UNCHANGED <<credVars, sub, config, terminated, isUploaded, rows, files, removing, failed>>

\* The current nettest returns, with an error or not: RunGroup only warns.
EndNettest(p, err) ==
    /\ cur' = [cur EXCEPT ![p] = [t |-> @.t + 1, i |-> 1]]
    /\ failed' = IF err THEN [failed EXCEPT ![p] = @ \cup {cur[p].t}] ELSE failed
    /\ Goto(p, "nettests")

StartNettest(p) ==
    LET t == cur[p].t IN
    /\ At(p, "nettests")
    /\ \/ /\ t > Len(Inputs[p]) \/ terminated[p]
          /\ Goto(p, "finish") /\ NoFault /\ UNCHANGED <<cur, failed, sub>>
       \/ /\ t <= Len(Inputs[p]) /\ ~ terminated[p]
          /\ \/ /\ config[p].manual /\ t \in OnlyBackground
                /\ EndNettest(p, FALSE) /\ NoFault /\ UNCHANGED sub
             \/ /\ ~ (config[p].manual /\ t \in OnlyBackground)
                /\ \/ /\ Goto(p, IF config[p].upload THEN "submitter" ELSE "loop")
                      /\ sub' = [sub EXCEPT ![p] = "none"]
                      /\ NoFault
                      /\ UNCHANGED <<cur, failed>>
                   \/ EndNettest(p, TRUE) /\ Fault /\ UNCHANGED sub
    /\ UNCHANGED <<credVars, config, terminated, result, isUploaded, dir, rows, files, removing>>

\* The directory is removed when it is empty; one that is gone ends the run.
CleanUp(p) ==
    /\ At(p, "finish")
    /\ Goto(p, IF dir[p] THEN "finished" ELSE "ended")
    /\ dir' = [dir EXCEPT ![p] = \E m \in files : m[1] = p]
    /\ NoFault
    /\ UNCHANGED <<credVars, cur, sub, config, terminated, result, isUploaded, rows, files,
                   removing, failed>>

\* An UPDATE of a row that was deleted changes nothing and is no error.
UpdateResult(p, r) == result' = IF HasResult(p) THEN [result EXCEPT ![p] = r] ELSE result

Finished(p) ==
    /\ At(p, "finished")
    /\ \/ NoFault /\ UpdateResult(p, [uploaded |-> isUploaded[p], done |-> TRUE])
       \/ Fault /\ UNCHANGED result
    /\ Goto(p, "ended")
    /\ UNCHANGED <<credVars, cur, sub, config, terminated, isUploaded, dir, rows, files, removing,
                   failed>>

-----------------------------------------------------------------------------
(* Controller.Run.                                                         *)

\* "cannot create submitter; measurements will be saved to disk"
RunWithoutSubmitter(p) ==
    /\ At(p, "nosubmitter")
    /\ Goto(p, "loop")
    /\ NoFault
    /\ UNCHANGED <<credVars, cur, sub, ntVars>>

Set(m, field) == rows' = IF m \in DOMAIN rows THEN [rows EXCEPT ![m][field] = TRUE] ELSE rows

\* Mutant: the last input is left out.
StopLoop_Early(p) ==
    /\ At(p, "loop")
    /\ \/ cur[p].i >= Inputs[p][cur[p].t]
       \/ terminated[p]
       \/ config[p].limited
    /\ Goto(p, "status")
    /\ NoFault
    /\ UNCHANGED <<credVars, cur, sub, ntVars>>

\* The loop stops when the inputs are over, on request, and when the maximum
\* runtime has passed.
StopLoop(p) ==
    /\ At(p, "loop")
    /\ \/ cur[p].i > Inputs[p][cur[p].t]
       \/ terminated[p]
       \/ config[p].limited
    /\ Goto(p, "status")
    /\ NoFault
    /\ UNCHANGED <<credVars, cur, sub, ntVars>>

\* The row refers to the result: it cannot be inserted once that is deleted.
CreateMeasurement(p) ==
    /\ At(p, "loop")
    /\ cur[p].i <= Inputs[p][cur[p].t]
    /\ ~ terminated[p]
    /\ \/ /\ HasResult(p)
          /\ rows' = Insert(rows, Here(p), NewRow)
          /\ Goto(p, "measure")
          /\ NoFault
          /\ UNCHANGED <<cur, failed>>
       \/ /\ IF HasResult(p) THEN Fault ELSE NoFault
          /\ EndNettest(p, TRUE)
          /\ UNCHANGED rows
    /\ UNCHANGED <<credVars, sub, config, terminated, result, isUploaded, dir, files, removing>>

NextInput(p) ==
    /\ cur' = [cur EXCEPT ![p].i = @ + 1]
    /\ Goto(p, "loop")

\* Mutant: a measurement that fails is not recorded.
Measure_NotRecorded(p) ==
    /\ At(p, "measure")
    /\ \/ /\ Goto(p, IF sub[p] = "none" THEN "save" ELSE "submit")
          /\ NoFault
          /\ UNCHANGED cur
       \/ Fault /\ NextInput(p)
    /\ UNCHANGED <<credVars, sub, ntVars>>

\* A measurement that fails is only recorded as such.
Measure(p) ==
    /\ At(p, "measure")
    /\ \/ /\ Goto(p, IF sub[p] = "none" THEN "save" ELSE "submit")
          /\ NoFault
          /\ UNCHANGED <<cur, rows, failed>>
       \/ /\ Fault
          /\ \/ Set(Here(p), "failed") /\ NextInput(p) /\ UNCHANGED failed
             \/ EndNettest(p, TRUE) /\ UNCHANGED rows
    /\ UNCHANGED <<credVars, sub, config, terminated, result, isUploaded, dir, files, removing>>

\* A database update of the current row and where the loop goes from there;
\* when the update fails, the nettest ends.
Record(p, from, update, next) ==
    /\ At(p, from)
    /\ \/ update /\ Goto(p, next) /\ NoFault /\ UNCHANGED <<cur, failed>>
       \/ EndNettest(p, TRUE) /\ Fault /\ UNCHANGED rows
    /\ UNCHANGED <<credVars, sub, config, terminated, result, isUploaded, dir, files, removing>>

UploadSucceeded(p) == Record(p, "submitted", Set(Here(p), "uploaded"), "done")

\* Mutant: saveToDisk is cleared whatever the submission returned.
UploadFailed_NoSave(p) == Record(p, "notsubmitted", UNCHANGED rows, "done")

\* Only the message is recorded: the flag is already false.
UploadFailed(p) == Record(p, "notsubmitted", UNCHANGED rows, "save")

\* Mutant: the directory is made when it is missing.
SaveMeasurement_MkdirAll(p) ==
    /\ At(p, "save")
    /\ files' = files \cup {Here(p)}
    /\ dir' = [dir EXCEPT ![p] = TRUE]
    /\ Goto(p, "done")
    /\ NoFault
    /\ UNCHANGED <<credVars, cur, sub, config, terminated, result, isUploaded, rows, removing,
                   failed>>

\* The file is opened for append: without its directory that fails.
SaveMeasurement(p) ==
    /\ At(p, "save")
    /\ \/ /\ dir[p]
          /\ files' = files \cup {Here(p)}
          /\ Goto(p, "done")
          /\ NoFault
          /\ UNCHANGED <<cur, failed>>
       \/ /\ IF dir[p] THEN Fault ELSE NoFault
          /\ EndNettest(p, TRUE)
          /\ UNCHANGED files
    /\ UNCHANGED <<credVars, sub, config, terminated, result, isUploaded, dir, rows, removing>>

Done(p) == Record(p, "done", Set(Here(p), "done"), "keys")

AddTestKeys(p) ==
    /\ At(p, "keys")
    /\ \/ Set(Here(p), "keys") /\ NextInput(p) /\ NoFault /\ UNCHANGED failed
       \/ EndNettest(p, TRUE) /\ Fault /\ UNCHANGED rows
    /\ UNCHANGED <<credVars, sub, config, terminated, result, isUploaded, dir, files, removing>>

\* The query selects a sum and a count without naming them, and the fields that
\* should receive them are matched by the names of the columns: both stay zero,
\* zero equals zero, and the flag is set whatever the rows say.  In memory it may
\* be set even if the transaction then fails.
UpdateUploadedStatus(p) ==
    /\ At(p, "status")
    /\ \/ /\ isUploaded' = [isUploaded EXCEPT ![p] = TRUE]
          /\ UpdateResult(p, [uploaded |-> TRUE, done |-> FALSE])
          /\ EndNettest(p, FALSE)
          /\ NoFault
       \/ /\ Fault
          /\ isUploaded' \in {isUploaded, [isUploaded EXCEPT ![p] = TRUE]}
          /\ EndNettest(p, TRUE)
          /\ UNCHANGED result
    /\ UNCHANGED <<credVars, sub, config, terminated, dir, rows, files, removing>>

-----------------------------------------------------------------------------
(* Around the run.                                                         *)

\* The handler is installed by the first group of the command, so it may also
\* find the invocation before its own group starts.
Terminate(p) ==
    /\ pc[p] \notin Halted
    /\ ~ terminated[p]
    /\ Fault
    /\ terminated' = [terminated EXCEPT ![p] = TRUE]
    /\ UNCHANGED <<idleVars, config, result, isUploaded, dir, rows, files, removing, failed>>

\* DeleteResult: the row goes, with the rows that refer to it...
DeleteRow(p) ==
    /\ removing[p] = "no"
    /\ HasResult(p)
    /\ Fault
    /\ result' = [q \in DOMAIN result \ {p} |-> result[q]]
    /\ rows' = [m \in DOMAIN rows \ RowsOf(p) |-> rows[m]]
    /\ removing' = [removing EXCEPT ![p] = "row"]
    /\ UNCHANGED <<idleVars, config, terminated, isUploaded, dir, files, failed>>

\* ...and then the directory.
RemoveDir(p) ==
    /\ removing[p] = "row"
    /\ dir' = [dir EXCEPT ![p] = FALSE]
    /\ files' = {m \in files : m[1] # p}
    /\ removing' = [removing EXCEPT ![p] = "done"]
    /\ UNCHANGED <<subVars, config, terminated, result, isUploaded, rows, failed>>

NettestStep(p) ==
    \/ StartGroup(p) \/ StartNettest(p) \/ CleanUp(p) \/ Finished(p)
    \/ RunWithoutSubmitter(p) \/ StopLoop(p) \/ CreateMeasurement(p) \/ Measure(p)
    \/ UploadSucceeded(p) \/ UploadFailed(p) \/ SaveMeasurement(p) \/ Done(p)
    \/ AddTestKeys(p) \/ UpdateUploadedStatus(p)

-----------------------------------------------------------------------------
(* Properties.                                                             *)

\* A measurement whose row says it is done has not been lost: if the row says
\* it was uploaded the backend has it, otherwise its file is there, until the
\* result is deleted.
NothingLost ==
    \A m \in DOMAIN rows :
        rows[m].done =>
            IF rows[m].uploaded
            THEN received[m].plain + received[m].cred > 0
            ELSE m \in files

\* What the invocation p has to measure, unless it is told to stop
Wanted(p) == {m \in Measurements : m[1] = p /\ ~ (config[p].manual /\ m[2] \in OnlyBackground)}

\* When RunGroup has finished a result and none of its nettests failed, every
\* measurement of it is settled, either done with its test keys or failed; and
\* there is one for each input of each nettest, except those that only run in
\* the background, unless a signal or the maximum runtime cut the run short.
\* The property says nothing of the uploaded flag, which is always set.
FinishedIsComplete ==
    \A p \in DOMAIN result :
        result[p].done /\ failed[p] = {} =>
            /\ \A m \in RowsOf(p) : rows[m].failed \/ (rows[m].done /\ rows[m].keys)
            /\ terminated[p] \/ config[p].limited \/ Wanted(p) \subseteq DOMAIN rows

\* What `ooniprobe rm` has deleted does not come back, although the run that
\* was producing it is not told: no row, no file and no directory.
DeletedStaysDeleted ==
    \A p \in Procs :
        removing[p] = "done" => RowsOf(p) = {} /\ ~ dir[p] /\ \A m \in files : m[1] # p
=============================================================================
