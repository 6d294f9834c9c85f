------------------------------ MODULE OONIRun ------------------------------
(***************************************************************************)
(* miniooni running OONI Run v2 links: the descriptor cache that remembers *)
(* what the user has accepted (v2MeasureHTTPS), the experiments of the     *)
(* descriptor (V2MeasureDescriptor, Experiment.Run), and the loop that     *)
(* measures, submits and saves (InputProcessor.run).  The invocations      *)
(* share the cache file, which each one reads and rewrites as a whole.     *)
(***************************************************************************)
EXTENDS Submission

CONSTANTS
    Urls,           \* links
    Links,          \* the command lines to consider, for all Procs
    MaxRevision     \* bound: revisions a link goes through

ASSUME LinksAssumption ==
    /\ Links \subseteq
          [Procs -> [url : Urls, accept : BOOLEAN, collect : BOOLEAN, limited : BOOLEAN]]
    /\ MaxRevision \in Nat \ {0}

Unknown == 0                      \* no descriptor for the link

Torn == [u \in Urls |-> -1]       \* a cache file that does not parse

VARIABLES
    link,        \* link[p] = [url, accept, collect, limited]: the command line
    server,      \* server[u]: the revision served at u
    cache,       \* the cache file: a revision for each link, or Torn
    loaded,      \* loaded[p]: the cache as p read it
    pulled,      \* pulled[p]: the descriptor p fetched
    report,      \* the measurements appended to the report file
    stopped,     \* stopped[p]: the nettests of p that ended with an error
    accepted     \* history: <<u, r>>, descriptors run with the user's consent

runVars == <<link, server, cache, loaded, pulled, report, stopped, accepted>>

submitterVars == <<useAuth, version, held, shown, store, manifest, minted, received, spent,
                   orphaned, lost, unsaved>>

RunInit ==
    /\ link \in Links
    /\ server = [u \in Urls |-> 1]
    /\ cache = [u \in Urls |-> Unknown]
    /\ loaded = [p \in Procs |-> [u \in Urls |-> Unknown]]
    /\ pulled = [p \in Procs |-> Unknown]
    /\ report = {}
    /\ stopped = [p \in Procs |-> {}]
    /\ accepted = {}

-----------------------------------------------------------------------------
(* v2MeasureHTTPS.                                                         *)

\* A missing file is an empty cache, and so is one that cannot be read: the
\* store reports every failure to read as a missing key.  A file that is
\* there and does not parse is an error.
LoadCache(p) ==
    /\ At(p, "start")
    /\ \/ /\ cache = Torn
          /\ Goto(p, "ended")
          /\ NoFault
          /\ UNCHANGED loaded
       \/ /\ cache # Torn
          /\ loaded' = [loaded EXCEPT ![p] = cache]
          /\ Goto(p, "pull")
          /\ NoFault
       \/ /\ Fault
          /\ loaded' = [loaded EXCEPT ![p] = [u \in Urls |-> Unknown]]
          /\ Goto(p, "pull")
    /\ cur' = [cur EXCEPT ![p] = [t |-> 1, i |-> 1]]
    /\ UNCHANGED <<submitterVars, sub, link, server, cache, pulled, report, stopped, accepted>>

PullChanges(p) ==
    /\ At(p, "pull")
    /\ \/ /\ pulled' = [pulled EXCEPT ![p] = server[link[p].url]]
          /\ Goto(p, "compare")
          /\ NoFault
       \/ Fault /\ Goto(p, "ended") /\ UNCHANGED pulled
    /\ UNCHANGED <<submitterVars, cur, sub, link, server, cache, loaded, report, stopped, accepted>>

\* Mutant: a link seen for the first time has not changed.
Changed_Known(p) == loaded[p][link[p].url] \notin {Unknown, pulled[p]}

Changed(p) == loaded[p][link[p].url] # pulled[p]

\* Changes run only when the user accepts them.
CompareDescriptors(p) ==
    /\ At(p, "compare")
    /\ Goto(p, CASE Changed(p) /\ ~ link[p].accept -> "ended"
                 [] Changed(p) /\ link[p].accept -> "update"
                 [] OTHER -> "nettests")
    /\ accepted' = IF link[p].accept THEN accepted \cup {<<link[p].url, pulled[p]>>} ELSE accepted
    /\ NoFault
    /\ UNCHANGED <<submitterVars, cur, sub, link, server, cache, loaded, pulled, report, stopped>>

\* The whole cache is written back, as p read it except for its own link.
UpdateCache(p) ==
    /\ At(p, "update")
    /\ \/ /\ cache' = [loaded[p] EXCEPT ![link[p].url] = pulled[p]]
          /\ Goto(p, "nettests")
          /\ NoFault
       \/ Fault /\ cache' \in {cache, Torn} /\ Goto(p, "ended")
    /\ UNCHANGED <<submitterVars, cur, sub, link, server, loaded, pulled, report, stopped, accepted>>

-----------------------------------------------------------------------------
(* V2MeasureDescriptor and Experiment.Run.                                 *)

EndExperiment(p, err) ==
    /\ cur' = [cur EXCEPT ![p] = [t |-> @.t + 1, i |-> 1]]
    /\ stopped' = IF err THEN [stopped EXCEPT ![p] = @ \cup {cur[p].t}] ELSE stopped
    /\ Goto(p, "nettests")

\* Builder, options, targets, submitter and saver: any of them may fail, and
\* the next nettest is tried.
StartExperiment(p) ==
    /\ At(p, "nettests")
    /\ \/ /\ cur[p].t > Len(Inputs[p])
          /\ Goto(p, "ended") /\ NoFault /\ UNCHANGED <<cur, stopped, sub>>
       \/ /\ cur[p].t <= Len(Inputs[p])
          /\ Goto(p, IF link[p].collect THEN "submitter" ELSE "loop")
          /\ sub' = [sub EXCEPT ![p] = "none"]
          /\ NoFault
          /\ UNCHANGED <<cur, stopped>>
       \/ /\ cur[p].t <= Len(Inputs[p])
          /\ EndExperiment(p, TRUE) /\ Fault /\ UNCHANGED sub
    /\ UNCHANGED <<submitterVars, link, server, cache, loaded, pulled, report, accepted>>

\* Without a submitter the experiment does not run.
NoSubmitter(p) ==
    /\ At(p, "nosubmitter")
    /\ EndExperiment(p, TRUE)
    /\ NoFault
    /\ UNCHANGED <<submitterVars, sub, link, server, cache, loaded, pulled, report, accepted>>

-----------------------------------------------------------------------------
(* InputProcessor.run.                                                     *)

\* An error while measuring ends the experiment; so do the end of the inputs
\* and the maximum runtime.
ProcessInput(p) ==
    /\ At(p, "loop")
    /\ \/ /\ cur[p].i > Inputs[p][cur[p].t] \/ link[p].limited
          /\ EndExperiment(p, FALSE) /\ NoFault
       \/ /\ cur[p].i <= Inputs[p][cur[p].t]
          /\ EndExperiment(p, TRUE) /\ Fault
       \/ /\ cur[p].i <= Inputs[p][cur[p].t]
          /\ Goto(p, IF sub[p] = "none" THEN "save" ELSE "submit")
          /\ NoFault /\ UNCHANGED <<cur, stopped>>
    /\ UNCHANGED <<submitterVars, sub, link, server, cache, loaded, pulled, report, accepted>>

\* Mutant: a measurement that cannot be submitted is skipped.
AfterSubmission_SkipsSave(p) ==
    /\ \/ At(p, "submitted") /\ Goto(p, "save") /\ UNCHANGED cur
       \/ /\ At(p, "notsubmitted")
          /\ cur' = [cur EXCEPT ![p].i = @ + 1]
          /\ Goto(p, "loop")
    /\ NoFault
    /\ UNCHANGED <<submitterVars, sub, runVars>>

\* experimentSubmitterWrapper: a submission that fails is not an error.
AfterSubmission(p) ==
    /\ pc[p] \in {"submitted", "notsubmitted"}
    /\ Goto(p, "save")
    /\ NoFault
    /\ UNCHANGED <<submitterVars, cur, sub, runVars>>

SaveToReport(p) ==
    /\ At(p, "save")
    /\ \/ /\ report' = report \cup {Here(p)}
          /\ cur' = [cur EXCEPT ![p].i = @ + 1]
          /\ Goto(p, "loop")
          /\ NoFault
          /\ UNCHANGED stopped
       \/ EndExperiment(p, TRUE) /\ Fault /\ UNCHANGED report
    /\ UNCHANGED <<submitterVars, sub, link, server, cache, loaded, pulled, accepted>>

\* The author publishes a new revision of a link.
Publish(u) ==
    /\ server[u] < MaxRevision
    /\ Fault
    /\ server' = [server EXCEPT ![u] = @ + 1]
    /\ UNCHANGED <<idleVars, link, cache, loaded, pulled, report, stopped, accepted>>

RunStep(p) ==
    \/ LoadCache(p) \/ PullChanges(p) \/ CompareDescriptors(p) \/ UpdateCache(p)
    \/ StartExperiment(p) \/ NoSubmitter(p) \/ ProcessInput(p) \/ AfterSubmission(p)
    \/ SaveToReport(p)

-----------------------------------------------------------------------------
(* Properties.                                                             *)

Measuring == {"submitter", "credential", "keep", "nosubmitter", "loop", "submit", "credpost",
              "rotate", "post", "submitted", "notsubmitted", "save"}

\* A link runs without the user's consent only if it is, to the letter, one
\* the user has consented to run before: the cache, which other invocations
\* rewrite between the load and the comparison, never vouches for anything
\* else.
NoUnreviewedRun ==
    \A p \in Procs :
        pulled[p] # Unknown /\ pc[p] \in Measuring => <<link[p].url, pulled[p]>> \in accepted

\* Whatever the backend has received is in the report file too, unless the
\* process stopped on an error of that nettest, was killed, or is still at
\* that measurement: a failed submission never skips the save.
ReceivedIsReported ==
    \A m \in Measurements :
        pulled[m[1]] # Unknown /\ received[m].plain + received[m].cred > 0 =>
            \/ m \in report
            \/ Here(m[1]) = m
            \/ m[2] \in stopped[m[1]]
            \/ pc[m[1]] = "crashed"
=============================================================================
