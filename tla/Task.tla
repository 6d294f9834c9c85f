-------------------------------- MODULE Task --------------------------------
(***************************************************************************)
(* pkg/oonimkall: a Task runs one experiment in a goroutine (runnerForTask)*)
(* that emits events on a buffered channel; the app reads the events with  *)
(* WaitForNextEvent, from one thread, and may call Interrupt at any time.  *)
(* The goroutines of the session log through the same channel and may do   *)
(* so after the task has finished.                                         *)
(*                                                                         *)
(* The runner is a sequence of stages.  A stage decides what happens and   *)
(* which events have to be emitted before the next stage.                  *)
(***************************************************************************)
EXTENDS Integers, Sequences

CONSTANTS
  BufSiz,        \* capacity of the channel (128 in the code)
  MaxTargets,    \* bound: targets returned by the loader
  MaxLogs        \* bound: log events emitted in the background

ASSUME TaskAssumption ==
  BufSiz \in Nat \ {0} /\ MaxTargets \in Nat /\ MaxLogs \in Nat

VARIABLES
  settings,   \* the settings and the kind of experiment
  stage,      \* what the runner does next
  pending,    \* the events to emit before that
  targets,    \* how many targets there are
  idx,        \* the target being measured
  root,       \* whether rootCtx is cancelled
  expired,    \* whether the maximum runtime has elapsed
  session,    \* the state of the session
  out,        \* the content of the channel
  eof,        \* whether the emitter is closed
  logs,       \* how many log events were emitted in the background
  isdone,     \* whether the app was told that the task has terminated
  received,   \* the events that the app has received, without logs
  cut         \* history: targets whose measurement was cut short by a context

channelVars == <<out, eof>>
appVars == <<isdone, received>>
envVars == <<root, expired, logs>>
runnerVars == <<stage, pending, targets, idx, session, cut>>
vars == <<settings, channelVars, appVars, envVars, runnerVars>>

\* Events are keys; those about a measurement also have the index of its target
NoIdx == -1
Event(key) == [key |-> key, idx |-> NoIdx]
EventOf(key, i) == [key |-> key, idx |-> i]
Nil == Event("nil")
Log == Event("log")

Settings == [noCollector   : BOOLEAN,   \* Options.NoCollector
             interruptible : BOOLEAN,   \* builder.Interruptible()
             maxRuntime    : BOOLEAN]   \* Options.MaxRuntime > 0

Init ==
  /\ settings \in Settings
  /\ stage = "settings"
  /\ pending = <<Event("status.queued")>>
  /\ targets = 0
  /\ idx = 0
  /\ root = FALSE
  /\ expired = FALSE
  /\ session = "none"
  /\ out = << >>
  /\ eof = FALSE
  /\ logs = 0
  /\ isdone = FALSE
  /\ received = << >>
  /\ cut = {}

\* measCtx.Err() != nil
measDone == root \/ expired

-----------------------------------------------------------------------------
(* The emitter.                                                            *)

\* The runner emits its next event, when there is room
Emit ==
  /\ pending # << >>
  /\ Len(out) < BufSiz
  /\ out' = Append(out, Head(pending))
  /\ pending' = Tail(pending)
  /\ UNCHANGED <<settings, eof, appVars, envVars, stage, targets, idx,
                 session, cut>>

\* A goroutine of the session, or the experiment, emits an event of its own; the
\* event is dropped when the emitter is closed and select chooses so
EmitLog ==
  /\ logs < MaxLogs
  /\ session # "none"
  /\ logs' = logs + 1
  /\ \/ Len(out) < BufSiz /\ out' = Append(out, Log)
     \/ eof /\ UNCHANGED out
  /\ UNCHANGED <<settings, eof, appVars, root, expired, runnerVars>>

-----------------------------------------------------------------------------
(* runnerForTask.Run.                                                      *)

\* The runner has emitted all its events and is at the given stage
At(s) == stage = s /\ pending = << >>

\* Go to the given stage after emitting events
Continue(s, events) == stage' = s /\ pending' = events

stageVars == <<settings, channelVars, appVars, envVars>>

hasUnsupportedSettings ==
  /\ At("settings")
  /\ \/ Continue("newsession", <<Event("status.started")>>)
     \/ Continue("return", <<Event("failure.startup")>>)
  /\ UNCHANGED <<stageVars, targets, idx, session, cut>>

\* A failure here returns before the deferred function is registered
newsession ==
  /\ At("newsession")
  /\ \/ session' = "open" /\ Continue("builder", << >>)
     \/ Continue("return", <<Event("failure.startup")>>) /\ UNCHANGED session
  /\ UNCHANGED <<stageVars, targets, idx, cut>>

NewExperimentBuilder ==
  /\ At("builder")
  /\ \/ Continue("backends", << >>)
     \/ Continue("deferred", <<Event("failure.startup")>>)
  /\ UNCHANGED <<stageVars, targets, idx, session, cut>>

MaybeLookupBackends ==
  /\ At("backends")
  /\ \/ Continue("location", <<Event("status.progress")>>)
     \/ Continue("deferred", <<Event("failure.startup")>>)
  /\ UNCHANGED <<stageVars, targets, idx, session, cut>>

MaybeLookupLocation ==
  /\ At("location")
  /\ \/ Continue("load", <<Event("status.progress"), Event("status.progress"),
                           Event("status.geoip_lookup"),
                           Event("status.resolver_lookup")>>)
     \/ Continue("deferred",
                 <<Event("failure.ip_lookup"), Event("failure.asn_lookup"),
                   Event("failure.cc_lookup"), Event("failure.resolver_lookup")>>)
  /\ UNCHANGED <<stageVars, targets, idx, session, cut>>

LoadTargets ==
  /\ At("load")
  /\ \/ /\ targets' \in 0..MaxTargets
        /\ Continue(IF settings.noCollector THEN "loop" ELSE "report", << >>)
     \/ /\ Continue("deferred", <<Event("failure.startup")>>)
        /\ UNCHANGED targets
  /\ UNCHANGED <<stageVars, idx, session, cut>>

OpenReport ==
  /\ At("report")
  /\ \/ Continue("loop", <<Event("status.progress"), Event("status.report_create")>>)
     \/ Continue("deferred", <<Event("failure.report_create")>>)
  /\ UNCHANGED <<stageVars, targets, idx, session, cut>>

\* The top of the loop.  The progress event is for targets that have an input.
LoopIteration ==
  /\ At("loop")
  /\ IF idx >= targets \/ measDone
     THEN Continue("deferred", << >>)
     ELSE \E progress \in {<< >>, <<Event("status.progress")>>} :
            Continue("measure",
                     <<EventOf("status.measurement_start", idx)>> \o progress)
  /\ UNCHANGED <<stageVars, targets, idx, session, cut>>

\* MeasureWithContext returns.  The measurement is cut short only if it was given
\* measCtx (contextForExperiment) and measCtx is done.
MeasureReturns ==
  /\ At("measure")
  /\ \/ Continue("measured", << >>) /\ UNCHANGED cut
     \/ Continue("failed", << >>) /\ UNCHANGED cut
     \/ /\ settings.interruptible /\ measDone
        /\ cut' = cut \cup {idx}
        /\ \/ Continue("measured", << >>) \/ Continue("failed", << >>)
  /\ UNCHANGED <<stageVars, targets, idx, session>>

\* Mutant: a measurement is used also when the context interrupted it
Interrupted_Never == FALSE

\* The code assumes that the context interrupted the measurement
Interrupted == settings.interruptible /\ measDone

BreakLoop ==
  /\ At("measured") \/ At("failed")
  /\ Interrupted
  /\ Continue("deferred", << >>)
  /\ UNCHANGED <<stageVars, targets, idx, session, cut>>

\* Mutant: the loop falls through to the end of the iteration
MeasurementFailed_FallsThrough ==
  /\ At("failed")
  /\ ~Interrupted
  /\ Continue("done", <<EventOf("failure.measurement", idx)>>)
  /\ UNCHANGED <<stageVars, targets, idx, session, cut>>

\* On failure, continue with the next target
MeasurementFailed ==
  /\ At("failed")
  /\ ~Interrupted
  /\ Continue("loop", <<EventOf("failure.measurement", idx)>>)
  /\ idx' = idx + 1
  /\ UNCHANGED <<stageVars, targets, session, cut>>

MeasurementReady ==
  /\ At("measured")
  /\ ~Interrupted
  /\ Continue(IF settings.noCollector THEN "done" ELSE "submit",
              <<EventOf("measurement", idx)>>)
  /\ UNCHANGED <<stageVars, targets, idx, session, cut>>

SubmitMeasurement ==
  /\ At("submit")
  /\ \E key \in {"status.measurement_submission", "failure.measurement_submission"} :
       Continue("done", <<EventOf(key, idx)>>)
  /\ UNCHANGED <<stageVars, targets, idx, session, cut>>

MeasurementDone ==
  /\ At("done")
  /\ Continue("loop", <<EventOf("status.measurement_done", idx)>>)
  /\ idx' = idx + 1
  /\ UNCHANGED <<stageVars, targets, session, cut>>

\* Mutant: the end is not announced
Deferred_NoEnd ==
  /\ At("deferred")
  /\ session' = "closed"
  /\ Continue("return", << >>)
  /\ UNCHANGED <<stageVars, targets, idx, cut>>

\* The deferred function: close the session, then emit status.end
Deferred ==
  /\ At("deferred")
  /\ session' = "closed"
  /\ Continue("return", <<Event("status.end")>>)
  /\ UNCHANGED <<stageVars, targets, idx, cut>>

-----------------------------------------------------------------------------
(* The goroutine started by StartTask, and the app.                        *)

\* Mutant: do not wait for room
SignalDone_Drops ==
  /\ At("return")
  /\ out' = IF Len(out) < BufSiz THEN Append(out, Nil) ELSE out
  /\ Continue("signalled", << >>)
  /\ UNCHANGED <<settings, eof, appVars, envVars, targets, idx, session, cut>>

\* task.out <- nil
SignalDone ==
  /\ At("return")
  /\ Len(out) < BufSiz
  /\ out' = Append(out, Nil)
  /\ Continue("signalled", << >>)
  /\ UNCHANGED <<settings, eof, appVars, envVars, targets, idx, session, cut>>

CloseEmitter ==
  /\ At("signalled")
  /\ eof' = TRUE
  /\ Continue("stopped", << >>)
  /\ UNCHANGED <<settings, out, appVars, envVars, targets, idx, session, cut>>

\* A call that finds isdone set returns task_terminated and changes nothing
WaitForNextEvent ==
  /\ ~isdone
  /\ out # << >>
  /\ out' = Tail(out)
  /\ isdone' = (Head(out) = Nil)
  /\ received' = IF Head(out) \in {Nil, Log} THEN received
                 ELSE Append(received, Head(out))
  /\ UNCHANGED <<settings, eof, envVars, runnerVars>>

Interrupt ==
  /\ ~root
  /\ root' = TRUE
  /\ UNCHANGED <<settings, channelVars, appVars, expired, logs, runnerVars>>

\* MaxRuntime only bounds the measurement of more than one target, and the time
\* starts when the report is open
MaxRuntimeElapses ==
  /\ settings.maxRuntime /\ targets > 1
  /\ stage # "report"
  /\ ~expired
  /\ expired' = TRUE
  /\ UNCHANGED <<settings, channelVars, appVars, root, logs, runnerVars>>

-----------------------------------------------------------------------------

Run == \/ hasUnsupportedSettings \/ newsession \/ NewExperimentBuilder
       \/ MaybeLookupBackends \/ MaybeLookupLocation \/ LoadTargets
       \/ OpenReport \/ LoopIteration \/ MeasureReturns \/ BreakLoop
       \/ MeasurementFailed \/ MeasurementReady \/ SubmitMeasurement
       \/ MeasurementDone \/ Deferred

Goroutine == Emit \/ Run \/ SignalDone \/ CloseEmitter

\* The task has stopped and the app knows it
Terminated == isdone /\ stage = "stopped" /\ UNCHANGED vars

Next == \/ Goroutine
        \/ EmitLog
        \/ WaitForNextEvent
        \/ Interrupt
        \/ MaxRuntimeElapses
        \/ Terminated

Spec == Init /\ [][Next]_vars

\* The runner is scheduled, and what it calls returns (experiments and API calls
\* have timeouts of their own); the app keeps reading events until it is told
\* that there are no more.  Nobody is forced to interrupt or to log.
FairSpec == Spec /\ WF_vars(Goroutine) /\ WF_vars(WaitForNextEvent)

-----------------------------------------------------------------------------
(* Properties.                                                             *)

Stages == {"settings", "newsession", "builder", "backends", "location", "load",
           "report", "loop", "measure", "measured", "failed", "submit", "done",
           "deferred", "return", "signalled", "stopped"}

\* The values that the variables may have.
TypeOK ==
  /\ settings \in Settings
  /\ stage \in Stages
  /\ targets \in 0..MaxTargets
  /\ idx \in 0..targets
  /\ session \in {"none", "open", "closed"}
  /\ Len(out) <= BufSiz
  /\ logs \in 0..MaxLogs
  /\ root \in BOOLEAN /\ expired \in BOOLEAN /\ eof \in BOOLEAN /\ isdone \in BOOLEAN
  /\ cut \subseteq 0..(MaxTargets - 1)

\* The keys of those of the first n events that are about target i, or about none
Keys(events, n, i) == {events[j].key : j \in {k \in 1..n : events[k].idx = i}}

\* When an event about a target comes, these are the keys of the events about it
\* that may have come before
Pasts(key) ==
  LET started  == {"status.measurement_start"}
      measured == started \cup {"measurement"}
      submissions == {"status.measurement_submission", "failure.measurement_submission"}
  IN  CASE key = "status.measurement_start" -> {{}}
        [] key \in {"measurement", "failure.measurement"} -> {started}
        [] key \in submissions -> {measured}
        [] key = "status.measurement_done" ->
             {measured} \cup {measured \cup {submission} : submission \in submissions}
        [] OTHER -> {}

\* With these events a target is complete
Finals == {"failure.measurement", "status.measurement_done"}

\* When the app is told that the task has terminated, it has received status.end
\* exactly once and as the last event if a session was created, and a startup
\* failure otherwise; and the session is closed, whatever stage failed.
EndIsAnnounced ==
  isdone =>
    /\ received # << >>
    /\ \A k \in 1..(Len(received) - 1) : received[k].key # "status.end"
    /\ \/ session = "none" /\ received[Len(received)].key = "failure.startup"
       \/ session = "closed" /\ received[Len(received)].key = "status.end"

\* The events about targets come in the order of the targets, and those about
\* one target form one of the sequences the app knows of; the sequence is cut
\* short, for the last target only, only if the context was done.
MeasurementProtocol ==
  /\ \A j, k \in DOMAIN received :
       (j < k /\ received[j].idx # NoIdx /\ received[k].idx # NoIdx)
         => received[j].idx <= received[k].idx
  /\ \A k \in DOMAIN received : received[k].idx # NoIdx =>
       /\ Keys(received, k - 1, received[k].idx) \in Pasts(received[k].key)
       /\ \A i \in 0..(received[k].idx - 1) :
            Keys(received, k - 1, i) \cap Finals # {}
  /\ isdone =>
       LET keys(i) == Keys(received, Len(received), i)
       IN  \A i \in 0..(targets - 1) :
             \/ keys(i) \cap Finals # {}
             \/ measDone
             \/ keys(NoIdx) \cap {"failure.startup", "failure.report_create"} # {}

\* The result of a measurement that the context has cut short is never shown to
\* the app or submitted, even if the context expires just after a check.
CutShortIsDiscarded ==
  \A i \in cut : ~\E k \in DOMAIN received :
    received[k].idx = i /\ received[k].key # "status.measurement_start"

\* What the app receives is a sequence of events that it knows, the last one
\* included, without the results of interrupted measurements.
EventsWellFormed == EndIsAnnounced /\ MeasurementProtocol /\ CutShortIsDiscarded

\* The app is eventually told that the task has terminated, the runner and the
\* background goroutines filling the channel notwithstanding; then the goroutine
\* of the task stops.
TaskTerminates == <>(isdone /\ stage = "stopped")
=============================================================================
