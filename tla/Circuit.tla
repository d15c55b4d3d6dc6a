-------------------------------- MODULE Circuit --------------------------------
(***************************************************************************)
(* The circuit breaker of one channel (Converger.Channels.Circuit): the    *)
(* breaker columns of the channel row, the delivery jobs it admits, parks  *)
(* and releases, the probe job of ChannelCircuitProbeWorker, and the       *)
(* operator and health check that pause, resume and trip it.               *)
(*                                                                         *)
(* Every statement is a step.  A transition is one conditional UPDATE; the *)
(* statements of after_transition/4 follow it, and other processes run in  *)
(* between.  Parking and releasing also set delivery rows to paused and    *)
(* pending: that is in module Deliveries (Park, ParkBacklog,               *)
(* ReleaseParked).                                                         *)
(***************************************************************************)
EXTENDS Integers, FiniteSets

CONSTANTS
  Jobs,           \* delivery jobs of the channel; each names its process too
  Operator,       \* the process that pauses, resumes and trips
  Threshold,      \* failure_threshold
  MaxTransients,  \* bound: transient errors of the endpoint
  MaxFaults       \* bound: operator and health-check transitions, processes that die

ASSUME CircuitAssumption ==
  /\ Operator \notin Jobs
  /\ Threshold \in Nat \ {0}
  /\ MaxTransients \in Nat /\ MaxFaults \in Nat

VARIABLES
  state,     \* channels.circuit_state
  cool,      \* circuit_changed_at is cooldown_ms ago
  failures,  \* channels.consecutive_failures
  job,       \* the Oban state of each job
  low,       \* jobs with the parked priority
  pc,        \* where each process is
  chan,      \* circuit_state as it loaded the channel
  target,    \* the state its transition set, while the follow-up runs
  result,    \* the adapter's answer
  probe,     \* the probe job: "none", "scheduled", "running" or "ending"
  seen,      \* circuit_state as the probe job loaded it
  calm,      \* processes the next run of the probe job comes after
  dropped,   \* ghost: a follow-up's probe job was a duplicate of another
  changes, transients, crashes

breaker == <<state, cool, failures>>
queue   == <<job, low>>
prober  == <<probe, seen, dropped>>
bounds  == <<changes, transients, crashes>>
vars == <<state, cool, failures, job, low, pc, chan, target, result, probe, seen,
          calm, dropped, changes, transients, crashes>>

Procs == Jobs \union {Operator}

Tripped == {"open", "half_open"}

States == {"closed", "paused"} \union Tripped

Init ==
  /\ state = "closed" /\ cool = FALSE /\ failures = 0
  /\ job = [j \in Jobs |-> "none"] /\ low = {}
  /\ pc = [p \in Procs |-> "idle"] /\ chan = [p \in Procs |-> "none"]
  /\ target = [p \in Procs |-> "none"] /\ result = [j \in Jobs |-> "none"]
  /\ probe = "none" /\ seen = "none" /\ calm = {} /\ dropped = FALSE
  /\ changes = 0 /\ transients = 0 /\ crashes = 0

-----------------------------------------------------------------------------
(* Helpers *)

\* parked_jobs_query/1: scheduled jobs of the parked priority.  One that
\* sleeps for park_seconds is "parked" here, one that sleeps for less is
\* "scheduled".
Parked == {j \in low : job[j] \in {"parked", "scheduled"}}

\* Places from which a process may still park something on an old view of the
\* breaker.  They last milliseconds, and a probe job is scheduled seconds
\* ahead: its run comes after the processes that were there when it was
\* inserted.
Window == {"enqueue", "admit", "park", "sleep", "jobs", "probe"}

Hurried == {p \in Procs : pc[p] \in Window}

Goto(p, l) ==
  /\ pc' = [pc EXCEPT ![p] = l]
  /\ calm' = IF l \in Window THEN calm ELSE calm \ {p}

\* Seeded fault: closing does not reset the failure count.
TransitionKeepsFailures(p, from, to, otherwise) ==
  IF state \in from
    THEN /\ state' = to /\ cool' = FALSE
         /\ target' = [target EXCEPT ![p] = to]
         /\ Goto(p, "jobs")
         /\ UNCHANGED failures
    ELSE Goto(p, otherwise) /\ UNCHANGED <<breaker, target>>

\* transition/4, the UPDATE: the follow-up is run only by the process whose
\* UPDATE changed the row.
Transition(p, from, to, otherwise) ==
  IF state \in from
    THEN /\ state' = to /\ cool' = FALSE
         /\ failures' = IF to = "closed" THEN 0 ELSE failures
         /\ target' = [target EXCEPT ![p] = to]
         /\ Goto(p, "jobs")
    ELSE Goto(p, otherwise) /\ UNCHANGED <<breaker, target>>

\* Where a process goes on after its follow-up.
Resumed(p) == IF p = Operator THEN "idle" ELSE IF result[p] = "ok" THEN "reset" ELSE "finish"

-----------------------------------------------------------------------------
(* Enqueueing *)

\* Pipeline.plan/1 loads the channel of a new delivery.
EnqueueLoad(j) ==
  /\ job[j] = "none" /\ pc[j] = "idle"
  /\ chan' = [chan EXCEPT ![j] = state]
  /\ Goto(j, "enqueue")
  /\ UNCHANGED <<breaker, queue, target, result, prober, bounds>>

\* Pipeline.Oban.enqueue/1 with insert_opts/1: parked unless it was closed.
Enqueue(j) ==
  /\ pc[j] = "enqueue"
  /\ IF chan[j] = "closed"
       THEN job' = [job EXCEPT ![j] = "available"] /\ UNCHANGED low
       ELSE job' = [job EXCEPT ![j] = "parked"] /\ low' = low \union {j}
  /\ chan' = [chan EXCEPT ![j] = "none"]
  /\ Goto(j, "idle")
  /\ UNCHANGED <<breaker, target, result, prober, bounds>>

-----------------------------------------------------------------------------
(* Delivery jobs *)

\* Seeded fault: a parked job sleeps until it is released.
WakeUnlessParked(j) ==
  /\ job[j] \in {"scheduled", "retryable"}
  /\ job' = [job EXCEPT ![j] = "available"]
  /\ UNCHANGED <<breaker, low, pc, calm, chan, target, result, prober, bounds>>

\* The job's sleep ends; its priority stays.
Wake(j) ==
  /\ job[j] \in {"parked", "scheduled", "retryable"}
  /\ job' = [job EXCEPT ![j] = "available"]
  /\ UNCHANGED <<breaker, low, pc, calm, chan, target, result, prober, bounds>>

\* Oban runs the job, but InFlight has no slot for it: it is snoozed, and the
\* available backlog may be demoted, which parks nothing.
Busy(j) ==
  /\ job[j] = "available"
  /\ job' = [job EXCEPT ![j] = "scheduled"]
  /\ UNCHANGED <<breaker, low, pc, calm, chan, target, result, prober, bounds>>

\* Oban runs the job, which has a slot and loads the channel.
Fetch(j) ==
  /\ job[j] = "available"
  /\ job' = [job EXCEPT ![j] = "executing"]
  /\ chan' = [chan EXCEPT ![j] = state]
  /\ Goto(j, "admit")
  /\ UNCHANGED <<breaker, low, target, result, prober, bounds>>

\* claim_probe/1: the WHERE of its UPDATE.
Claims == state \in Tripped /\ cool

\* admit/1.
Admit(j) ==
  /\ pc[j] = "admit"
  /\ IF chan[j] \in Tripped /\ Claims
       THEN /\ state' = "half_open" /\ cool' = FALSE
            /\ Goto(j, "call")
            /\ UNCHANGED failures
       ELSE /\ Goto(j, IF chan[j] = "closed" THEN "call" ELSE "park")
            /\ UNCHANGED breaker
  /\ UNCHANGED <<queue, chan, target, result, prober, bounds>>

\* admit/1 on a closed breaker: the channel's rate limit is exhausted.
RateLimited(j) ==
  /\ pc[j] = "admit" /\ chan[j] = "closed"
  /\ Goto(j, "snooze")
  /\ UNCHANGED <<breaker, queue, chan, target, result, prober, bounds>>

\* park/3.
Park(j) ==
  /\ pc[j] = "park"
  /\ low' = low \union {j}
  /\ Goto(j, "sleep")
  /\ UNCHANGED <<breaker, job, chan, target, result, prober, bounds>>

\* Oban snoozes the job, for park_seconds or until the rate limit allows it.
Snooze(j) ==
  /\ pc[j] \in {"sleep", "snooze"}
  /\ job' = [job EXCEPT ![j] = IF pc[j] = "sleep" THEN "parked" ELSE "scheduled"]
  /\ chan' = [chan EXCEPT ![j] = "none"]
  /\ Goto(j, "idle")
  /\ UNCHANGED <<breaker, low, target, result, prober, bounds>>

\* The adapter's answer.
Call(j, r) ==
  /\ pc[j] = "call"
  /\ r = "transient" => transients < MaxTransients
  /\ transients' = IF r = "transient" THEN transients + 1 ELSE transients
  /\ result' = [result EXCEPT ![j] = r]
  /\ Goto(j, "record")
  /\ UNCHANGED <<breaker, queue, chan, target, prober, changes, crashes>>

\* record/2 of a success: a delivery that saw the breaker tripped closes it.
RecordSuccess(j) ==
  /\ pc[j] = "record" /\ result[j] = "ok"
  /\ IF chan[j] \in Tripped
       THEN Transition(j, Tripped, "closed", "reset")
       ELSE Goto(j, "reset") /\ UNCHANGED <<breaker, target>>
  /\ UNCHANGED <<queue, chan, result, prober, bounds>>

\* record_success/1, the last UPDATE.
ResetFailures(j) ==
  /\ pc[j] = "reset"
  /\ failures' = 0
  /\ Goto(j, "finish")
  /\ UNCHANGED <<state, cool, queue, chan, target, result, prober, bounds>>

\* record/2 of a transient error: the UPDATE counts it and returns the state.
RecordFailure(j) ==
  /\ pc[j] = "record" /\ result[j] = "transient"
  /\ failures' = failures + 1
  /\ Goto(j, CASE state = "half_open" -> "reopen"
               [] state = "closed" /\ failures' >= Threshold -> "trip"
               [] OTHER -> "finish")
  /\ UNCHANGED <<state, cool, queue, chan, target, result, prober, bounds>>

\* record_failure/1, the transition it decided on.
FailureOpens(j) ==
  /\ pc[j] \in {"reopen", "trip"}
  /\ Transition(j, IF pc[j] = "trip" THEN {"closed"} ELSE {"half_open"}, "open", "finish")
  /\ UNCHANGED <<queue, chan, result, prober, bounds>>

\* record/2 ignores a permanent error; a delivery that was already sent, opted
\* out or halted is not recorded either.
RecordPermanent(j) ==
  /\ pc[j] = "record" /\ result[j] = "permanent"
  /\ Goto(j, "finish")
  /\ UNCHANGED <<breaker, queue, chan, target, result, prober, bounds>>

\* Pipeline.record_result/3 writes the row and Oban settles the job; a
\* transient error is retried until the policy is exhausted.
Finish(j) ==
  /\ pc[j] = "finish"
  /\ \E s \in {"completed"} \union (IF result[j] = "transient" THEN {"retryable"} ELSE {}) :
       job' = [job EXCEPT ![j] = s]
  /\ chan' = [chan EXCEPT ![j] = "none"] /\ result' = [result EXCEPT ![j] = "none"]
  /\ Goto(j, "idle")
  /\ UNCHANGED <<breaker, low, target, prober, bounds>>

\* The node dies; Lifeline makes the job available again.
Crash(j) ==
  /\ job[j] = "executing" /\ changes + crashes < MaxFaults
  /\ crashes' = crashes + 1
  /\ job' = [job EXCEPT ![j] = "available"]
  /\ chan' = [chan EXCEPT ![j] = "none"] /\ result' = [result EXCEPT ![j] = "none"]
  /\ target' = [target EXCEPT ![j] = "none"]
  /\ Goto(j, "idle")
  /\ UNCHANGED <<breaker, low, prober, changes, transients>>

-----------------------------------------------------------------------------
(* schedule_follow_up/2: park_backlog/1 or release_parked/1, and the probe *)
(* job                                                                     *)

ParkWaiting ==
  LET waiting == {j \in Jobs \ low : job[j] \in {"available", "scheduled", "retryable"}}
  IN  /\ job' = [j \in Jobs |-> IF j \in waiting THEN "parked" ELSE job[j]]
      /\ low' = low \union waiting

ReleaseWaiting ==
  /\ job' = [j \in Jobs |-> IF j \in Parked THEN "available" ELSE job[j]]
  /\ low' = low \ Parked

FollowUpJobs(p) ==
  /\ pc[p] = "jobs"
  /\ IF target[p] = "closed" THEN ReleaseWaiting ELSE ParkWaiting
  /\ IF target[p] = "paused"
       THEN Goto(p, Resumed(p)) /\ target' = [target EXCEPT ![p] = "none"]
       ELSE Goto(p, "probe") /\ UNCHANGED target
  /\ UNCHANGED <<breaker, chan, result, prober, bounds>>

\* Seeded fault: closing schedules no follow-up.
FollowUpProbeWhenOpen(p) ==
  /\ pc[p] = "probe"
  /\ pc' = [pc EXCEPT ![p] = Resumed(p)]
  /\ target' = [target EXCEPT ![p] = "none"]
  /\ IF target[p] = "open" /\ probe = "none"
       THEN probe' = "scheduled" /\ calm' = Hurried \ {p} /\ UNCHANGED dropped
       ELSE calm' = calm \ {p} /\ UNCHANGED <<probe, dropped>>
  /\ UNCHANGED <<breaker, queue, chan, result, seen, bounds>>

\* ChannelCircuitProbeWorker.schedule/2, unique among incomplete jobs.
FollowUpProbe(p) ==
  /\ pc[p] = "probe"
  /\ pc' = [pc EXCEPT ![p] = Resumed(p)]
  /\ target' = [target EXCEPT ![p] = "none"]
  /\ IF probe = "none"
       THEN probe' = "scheduled" /\ calm' = Hurried \ {p} /\ UNCHANGED dropped
       ELSE dropped' = TRUE /\ calm' = calm \ {p} /\ UNCHANGED probe
  /\ UNCHANGED <<breaker, queue, chan, result, seen, bounds>>

-----------------------------------------------------------------------------
(* The operator, the health check and time *)

\* pause/1, resume/1 and trip/2.
Change(from, to) ==
  /\ pc[Operator] = "idle" /\ changes + crashes < MaxFaults /\ state \in from
  /\ changes' = changes + 1
  /\ Transition(Operator, from, to, "idle")
  /\ UNCHANGED <<queue, chan, result, prober, transients, crashes>>

Pause == Change({"closed"} \union Tripped, "paused")

Resume == Change({"paused"} \union Tripped, "closed")

Trip == Change({"closed"}, "open")

CoolDown ==
  /\ state \in Tripped /\ ~cool
  /\ cool' = TRUE
  /\ UNCHANGED <<state, failures, queue, pc, calm, chan, target, result, prober, bounds>>

-----------------------------------------------------------------------------
(* ChannelCircuitProbeWorker.perform/1 *)

\* It loads the channel; before the cooldown is over it snoozes.
ProbeLoad ==
  /\ probe = "scheduled" /\ calm = {}
  /\ state \in Tripped => cool
  /\ probe' = "running" /\ seen' = state
  /\ UNCHANGED <<breaker, queue, pc, calm, chan, target, result, dropped, bounds>>

\* wake_probe/1 wakes one parked job, and the probe job snoozes; with nothing
\* parked it ends.
ProbeWake ==
  /\ probe = "running" /\ seen \in Tripped
  /\ IF Parked = {}
       THEN probe' = "ending" /\ UNCHANGED <<job, low>>
       ELSE /\ \E j \in Parked : job' = [job EXCEPT ![j] = "available"] /\ low' = low \ {j}
            /\ probe' = "scheduled"
  /\ seen' = "none"
  /\ UNCHANGED <<breaker, pc, calm, chan, target, result, dropped, bounds>>

\* A closed breaker: release_parked/1.  A paused one: nothing.
ProbeRelease ==
  /\ probe = "running" /\ seen \notin Tripped
  /\ IF seen = "closed" THEN ReleaseWaiting ELSE UNCHANGED queue
  /\ probe' = "ending" /\ seen' = "none"
  /\ UNCHANGED <<breaker, pc, calm, chan, target, result, dropped, bounds>>

\* Oban completes the probe job.
ProbeEnd ==
  /\ probe = "ending"
  /\ probe' = "none"
  /\ UNCHANGED <<breaker, queue, pc, calm, chan, target, result, seen, dropped, bounds>>

Next ==
  \/ \E j \in Jobs :
       \/ EnqueueLoad(j) \/ Enqueue(j) \/ Wake(j) \/ Busy(j) \/ Fetch(j)
       \/ Admit(j) \/ RateLimited(j) \/ Park(j) \/ Snooze(j)
       \/ \E r \in {"ok", "transient", "permanent"} : Call(j, r)
       \/ RecordSuccess(j) \/ ResetFailures(j)
       \/ RecordFailure(j) \/ FailureOpens(j) \/ RecordPermanent(j)
       \/ Finish(j) \/ Crash(j)
  \/ \E p \in Procs : FollowUpJobs(p) \/ FollowUpProbe(p)
  \/ Pause \/ Resume \/ Trip \/ CoolDown
  \/ ProbeLoad \/ ProbeWake \/ ProbeRelease \/ ProbeEnd

Spec == Init /\ [][Next]_vars

\* What a process that has started does by itself; one of them is enabled at a
\* time.
Step(p) ==
  \/ FollowUpJobs(p) \/ FollowUpProbe(p)
  \/ /\ p \in Jobs
     /\ \/ Enqueue(p) \/ Park(p) \/ Snooze(p)
        \/ \E r \in {"ok", "transient", "permanent"} : Call(p, r)
        \/ RecordSuccess(p) \/ ResetFailures(p)
        \/ RecordFailure(p) \/ FailureOpens(p) \/ RecordPermanent(p) \/ Finish(p)

\* Oban runs its jobs and ends their sleeps, Postgres runs the statements, and
\* a job that keeps coming back finds a slot and is within the rate limit in
\* the end.
FairSpec ==
  /\ Spec
  /\ \A p \in Procs : WF_vars(Step(p))
  /\ \A j \in Jobs : WF_vars(Wake(j)) /\ SF_vars(Fetch(j)) /\ SF_vars(Admit(j))
  /\ WF_vars(CoolDown)

-----------------------------------------------------------------------------
(* Properties *)

\* Every variable has its type; a process runs a follow-up exactly when it
\* made a transition, and a job's process runs only while Oban has it
\* executing or before it is inserted.
TypeOK ==
  /\ state \in States /\ cool \in BOOLEAN /\ failures \in Nat
  /\ job \in [Jobs -> {"none", "available", "scheduled", "parked", "retryable", "executing",
                       "completed"}]
  /\ low \subseteq Jobs
  /\ pc \in [Procs -> {"idle", "enqueue", "admit", "park", "sleep", "snooze", "call", "record",
                       "reset", "reopen", "trip", "jobs", "probe", "finish"}]
  /\ chan \in [Procs -> States \union {"none"}]
  /\ target \in [Procs -> {"none", "open", "closed", "paused"}]
  /\ result \in [Jobs -> {"none", "ok", "transient", "permanent"}]
  /\ probe \in {"none", "scheduled", "running", "ending"}
  /\ seen \in States \union {"none"} /\ calm \subseteq Procs /\ dropped \in BOOLEAN
  /\ changes \in Nat /\ transients \in Nat /\ crashes \in Nat
  /\ \A p \in Procs : pc[p] \in {"jobs", "probe"} <=> target[p] # "none"
  /\ \A j \in Jobs : job[j] = "executing" <=> pc[j] \notin {"idle", "enqueue"}

\* Only resume/1 ends a pause: no probe claimed, finished or failed meanwhile
\* and no health check moves a paused channel on.
PauseHolds ==
  [][state = "paused" /\ state' # "paused" => state' = "closed" /\ changes' # changes]_vars

\* A breaker that is closed with failure_threshold consecutive failures is
\* about to be opened by the delivery that counted the last one, unless its
\* node died.
ThresholdOpens ==
  state = "closed" /\ failures >= Threshold => crashes > 0 \/ \E j \in Jobs : pc[j] = "trip"

\* What holds: the follow-up releases it unless its probe job was taken for a
\* duplicate of the probe loop's, which may run too early, or a node died.
ReleasedUnlessDropped ==
  state = "closed" /\ (\E j \in Jobs : job[j] = "parked") /\ Hurried = {} =>
    probe # "none" \/ dropped \/ crashes > 0

\* Whatever opens, parks, releases and probes meanwhile, a delivery enqueued
\* to a channel that is not left paused is attempted to its end.
Delivered ==
  <>[](\/ state = "paused"
       \/ \A j \in Jobs : pc[j] # "enqueue" /\ job[j] \in {"none", "completed"})
=============================================================================
