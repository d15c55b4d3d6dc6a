----------------------------- MODULE CircuitProofs -----------------------------
(***************************************************************************)
(* Proofs about the circuit breaker, for any number of delivery jobs,      *)
(* transitions, failures and crashes.                                      *)
(***************************************************************************)
EXTENDS Circuit, TLAPS

-----------------------------------------------------------------------------
(* The inductive invariant *)

\* A job that sleeps, or is about to sleep, for park_seconds has the parked
\* priority, so that release_parked/1 finds it.
ParkedAreLow == \A j \in Jobs : job[j] = "parked" \/ pc[j] = "sleep" => j \in low

\* The process will park something whatever the breaker does meanwhile.
Stale(p) ==
  \/ pc[p] \in {"park", "sleep"}
  \/ pc[p] \in {"enqueue", "admit"} /\ chan[p] # "closed"
  \/ pc[p] = "jobs" /\ target[p] # "closed"

Staleness == {p \in Procs : Stale(p)}

\* Nothing is parked and nothing will be.
Clear == Staleness = {} /\ \A j \in Jobs : job[j] # "parked"

\* The process that closed the breaker has not scheduled the probe job yet.
Closing == \E q \in Procs : target[q] = "closed"

\* The probe job will run after every process that still parks.
Awaited == probe = "scheduled" /\ Staleness \subseteq calm

\* The probe job is about to release what they parked.
Releasing == probe = "running" /\ seen = "closed" /\ Staleness = {}

Followed ==
  state = "closed" /\ ~dropped /\ crashes = 0 => Clear \/ Closing \/ Awaited \/ Releasing

IInv == TypeOK /\ ParkedAreLow /\ ThresholdOpens /\ Followed

-----------------------------------------------------------------------------
(* Type correctness *)

\* Goto moves one process; it leaves the set of awaited processes a subset.
LEMMA GotoType ==
  ASSUME TypeOK, NEW p \in Procs, NEW l, Goto(p, l),
         l \in {"idle", "enqueue", "admit", "park", "sleep", "snooze", "call", "record",
                "reset", "reopen", "trip", "jobs", "probe", "finish"}
  PROVE  /\ pc' \in [Procs -> {"idle", "enqueue", "admit", "park", "sleep", "snooze", "call",
                               "record", "reset", "reopen", "trip", "jobs", "probe", "finish"}]
         /\ pc'[p] = l
         /\ \A q \in Procs : q # p => pc'[q] = pc[q]
         /\ calm' \subseteq Procs
BY DEF Goto, TypeOK

\* A transition leaves the row well-typed, and its process at the follow-up
\* exactly when its UPDATE changed the row.
LEMMA TransitionType ==
  ASSUME TypeOK, NEW p \in Procs, NEW from, NEW to \in {"open", "closed", "paused"},
         NEW otherwise \in {"idle", "reset", "finish"},
         pc[p] \notin {"jobs", "probe"}, Transition(p, from, to, otherwise)
  PROVE  /\ state' \in States /\ cool' \in BOOLEAN /\ failures' \in Nat
         /\ pc' \in [Procs -> {"idle", "enqueue", "admit", "park", "sleep", "snooze", "call",
                               "record", "reset", "reopen", "trip", "jobs", "probe", "finish"}]
         /\ pc'[p] \in {"jobs", otherwise}
         /\ calm' \subseteq Procs
         /\ target' \in [Procs -> {"none", "open", "closed", "paused"}]
         /\ \A q \in Procs : q # p => pc'[q] = pc[q]
         /\ \A q \in Procs : pc'[q] \in {"jobs", "probe"} <=> target'[q] # "none"
<1>1. CASE state \in from
  <2>1. Goto(p, "jobs") /\ target' = [target EXCEPT ![p] = to]
    BY <1>1 DEF Transition
  <2>2. state' \in States /\ cool' \in BOOLEAN
    BY <1>1 DEF Transition, States, Tripped
  <2>3. failures' \in Nat
    BY <1>1 DEF Transition, TypeOK
  <2> QED
    BY <2>1, <2>2, <2>3, GotoType DEF TypeOK
<1>2. CASE state \notin from
  <2>1. Goto(p, otherwise) /\ UNCHANGED <<state, cool, failures, target>>
    BY <1>2 DEF Transition, breaker
  <2> QED
    BY <2>1, GotoType DEF TypeOK
<1> QED
  BY <1>1, <1>2

LEMMA TypeStep ==
  ASSUME TypeOK, [Next]_vars
  PROVE  TypeOK'
<1> USE DEF breaker, queue, prober, bounds
<1>0. /\ Operator \in Procs /\ Operator \notin Jobs
      /\ \A j \in Jobs : j \in Procs /\ j # Operator
  BY CircuitAssumption DEF Procs
<1>1. ASSUME NEW j \in Jobs, EnqueueLoad(j) PROVE TypeOK'
  BY <1>0, <1>1 DEF EnqueueLoad, Goto, TypeOK
<1>2. ASSUME NEW j \in Jobs, Enqueue(j) PROVE TypeOK'
  BY <1>0, <1>2 DEF Enqueue, Goto, TypeOK
<1>3. ASSUME NEW j \in Jobs, Wake(j) PROVE TypeOK'
  BY <1>0, <1>3 DEF Wake, TypeOK
<1>4. ASSUME NEW j \in Jobs, Busy(j) PROVE TypeOK'
  BY <1>0, <1>4 DEF Busy, TypeOK
<1>5. ASSUME NEW j \in Jobs, Fetch(j) PROVE TypeOK'
  BY <1>0, <1>5 DEF Fetch, Goto, TypeOK
<1>6. ASSUME NEW j \in Jobs, Admit(j) PROVE TypeOK'
  <2>1. CASE chan[j] \in Tripped /\ Claims
    <3>1. Goto(j, "call") /\ state' = "half_open" /\ cool' = FALSE /\ UNCHANGED failures
      BY <1>6, <2>1 DEF Admit
    <3>2. cool' \in BOOLEAN /\ state' \in States
      BY <3>1 DEF States, Tripped
    <3> QED
      BY <1>0, <1>6, <3>1, <3>2, GotoType DEF Admit, TypeOK
  <2>2. CASE ~(chan[j] \in Tripped /\ Claims)
    <3>1. Goto(j, IF chan[j] = "closed" THEN "call" ELSE "park")
      BY <1>6, <2>2 DEF Admit
    <3>2. UNCHANGED <<state, cool, failures>>
      BY <1>6, <2>2 DEF Admit
    <3> QED
      BY <1>0, <1>6, <3>1, <3>2, GotoType DEF Admit, TypeOK
  <2> QED
    BY <2>1, <2>2
<1>7. ASSUME NEW j \in Jobs, RateLimited(j) PROVE TypeOK'
  BY <1>0, <1>7 DEF RateLimited, Goto, TypeOK
<1>8. ASSUME NEW j \in Jobs, Park(j) PROVE TypeOK'
  BY <1>0, <1>8 DEF Park, Goto, TypeOK
<1>9. ASSUME NEW j \in Jobs, Snooze(j) PROVE TypeOK'
  BY <1>0, <1>9 DEF Snooze, Goto, TypeOK
<1>10. ASSUME NEW j \in Jobs, NEW r \in {"ok", "transient", "permanent"}, Call(j, r)
       PROVE  TypeOK'
  BY <1>0, <1>10 DEF Call, Goto, TypeOK
<1>11. ASSUME NEW j \in Jobs, RecordSuccess(j) PROVE TypeOK'
  <2>1. CASE chan[j] \in Tripped
    <3>1. Transition(j, Tripped, "closed", "reset")
      BY <1>11, <2>1 DEF RecordSuccess
    <3> QED
      BY <1>0, <1>11, <3>1, TransitionType DEF RecordSuccess, TypeOK
  <2>2. CASE chan[j] \notin Tripped
    <3>1. Goto(j, "reset") /\ UNCHANGED <<state, cool, failures, target>>
      BY <1>11, <2>2 DEF RecordSuccess
    <3> QED
      BY <1>0, <1>11, <3>1, GotoType DEF RecordSuccess, TypeOK
  <2> QED
    BY <2>1, <2>2
<1>12. ASSUME NEW j \in Jobs, ResetFailures(j) PROVE TypeOK'
  BY <1>0, <1>12 DEF ResetFailures, Goto, TypeOK
<1>13. ASSUME NEW j \in Jobs, RecordFailure(j) PROVE TypeOK'
  BY <1>0, <1>13 DEF RecordFailure, Goto, TypeOK
<1>14. ASSUME NEW j \in Jobs, FailureOpens(j) PROVE TypeOK'
  <2>1. PICK from : Transition(j, from, "open", "finish")
    BY <1>14 DEF FailureOpens
  <2> QED
    BY <1>0, <1>14, <2>1, TransitionType DEF FailureOpens, TypeOK
<1>15. ASSUME NEW j \in Jobs, RecordPermanent(j) PROVE TypeOK'
  BY <1>0, <1>15 DEF RecordPermanent, Goto, TypeOK
<1>16. ASSUME NEW j \in Jobs, Finish(j) PROVE TypeOK'
  BY <1>0, <1>16 DEF Finish, Goto, TypeOK
<1>17. ASSUME NEW j \in Jobs, Crash(j) PROVE TypeOK'
  BY <1>0, <1>17 DEF Crash, Goto, TypeOK
<1>18. ASSUME NEW p \in Procs, FollowUpJobs(p) PROVE TypeOK'
  BY <1>0, <1>18 DEF FollowUpJobs, ParkWaiting, ReleaseWaiting, Parked, Resumed, Goto, TypeOK
<1>19. ASSUME NEW p \in Procs, FollowUpProbe(p) PROVE TypeOK'
  <2>1. probe' \in {"none", "scheduled", "running", "ending"} /\ calm' \subseteq Procs
    BY <1>19 DEF FollowUpProbe, Hurried, TypeOK
  <2>2. dropped' \in BOOLEAN
    BY <1>19 DEF FollowUpProbe, TypeOK
  <2>3. Resumed(p) \in {"idle", "reset", "finish"} /\ (p \in Jobs => Resumed(p) # "idle")
    BY <1>0 DEF Resumed
  <2> QED
    BY <1>0, <1>19, <2>1, <2>2, <2>3 DEF FollowUpProbe, TypeOK
<1>20. ASSUME Pause \/ Resume \/ Trip PROVE TypeOK'
  <2>1. PICK from \in SUBSET States, to \in {"open", "closed", "paused"} : Change(from, to)
    BY <1>20 DEF Pause, Resume, Trip, States, Tripped
  <2>2. Transition(Operator, from, to, "idle")
    BY <2>1 DEF Change
  <2> QED
    BY <1>0, <2>1, <2>2, TransitionType DEF Change, TypeOK
<1>21. ASSUME CoolDown PROVE TypeOK'
  BY <1>21 DEF CoolDown, TypeOK
<1>22. ASSUME ProbeLoad PROVE TypeOK'
  BY <1>22 DEF ProbeLoad, TypeOK
<1>23. ASSUME ProbeWake PROVE TypeOK'
  BY <1>0, <1>23 DEF ProbeWake, Parked, TypeOK
<1>24. ASSUME ProbeRelease PROVE TypeOK'
  BY <1>0, <1>24 DEF ProbeRelease, ReleaseWaiting, Parked, TypeOK
<1>25. ASSUME ProbeEnd PROVE TypeOK'
  BY <1>25 DEF ProbeEnd, TypeOK
<1>26. ASSUME UNCHANGED vars PROVE TypeOK'
  BY <1>26 DEF vars, TypeOK
<1> QED
  BY <1>1, <1>2, <1>3, <1>4, <1>5, <1>6, <1>7, <1>8, <1>9, <1>10, <1>11, <1>12, <1>13,
     <1>14, <1>15, <1>16, <1>17, <1>18, <1>19, <1>20, <1>21, <1>22, <1>23, <1>24, <1>25,
     <1>26 DEF Next

-----------------------------------------------------------------------------
(* Parked jobs and the failure count *)

LEMMA LowStep ==
  ASSUME TypeOK, ParkedAreLow, [Next]_vars
  PROVE  ParkedAreLow'
<1> USE DEF breaker, queue, prober, bounds, ParkedAreLow, TypeOK
<1>0. \A j \in Jobs : j \in Procs
  BY DEF Procs
<1>1. ASSUME NEW j \in Jobs, Enqueue(j) PROVE ParkedAreLow'
  BY <1>0, <1>1 DEF Enqueue, Goto
<1>2. ASSUME NEW j \in Jobs, Wake(j) \/ Busy(j) \/ Fetch(j) PROVE ParkedAreLow'
  BY <1>0, <1>2 DEF Wake, Busy, Fetch, Goto
<1>3. ASSUME NEW j \in Jobs, Park(j) \/ Snooze(j) PROVE ParkedAreLow'
  BY <1>0, <1>3 DEF Park, Snooze, Goto
<1>4. ASSUME NEW j \in Jobs, Finish(j) \/ Crash(j) PROVE ParkedAreLow'
  BY <1>0, <1>4 DEF Finish, Crash, Goto
<1>5. ASSUME NEW p \in Procs, FollowUpJobs(p) PROVE ParkedAreLow'
  <2>1. \A j \in Jobs : pc'[j] = "sleep" => pc[j] = "sleep"
    BY <1>0, <1>5 DEF FollowUpJobs, Goto, Resumed
  <2>2. \A j \in Jobs : pc[j] = "sleep" => job[j] = "executing"
    OBVIOUS
  <2> QED
    BY <1>0, <1>5, <2>1, <2>2 DEF FollowUpJobs, ParkWaiting, ReleaseWaiting, Parked
<1>6. ASSUME ProbeWake PROVE ParkedAreLow'
  BY <1>0, <1>6 DEF ProbeWake, Parked
<1>7. ASSUME ProbeRelease PROVE ParkedAreLow'
  BY <1>0, <1>7 DEF ProbeRelease, ReleaseWaiting, Parked
<1>8. ASSUME NEW j \in Jobs,
             \/ EnqueueLoad(j) \/ Admit(j) \/ RateLimited(j)
             \/ \E r \in {"ok", "transient", "permanent"} : Call(j, r)
             \/ ResetFailures(j) \/ RecordFailure(j) \/ RecordPermanent(j)
      PROVE  ParkedAreLow'
  BY <1>0, <1>8 DEF EnqueueLoad, Admit, RateLimited, Call, ResetFailures, RecordFailure,
                    RecordPermanent, Goto
<1>9. ASSUME NEW j \in Jobs, RecordSuccess(j) \/ FailureOpens(j) PROVE ParkedAreLow'
  BY <1>0, <1>9 DEF RecordSuccess, FailureOpens, Transition, Goto
<1>10. ASSUME NEW p \in Procs, FollowUpProbe(p) PROVE ParkedAreLow'
  BY <1>0, <1>10 DEF FollowUpProbe, Resumed
<1>11. ASSUME Pause \/ Resume \/ Trip PROVE ParkedAreLow'
  BY <1>0, <1>11 DEF Pause, Resume, Trip, Change, Transition, Goto
<1>12. ASSUME CoolDown \/ ProbeLoad \/ ProbeEnd \/ UNCHANGED vars PROVE ParkedAreLow'
  BY <1>12 DEF CoolDown, ProbeLoad, ProbeEnd, vars
<1> HIDE DEF breaker, queue, prober, bounds, ParkedAreLow, TypeOK
<1> QED
  BY <1>1, <1>2, <1>3, <1>4, <1>5, <1>6, <1>7, <1>8, <1>9, <1>10, <1>11, <1>12 DEF Next

\* Closing the breaker resets the count, and only the delivery that reaches the
\* threshold of a closed breaker leaves it there: at "trip".
LEMMA ThresholdStep ==
  ASSUME TypeOK, ThresholdOpens, [Next]_vars
  PROVE  ThresholdOpens'
<1> USE DEF breaker, queue, prober, bounds, ThresholdOpens
<1>0. (\A j \in Jobs : j \in Procs) /\ Threshold \in Nat \ {0} /\ failures \in Nat
  BY CircuitAssumption DEF Procs, TypeOK
<1>1. ASSUME UNCHANGED <<state, failures, crashes>>,
             \A j \in Jobs : pc[j] = "trip" => pc'[j] = "trip"
      PROVE  ThresholdOpens'
  BY <1>1
<1>2. ASSUME NEW j \in Jobs,
             \/ EnqueueLoad(j) \/ Enqueue(j) \/ Wake(j) \/ Busy(j) \/ RateLimited(j)
             \/ Park(j) \/ Snooze(j) \/ RecordPermanent(j) \/ Finish(j)
             \/ \E r \in {"ok", "transient", "permanent"} : Call(j, r)
      PROVE  /\ UNCHANGED <<state, failures, crashes>>
             /\ \A i \in Jobs : pc[i] = "trip" => pc'[i] = "trip"
  BY <1>0, <1>2 DEF EnqueueLoad, Enqueue, Wake, Busy, RateLimited, Park, Snooze,
                    RecordPermanent, Finish, Call, Goto, TypeOK
<1>3. ASSUME NEW j \in Jobs, Fetch(j)
      PROVE  /\ UNCHANGED <<state, failures, crashes>>
             /\ \A i \in Jobs : pc[i] = "trip" => pc'[i] = "trip"
  BY <1>0, <1>3 DEF Fetch, Goto, TypeOK
<1>4. ASSUME NEW j \in Jobs, Admit(j) PROVE ThresholdOpens'
  BY <1>0, <1>4 DEF Admit, Goto, TypeOK
<1>5. ASSUME NEW j \in Jobs, RecordSuccess(j) PROVE ThresholdOpens'
  BY <1>0, <1>5 DEF RecordSuccess, Transition, Goto, TypeOK
<1>6. ASSUME NEW j \in Jobs, ResetFailures(j) PROVE ThresholdOpens'
  BY <1>0, <1>6 DEF ResetFailures
<1>7. ASSUME NEW j \in Jobs, RecordFailure(j) PROVE ThresholdOpens'
  BY <1>0, <1>7 DEF RecordFailure, Goto, TypeOK
<1>8. ASSUME NEW j \in Jobs, FailureOpens(j) PROVE ThresholdOpens'
  BY <1>0, <1>8 DEF FailureOpens, Transition, Goto, TypeOK
<1>9. ASSUME NEW j \in Jobs, Crash(j) PROVE ThresholdOpens'
  BY <1>9 DEF Crash, TypeOK
<1>10. ASSUME NEW p \in Procs, FollowUpJobs(p) \/ FollowUpProbe(p)
       PROVE  /\ UNCHANGED <<state, failures, crashes>>
              /\ \A i \in Jobs : pc[i] = "trip" => pc'[i] = "trip"
  BY <1>0, <1>10 DEF FollowUpJobs, FollowUpProbe, Goto, TypeOK
<1>11. ASSUME Pause \/ Resume \/ Trip PROVE ThresholdOpens'
  BY <1>0, <1>11 DEF Pause, Resume, Trip, Change, Transition, Goto, TypeOK
<1>12. ASSUME CoolDown \/ ProbeLoad \/ ProbeWake \/ ProbeRelease \/ ProbeEnd \/ UNCHANGED vars
       PROVE  UNCHANGED <<state, failures, crashes, pc>>
  BY <1>12 DEF CoolDown, ProbeLoad, ProbeWake, ProbeRelease, ProbeEnd, vars
<1> HIDE DEF breaker, queue, prober, bounds, ThresholdOpens
<1> QED
  BY <1>1, <1>2, <1>3, <1>4, <1>5, <1>6, <1>7, <1>8, <1>9, <1>10, <1>11, <1>12 DEF Next

-----------------------------------------------------------------------------
(* The follow-up of a close *)

\* A step that makes nothing stale, parks only from a stale process, and
\* touches neither the probe job nor a process that closed the breaker.
Quiet ==
  /\ \A p \in Procs : Stale(p)' => Stale(p) /\ (p \in calm => p \in calm')
  /\ \A j \in Jobs : job'[j] = "parked" => job[j] = "parked" \/ \E p \in Procs : Stale(p)
  /\ \A q \in Procs : target[q] = "closed" => target'[q] = "closed"
  /\ UNCHANGED <<probe, seen>>

LEMMA QuietFollows ==
  ASSUME Quiet, Clear \/ Closing \/ Awaited \/ Releasing
  PROVE  (Clear \/ Closing \/ Awaited \/ Releasing)'
<1>1. ASSUME Clear PROVE Clear'
  BY <1>1 DEF Quiet, Clear, Staleness
<1>2. ASSUME Closing PROVE Closing'
  BY <1>2 DEF Quiet, Closing
<1>3. ASSUME Awaited PROVE Awaited'
  BY <1>3 DEF Quiet, Awaited, Staleness
<1>4. ASSUME Releasing PROVE Releasing'
  BY <1>4 DEF Quiet, Releasing, Staleness
<1> QED
  BY <1>1, <1>2, <1>3, <1>4

\* On a closed breaker, every step of a process but the scheduling of a
\* follow-up is quiet.
LEMMA ClosedIsQuiet ==
  ASSUME TypeOK, state = "closed", state' = "closed", crashes' = 0, crashes = 0,
         \/ \E j \in Jobs :
              \/ EnqueueLoad(j) \/ Enqueue(j) \/ Wake(j) \/ Busy(j) \/ Fetch(j)
              \/ Admit(j) \/ RateLimited(j) \/ Park(j) \/ Snooze(j)
              \/ \E r \in {"ok", "transient", "permanent"} : Call(j, r)
              \/ RecordSuccess(j) \/ ResetFailures(j)
              \/ RecordFailure(j) \/ FailureOpens(j) \/ RecordPermanent(j)
              \/ Finish(j) \/ Crash(j)
         \/ \E p \in Procs : FollowUpJobs(p)
         \/ CoolDown \/ UNCHANGED vars
  PROVE  Quiet
<1> USE DEF breaker, queue, prober, bounds, Quiet, Stale, TypeOK
<1>0. \A j \in Jobs : j \in Procs
  BY DEF Procs
<1>1. ASSUME NEW j \in Jobs, EnqueueLoad(j) PROVE Quiet
  BY <1>0, <1>1 DEF EnqueueLoad, Goto, Window
<1>2. ASSUME NEW j \in Jobs, Enqueue(j) PROVE Quiet
  BY <1>0, <1>2 DEF Enqueue, Goto, Window
<1>3. ASSUME NEW j \in Jobs, Wake(j) \/ Busy(j) PROVE Quiet
  BY <1>0, <1>3 DEF Wake, Busy
<1>4. ASSUME NEW j \in Jobs, Fetch(j) PROVE Quiet
  BY <1>0, <1>4 DEF Fetch, Goto, Window
<1>5. ASSUME NEW j \in Jobs, Admit(j) PROVE Quiet
  BY <1>0, <1>5 DEF Admit, Claims, Tripped, Goto, Window
<1>6. ASSUME NEW j \in Jobs, Park(j) \/ RateLimited(j) PROVE Quiet
  BY <1>0, <1>6 DEF Park, RateLimited, Goto, Window
<1>7. ASSUME NEW j \in Jobs, Snooze(j) PROVE Quiet
  BY <1>0, <1>7 DEF Snooze, Goto, Window
<1>8. ASSUME NEW j \in Jobs, NEW r, Call(j, r) PROVE Quiet
  BY <1>0, <1>8 DEF Call, Goto, Window
<1>9. ASSUME NEW j \in Jobs, RecordSuccess(j) PROVE Quiet
  BY <1>0, <1>9 DEF RecordSuccess, Transition, Tripped, Goto, Window
<1>10. ASSUME NEW j \in Jobs, ResetFailures(j) \/ RecordPermanent(j) PROVE Quiet
  BY <1>0, <1>10 DEF ResetFailures, RecordPermanent, Goto, Window
<1>11. ASSUME NEW j \in Jobs, RecordFailure(j) PROVE Quiet
  BY <1>0, <1>11 DEF RecordFailure, Goto, Window
<1>12. ASSUME NEW j \in Jobs, FailureOpens(j) PROVE Quiet
  BY <1>0, <1>12 DEF FailureOpens, Transition, Goto, Window
<1>13. ASSUME NEW j \in Jobs, Finish(j) PROVE Quiet
  BY <1>0, <1>13 DEF Finish, Goto, Window
<1>14. ASSUME NEW j \in Jobs, Crash(j) PROVE FALSE
  BY <1>14 DEF Crash
<1>15. ASSUME NEW p \in Procs, FollowUpJobs(p) PROVE Quiet
  BY <1>0, <1>15 DEF FollowUpJobs, ParkWaiting, ReleaseWaiting, Parked, Resumed, Goto, Window
<1>16. ASSUME CoolDown \/ UNCHANGED vars PROVE Quiet
  BY <1>16 DEF CoolDown, vars
<1> HIDE DEF breaker, queue, prober, bounds, Quiet, Stale, TypeOK
<1> QED
  BY <1>1, <1>2, <1>3, <1>4, <1>5, <1>6, <1>7, <1>8, <1>9, <1>10, <1>11, <1>12, <1>13,
     <1>14, <1>15, <1>16

\* Whoever closes the breaker has a follow-up to run.
LEMMA CloserFollowsUp ==
  ASSUME TypeOK, [Next]_vars, state # "closed", state' = "closed"
  PROVE  Closing'
<1> USE DEF breaker, queue, prober, bounds, TypeOK
<1>0. Operator \in Procs /\ \A j \in Jobs : j \in Procs
  BY DEF Procs
<1>1. ASSUME NEW j \in Jobs, RecordSuccess(j) PROVE Closing'
  BY <1>0, <1>1 DEF RecordSuccess, Transition, Closing
<1>2. ASSUME NEW j \in Jobs, FailureOpens(j) \/ Admit(j) PROVE FALSE
  BY <1>2 DEF FailureOpens, Transition, Admit
<1>3. ASSUME Resume PROVE Closing'
  BY <1>0, <1>3 DEF Resume, Change, Transition, Closing
<1>4. ASSUME Pause \/ Trip PROVE FALSE
  BY <1>4 DEF Pause, Trip, Change, Transition
<1> QED
  BY <1>1, <1>2, <1>3, <1>4
     DEF Next, vars, EnqueueLoad, Enqueue, Wake, Busy, Fetch, RateLimited, Park, Snooze, Call,
         ResetFailures, RecordFailure, RecordPermanent, Finish, Crash, FollowUpJobs,
         FollowUpProbe, CoolDown, ProbeLoad, ProbeWake, ProbeRelease, ProbeEnd

LEMMA FollowedStep ==
  ASSUME TypeOK, ParkedAreLow, Followed, [Next]_vars
  PROVE  Followed'
<1> USE DEF breaker, queue, prober, bounds
<1> DEFINE Covered == Clear \/ Closing \/ Awaited \/ Releasing
<1> SUFFICES ASSUME state' = "closed", ~dropped', crashes' = 0
             PROVE  Covered'
  BY DEF Followed
<1>1. CASE state # "closed"
  BY <1>1, CloserFollowsUp
<1>2. CASE state = "closed"
  <2>1. ~dropped
    BY DEF Next, vars, EnqueueLoad, Enqueue, Wake, Busy, Fetch, Admit, RateLimited, Park,
           Snooze, Call, RecordSuccess, ResetFailures, RecordFailure, FailureOpens,
           RecordPermanent, Finish, Crash, FollowUpJobs, FollowUpProbe, Pause, Resume, Trip,
           Change, CoolDown, ProbeLoad, ProbeWake, ProbeRelease, ProbeEnd
  <2>2. crashes = 0
    <3>1. crashes' = crashes \/ crashes' = crashes + 1
      BY DEF Next, vars, EnqueueLoad, Enqueue, Wake, Busy, Fetch, Admit, RateLimited, Park,
             Snooze, Call, RecordSuccess, ResetFailures, RecordFailure, FailureOpens,
             RecordPermanent, Finish, Crash, FollowUpJobs, FollowUpProbe, Pause, Resume, Trip,
             Change, CoolDown, ProbeLoad, ProbeWake, ProbeRelease, ProbeEnd
    <3> QED
      BY <3>1 DEF TypeOK
  <2>3. Covered
    BY <1>2, <2>1, <2>2 DEF Followed
  <2>4. ASSUME Quiet PROVE Covered'
    BY <2>3, <2>4, QuietFollows
  <2>5. ASSUME NEW p \in Procs, FollowUpProbe(p) PROVE Covered'
    <3>1. probe = "none" /\ probe' = "scheduled" /\ calm' = Hurried \ {p}
      BY <2>5 DEF FollowUpProbe
    <3>2. \A q \in Procs : Stale(q)' => q \in Hurried /\ q # p
      BY <2>5 DEF FollowUpProbe, Stale, Hurried, Window, Resumed, TypeOK
    <3> QED
      BY <3>1, <3>2 DEF Awaited, Staleness
  <2>6. ASSUME Pause \/ Resume \/ Trip PROVE FALSE
    BY <1>2, <2>6 DEF Pause, Resume, Trip, Change, Transition, Tripped
  <2>7. ASSUME ProbeLoad PROVE Covered'
    <3>1. /\ probe = "scheduled" /\ calm = {} /\ probe' = "running" /\ seen' = "closed"
          /\ UNCHANGED <<pc, chan, target, job>>
      BY <1>2, <2>7 DEF ProbeLoad
    <3>2. CASE Clear \/ Closing
      BY <3>1, <3>2 DEF Clear, Closing, Staleness, Stale
    <3>3. CASE Awaited
      BY <3>1, <3>3 DEF Awaited, Releasing, Staleness, Stale
    <3> QED
      BY <2>3, <3>1, <3>2, <3>3 DEF Releasing
  <2>8. ASSUME ProbeWake PROVE Covered'
    <3>1. /\ probe = "running" /\ seen # "closed" /\ UNCHANGED <<pc, chan, target>>
          /\ \A j \in Jobs : job'[j] = "parked" => job[j] = "parked"
      BY <2>8 DEF ProbeWake, Tripped, TypeOK
    <3>2. Clear \/ Closing
      BY <2>3, <3>1 DEF Awaited, Releasing
    <3> QED
      BY <3>1, <3>2 DEF Clear, Closing, Staleness, Stale
  <2>9. ASSUME ProbeRelease PROVE Covered'
    <3>1. probe = "running" /\ UNCHANGED <<pc, chan, target>>
      BY <2>9 DEF ProbeRelease
    <3>2. CASE Closing
      BY <3>1, <3>2 DEF Closing
    <3>3. CASE Clear
      <4>1. \A j \in Jobs : job'[j] = "parked" => job[j] = "parked"
        BY <2>9 DEF ProbeRelease, ReleaseWaiting, TypeOK
      <4> QED
        BY <3>1, <3>3, <4>1 DEF Clear, Staleness, Stale
    <3>4. CASE Releasing
      <4>1. \A j \in Jobs : job'[j] # "parked"
        BY <2>9, <3>4 DEF ProbeRelease, ReleaseWaiting, Releasing, Parked, ParkedAreLow, TypeOK
      <4> QED
        BY <3>1, <3>4, <4>1 DEF Clear, Releasing, Staleness, Stale
    <3> QED
      BY <2>3, <3>1, <3>2, <3>3, <3>4 DEF Awaited
  <2>10. ASSUME ProbeEnd PROVE Covered'
    <3>1. probe = "ending" /\ UNCHANGED <<pc, chan, target, job>>
      BY <2>10 DEF ProbeEnd
    <3> QED
      BY <2>3, <3>1 DEF Clear, Closing, Awaited, Releasing, Staleness, Stale
  <2> QED
    BY <1>2, <2>2, <2>4, <2>5, <2>6, <2>7, <2>8, <2>9, <2>10, ClosedIsQuiet DEF Next
<1> QED
  BY <1>1, <1>2

-----------------------------------------------------------------------------
(* Theorems *)

LEMMA Initially ==
  ASSUME Init
  PROVE  IInv
<1>1. TypeOK
  <2>1. cool \in BOOLEAN /\ dropped \in BOOLEAN
    BY DEF Init
  <2>2. \A j \in Jobs : job[j] = "executing" <=> pc[j] \notin {"idle", "enqueue"}
    BY DEF Init, Procs
  <2>3. \A p \in Procs : pc[p] \in {"jobs", "probe"} <=> target[p] # "none"
    BY DEF Init
  <2> QED
    BY <2>1, <2>2, <2>3 DEF Init, TypeOK, States
<1>2. ParkedAreLow
  BY DEF Init, ParkedAreLow, Procs
<1>3. ThresholdOpens
  BY CircuitAssumption DEF Init, ThresholdOpens
<1>4. Followed
  BY DEF Init, Followed, Clear, Staleness, Stale
<1> QED
  BY <1>1, <1>2, <1>3, <1>4 DEF IInv

\* The inductive invariant holds throughout.
THEOREM Invariant == Spec => []IInv
<1>1. IInv /\ [Next]_vars => IInv'
  BY TypeStep, LowStep, ThresholdStep, FollowedStep DEF IInv
<1> QED
  BY Initially, <1>1, PTL DEF Spec

\* However deliveries, probes and the operator race, a closed breaker with
\* failure_threshold consecutive failures has a delivery about to open it,
\* unless a node died in between.
THEOREM ThresholdReached == Spec => []ThresholdOpens
BY Invariant, PTL DEF IInv

\* A delivery parked on an old view of a breaker that has closed is released
\* by the follow-up the close schedules, unless Oban took the follow-up for a
\* duplicate or a node died.
THEOREM FollowUpReleases == Spec => []ReleasedUnlessDropped
<1>1. IInv => ReleasedUnlessDropped
  <2> SUFFICES ASSUME IInv, state = "closed", Hurried = {}, ~dropped, crashes = 0,
                      NEW j \in Jobs, job[j] = "parked"
               PROVE  probe # "none"
    BY DEF ReleasedUnlessDropped, IInv, TypeOK
  <2>1. ~Clear
    BY DEF Clear
  <2>2. ~Closing
    BY DEF Closing, Hurried, Window, IInv, TypeOK
  <2> QED
    BY <2>1, <2>2 DEF IInv, Followed, Awaited, Releasing
<1> QED
  BY Invariant, <1>1, PTL

\* Only resume/1 ends a pause.
THEOREM OnlyResumeEndsPause == Spec => PauseHolds
<1> DEFINE A == state = "paused" /\ state' # "paused" => state' = "closed" /\ changes' # changes
<1>1. TypeOK /\ [Next]_vars => [A]_vars
  <2> SUFFICES ASSUME TypeOK, Next, state = "paused", state' # "paused"
               PROVE  state' = "closed" /\ changes' # changes
    OBVIOUS
  <2> USE DEF breaker, queue, prober, bounds
  <2>1. ASSUME NEW j \in Jobs, RecordSuccess(j) \/ FailureOpens(j) \/ Admit(j) PROVE FALSE
    BY <2>1 DEF RecordSuccess, FailureOpens, Admit, Claims, Transition, Tripped
  <2>2. ASSUME Pause \/ Trip PROVE FALSE
    BY <2>2 DEF Pause, Trip, Change, Transition, Tripped
  <2>3. ASSUME Resume PROVE state' = "closed" /\ changes' # changes
    BY <2>3 DEF Resume, Change, Transition, TypeOK
  <2> QED
    BY <2>1, <2>2, <2>3
       DEF Next, EnqueueLoad, Enqueue, Wake, Busy, Fetch, RateLimited, Park, Snooze, Call,
           ResetFailures, RecordFailure, RecordPermanent, Finish, Crash, FollowUpJobs,
           FollowUpProbe, CoolDown, ProbeLoad, ProbeWake, ProbeRelease, ProbeEnd
<1>2. Spec => []TypeOK
  BY Invariant, PTL DEF IInv
<1> QED
  BY <1>1, <1>2, PTL DEF Spec, PauseHolds
=============================================================================
