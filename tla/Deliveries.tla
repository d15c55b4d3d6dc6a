------------------------------- MODULE Deliveries -------------------------------
(***************************************************************************)
(* The delivery of one activity to one channel: the row of `deliveries`,   *)
(* the Oban jobs that attempt it (ActivityDeliveryWorker through           *)
(* Pipeline.deliver/2), provider receipts, client acknowledgements and     *)
(* dead-letter replays (Converger.Deliveries).                             *)
(*                                                                         *)
(* One pair is enough: no statement's effect on a delivery depends on      *)
(* another one.  The channel's breaker (module Circuit) is here only what  *)
(* it does to the row: it may park or release it at any time.              *)
(*                                                                         *)
(* Repo.update writes the columns that differ from the struct that was     *)
(* loaded (Changed), so a stale struct may or may not overwrite a newer    *)
(* status.  A job is named by the replay that inserted it, 0 being the     *)
(* job committed with the activity.                                        *)
(***************************************************************************)
EXTENDS Integers, FiniteSets

CONSTANTS
  Workers,      \* Oban worker processes, on any node
  Receivers,    \* processes handling a status webhook
  Channels,     \* kinds of channels: what the adapter may answer (see Outcome),
                \* and the statuses its receipts may carry
  MaxAttempts,  \* RetryPolicy max_attempts of the channel
  Parks,        \* the breaker may park the delivery
  MaxReplays,   \* bound: replays of the dead letter
  MaxCrashes,   \* bound: workers that die
  MaxReceipts   \* bound: receipts received

Outcome == {"ok", "pending", "permanent", "transient", "halted"}

Status == {"pending", "paused", "sent", "delivered", "read", "failed"}

\* Statuses with which Pipeline.deliver/2 does not send again.
Settled == {"sent", "delivered", "read"}

ASSUME DeliveriesAssumption ==
  /\ Channels \subseteq
       [outcomes : SUBSET Outcome, receipts : SUBSET (Settled \union {"failed"})]
  /\ MaxAttempts \in Nat \ {0}
  /\ Parks \in BOOLEAN
  /\ MaxReplays \in Nat /\ MaxCrashes \in Nat /\ MaxReceipts \in Nat

VARIABLES
  channel,  \* the channel of the delivery
  row,      \* the delivery
  job,      \* the state of each job
  pc,       \* where each worker is
  gen,      \* the job it runs
  loaded,   \* the delivery as it loaded it
  outcome,  \* the adapter's answer, then what perform/1 returns
  rpc,      \* where each receiver is
  seen,     \* the delivery as it loaded it
  update,   \* the status its receipt carries
  calls,    \* ghost: adapter calls
  accepted, \* ghost: adapter calls that took the message
  crashes, receipts

work     == <<pc, gen, loaded, outcome>>
webhooks == <<rpc, seen, update, receipts>>
ghosts   == <<calls, accepted>>
vars == <<channel, row, job, pc, gen, loaded, outcome, rpc, seen, update, calls, accepted,
          crashes, receipts>>

Outcomes == channel.outcomes
Receipts == channel.receipts

Row == [status : Status \union {"none"}, attempts : Nat, replays : Nat]

NoRow == [status |-> "none", attempts |-> 0, replays |-> 0]

Gens == 0 .. MaxReplays

JobState == {"none", "waiting", "executing", "completed", "cancelled"}

\* @incomplete_job_states; waiting is available, scheduled or retryable.
Live(g) == job[g] \in {"waiting", "executing"}

Init ==
  /\ channel \in Channels
  /\ row = NoRow
  /\ job = [g \in Gens |-> IF g = 0 THEN "waiting" ELSE "none"]
  /\ pc = [w \in Workers |-> "idle"] /\ gen = [w \in Workers |-> 0]
  /\ loaded = [w \in Workers |-> NoRow] /\ outcome = [w \in Workers |-> "none"]
  /\ rpc = [r \in Receivers |-> "idle"] /\ seen = [r \in Receivers |-> NoRow]
  /\ update = [r \in Receivers |-> "none"]
  /\ calls = 0 /\ accepted = 0 /\ crashes = 0 /\ receipts = 0

-----------------------------------------------------------------------------
(* Helpers *)

Rank(s) == CASE s = "sent" -> 1 [] s = "delivered" -> 2 [] s = "read" -> 3
             [] s = "failed" -> -1 [] OTHER -> 0

\* get_or_create_delivery/2.
Found == IF row.status = "none" THEN [row EXCEPT !.status = "pending"] ELSE row

\* Seeded fault: the column is written whatever was loaded.
ChangedAlways(l, s) == s

\* The status column after Repo.update of a changeset on l that sets it to s.
Changed(l, s) == IF l.status = s THEN row.status ELSE s

\* RetryPolicy.exhausted?/2.
Exhausted(n) == n >= MaxAttempts

Goto(w, l) == pc' = [pc EXCEPT ![w] = l]

Leave(w) ==
  /\ Goto(w, "idle")
  /\ gen' = [gen EXCEPT ![w] = 0]
  /\ loaded' = [loaded EXCEPT ![w] = NoRow]
  /\ outcome' = [outcome EXCEPT ![w] = "none"]

-----------------------------------------------------------------------------
(* ActivityDeliveryWorker.perform/1 *)

\* Oban hands the job to a worker.
Start(w, g) ==
  /\ pc[w] = "idle" /\ job[g] = "waiting"
  /\ job' = [job EXCEPT ![g] = "executing"]
  /\ gen' = [gen EXCEPT ![w] = g]
  /\ Goto(w, "admit")
  /\ UNCHANGED <<channel, row, loaded, outcome, webhooks, ghosts, crashes>>

\* InFlight.acquire/3 or the channel's rate limit sends the job back to sleep.
Snooze(w) ==
  /\ pc[w] = "admit"
  /\ outcome' = [outcome EXCEPT ![w] = "snooze"]
  /\ Goto(w, "finish")
  /\ UNCHANGED <<channel, row, job, gen, loaded, webhooks, ghosts, crashes>>

\* Circuit.park/3: the row is created if need be, and a pending one paused.
Park(w) ==
  /\ pc[w] = "admit" /\ Parks
  /\ row' = IF Found.status = "pending" THEN [Found EXCEPT !.status = "paused"] ELSE row
  /\ outcome' = [outcome EXCEPT ![w] = "snooze"]
  /\ Goto(w, "finish")
  /\ UNCHANGED <<channel, job, gen, loaded, webhooks, ghosts, crashes>>

\* Circuit.admit/1 said :ok; deliver/2 loads the delivery.
Load(w) ==
  /\ pc[w] = "admit"
  /\ row' = Found
  /\ IF row.status \in Settled
       THEN /\ outcome' = [outcome EXCEPT ![w] = "done"]
            /\ Goto(w, "finish")
            /\ UNCHANGED loaded
       ELSE /\ loaded' = [loaded EXCEPT ![w] = Found]
            /\ Goto(w, "attempt")
            /\ UNCHANGED outcome
  /\ UNCHANGED <<channel, job, gen, webhooks, ghosts, crashes>>

\* The recipient opted out, the activity type is not supported, or middleware
\* halts (no call); otherwise Adapter.deliver_activity/2.
Attempt(w, o) ==
  /\ pc[w] = "attempt"
  /\ outcome' = [outcome EXCEPT ![w] = o]
  /\ calls' = IF o = "halted" THEN calls ELSE calls + 1
  /\ accepted' = IF o \in {"ok", "pending"} THEN accepted + 1 ELSE accepted
  /\ Goto(w, "record")
  /\ UNCHANGED <<channel, row, job, gen, loaded, webhooks, crashes>>

\* Seeded fault: a hand-off is not counted as an attempt.
RecordedUncounted(l, o) ==
  LET n == IF o = "pending" THEN l.attempts ELSE l.attempts + 1
      s == CASE o = "ok" -> "sent"
             [] o \in {"permanent", "halted"} -> "failed"
             [] o = "transient" /\ Exhausted(n) -> "failed"
             [] OTHER -> "pending"
  IN  [row EXCEPT !.status = Changed(l, s), !.attempts = n]

\* record_result/3 in the row: mark_sent/2, mark_handed_off/2, mark_dead/2 or
\* mark_attempt_failed/3, on the struct that was loaded.
Recorded(l, o) ==
  LET n == l.attempts + 1
      s == CASE o = "ok" -> "sent"
             [] o \in {"permanent", "halted"} -> "failed"
             [] o = "transient" /\ Exhausted(n) -> "failed"
             [] OTHER -> "pending"
  IN  [row EXCEPT !.status = Changed(l, s), !.attempts = n]

\* What perform/1 makes of it: deliver/2's :ok, {:cancel, _} or {:error, _}.
Result(l, o) ==
  CASE o \in {"ok", "pending"} -> "done"
    [] o \in {"permanent", "halted"} -> "cancel"
    [] OTHER -> IF Exhausted(l.attempts + 1) THEN "cancel" ELSE "retry"

Record(w) ==
  /\ pc[w] = "record"
  /\ row' = Recorded(loaded[w], outcome[w])
  /\ outcome' = [outcome EXCEPT ![w] = Result(loaded[w], outcome[w])]
  /\ Goto(w, "finish")
  /\ UNCHANGED <<channel, job, gen, loaded, webhooks, ghosts, crashes>>

\* Seeded fault: a job that asks for a retry is dropped.
FinishDrops(w) ==
  /\ pc[w] = "finish"
  /\ job' = [job EXCEPT ![gen[w]] = IF outcome[w] = "snooze" THEN "waiting" ELSE "completed"]
  /\ Leave(w)
  /\ UNCHANGED <<channel, row, webhooks, ghosts, crashes>>

\* Oban settles the job: completed, cancelled, or waiting for its next run.
Finish(w) ==
  /\ pc[w] = "finish"
  /\ job' = [job EXCEPT ![gen[w]] = CASE outcome[w] = "done" -> "completed"
                                      [] outcome[w] = "cancel" -> "cancelled"
                                      [] OTHER -> "waiting"]
  /\ Leave(w)
  /\ UNCHANGED <<channel, row, webhooks, ghosts, crashes>>

\* The node dies: its job stays executing.
Crash(w) ==
  /\ pc[w] # "idle" /\ crashes < MaxCrashes
  /\ crashes' = crashes + 1
  /\ Leave(w)
  /\ UNCHANGED <<channel, row, job, webhooks, ghosts>>

\* Seeded fault: Lifeline rescues a job that is still running.
RescueRunning(g) ==
  /\ job[g] = "executing"
  /\ job' = [job EXCEPT ![g] = "waiting"]
  /\ UNCHANGED <<channel, row, work, webhooks, ghosts, crashes>>

\* Oban's Lifeline, whose rescue_after is far above any adapter timeout, makes
\* an orphaned job available again.
Rescue(g) ==
  /\ job[g] = "executing" /\ \A w \in Workers : pc[w] = "idle" \/ gen[w] # g
  /\ job' = [job EXCEPT ![g] = "waiting"]
  /\ UNCHANGED <<channel, row, work, webhooks, ghosts, crashes>>

-----------------------------------------------------------------------------
(* The breaker's statements on the row *)

\* park_backlog/1.
ParkBacklog ==
  /\ Parks /\ row.status = "pending"
  /\ row' = [row EXCEPT !.status = "paused"]
  /\ UNCHANGED <<channel, job, work, webhooks, ghosts, crashes>>

\* release_parked/1.
ReleaseParked ==
  /\ row.status = "paused"
  /\ row' = [row EXCEPT !.status = "pending"]
  /\ UNCHANGED <<channel, job, work, webhooks, ghosts, crashes>>

-----------------------------------------------------------------------------
(* Receipts, acknowledgements and replays *)

\* acknowledge/3: one UPDATE of handed-off deliveries (websocket channels).
Acknowledge ==
  /\ "pending" \in Outcomes
  /\ row.status = "pending" /\ row.attempts > 0
  /\ row' = [row EXCEPT !.status = "sent"]
  /\ UNCHANGED <<channel, job, work, webhooks, ghosts, crashes>>

\* apply_status_update/2 finds the delivery, by the id the adapter sent along
\* or by the provider's message id.
ReceiptRead(r, s) ==
  /\ rpc[r] = "idle" /\ receipts < MaxReceipts
  /\ calls > 0 /\ row.status # "none"
  /\ receipts' = receipts + 1
  /\ seen' = [seen EXCEPT ![r] = row]
  /\ update' = [update EXCEPT ![r] = s]
  /\ rpc' = [rpc EXCEPT ![r] = "loaded"]
  /\ UNCHANGED <<channel, row, job, work, ghosts, crashes>>

\* advance_status/2: should_update.
Advances(l, s) ==
  \/ s = "failed" /\ l.status # "read"
  \/ Rank(s) > Rank(l.status) /\ Rank(l.status) >= 0

\* advance_status/2: the decision is taken on the struct that was loaded.
ReceiptWrite(r) ==
  /\ rpc[r] = "loaded"
  /\ row' = IF Advances(seen[r], update[r])
              THEN [row EXCEPT !.status = Changed(seen[r], update[r])] ELSE row
  /\ rpc' = [rpc EXCEPT ![r] = "idle"]
  /\ seen' = [seen EXCEPT ![r] = NoRow]
  /\ update' = [update EXCEPT ![r] = "none"]
  /\ UNCHANGED <<channel, job, work, receipts, ghosts, crashes>>

\* retry_delivery/2 or a chunk of retry_dead_letters/3: reset_dead_letters/2
\* flips the row and enqueue_retries/1 skips a pair that has an incomplete job.
Replay ==
  /\ row.status = "failed" /\ row.replays < MaxReplays
  /\ row' = [status |-> "pending", attempts |-> 0, replays |-> row.replays + 1]
  /\ job' = IF \E g \in Gens : Live(g) THEN job
            ELSE [job EXCEPT ![row.replays + 1] = "waiting"]
  /\ UNCHANGED <<channel, work, webhooks, ghosts, crashes>>

Next ==
  \/ \E w \in Workers :
       \/ \E g \in Gens : Start(w, g)
       \/ Snooze(w) \/ Park(w) \/ Load(w)
       \/ \E o \in Outcomes : Attempt(w, o)
       \/ Record(w) \/ Finish(w) \/ Crash(w)
  \/ \E g \in Gens : Rescue(g)
  \/ ParkBacklog \/ ReleaseParked \/ Acknowledge
  \/ \E r \in Receivers : (\E s \in Receipts : ReceiptRead(r, s)) \/ ReceiptWrite(r)
  \/ Replay

Spec == Init /\ [][Next]_vars

\* Oban runs its jobs, Lifeline rescues orphans, and a job that comes back to
\* admission again and again is admitted in the end.
FairSpec ==
  /\ Spec
  /\ WF_vars(\E w \in Workers, g \in Gens : Start(w, g))
  /\ \A w \in Workers :
       /\ SF_vars(Load(w))
       /\ WF_vars(\E o \in Outcomes : Attempt(w, o))
       /\ WF_vars(Record(w)) /\ WF_vars(Finish(w))
  /\ \A g \in Gens : WF_vars(Rescue(g))

-----------------------------------------------------------------------------
(* Properties *)

\* Every variable has its type, and a worker runs a job that Oban has marked
\* executing for it.
TypeOK ==
  /\ channel \in Channels
  /\ row \in Row /\ row.replays \in Gens
  /\ job \in [Gens -> JobState]
  /\ pc \in [Workers -> {"idle", "admit", "attempt", "record", "finish"}]
  /\ gen \in [Workers -> Gens] /\ loaded \in [Workers -> Row]
  /\ outcome \in [Workers -> Outcome \union {"none", "snooze", "done", "cancel", "retry"}]
  /\ rpc \in [Receivers -> {"idle", "loaded"}] /\ seen \in [Receivers -> Row]
  /\ update \in [Receivers -> Status \union {"none"}]
  /\ calls \in Nat /\ accepted \in Nat /\ crashes \in Nat /\ receipts \in Nat
  /\ \A w \in Workers : pc[w] # "idle" => job[gen[w]] = "executing"

\* "a delivery never gets two live jobs" (retry_dead_letters/3): however many
\* replays, retries, receipts and rescues race, at most one job of the pair is
\* incomplete, and at most one worker is attempting the delivery.
OneLiveJob ==
  /\ \A g, h \in Gens : Live(g) /\ Live(h) => g = h
  /\ \A v, w \in Workers : pc[v] # "idle" /\ pc[w] # "idle" => v = w

\* The retry policy bounds the adapter calls: max_attempts for the delivery
\* and for each replay, and one more for each worker that died before what it
\* did was recorded.  Stale structs, receipts and replays racing the counter
\* do not change that.
CallBudget == calls <= MaxAttempts * (1 + row.replays) + crashes

\* The provider takes the message once per delivery and per replay, unless a
\* worker died: a retry never follows an attempt that succeeded.
AcceptedBudget == accepted <= 1 + row.replays + crashes

\* A delivery that is neither settled nor dead has a live job that will
\* attempt it, is handed off to clients that will acknowledge it, or was
\* replayed while its old job was still executing, so that enqueue_retries/1
\* inserted none.
StrandedOnlyBySkip ==
  row.status \in {"none", "pending", "paused"} =>
    \/ \E g \in Gens : Live(g)
    \/ row.attempts > 0 /\ "pending" \in Outcomes
    \/ row.replays > 0 /\ job[row.replays] = "none"

\* Once sent, delivered or read, a delivery goes back to pending only when the
\* attempt being recorded loaded it as paused or failed: Repo.update leaves a
\* newer status alone when the loaded one was already pending.
ReopenedOnlyByStaleLoad ==
  [][row.status \in Settled /\ row'.status \in {"pending", "paused"} =>
       \E w \in Workers : pc[w] = "record" /\ pc'[w] = "finish"
                          /\ loaded[w].status \in {"paused", "failed"}]_vars

\* advance_status/2 on a row nobody changed since it was loaded never moves
\* the status back, and never fails a delivery that was read.
ForwardUnlessRaced ==
  [][\A r \in Receivers :
       rpc[r] = "loaded" /\ rpc'[r] = "idle" /\ seen[r] = row =>
         \/ Rank(row'.status) >= Rank(row.status)
         \/ row'.status = "failed" /\ row.status # "read"]_vars

\* Every delivery ends, and ends again after a replay: sent, dead-lettered,
\* handed off with its job completed, or replayed while its old job was still
\* executing.
Settles ==
  row.status \in {"none", "pending", "paused"} ~>
    \/ row.status \in Settled \union {"failed"}
    \/ row.attempts > 0 /\ "pending" \in Outcomes /\ \A g \in Gens : ~Live(g)
    \/ row.replays > 0 /\ job[row.replays] = "none"
=============================================================================
