---------------------------- MODULE DeliveriesProofs ----------------------------
(***************************************************************************)
(* Proofs about one delivery, for any number of workers, receipts,         *)
(* replays, attempts and crashes.                                          *)
(*                                                                         *)
(* OneLiveJob is inductive together with the type invariant, which says    *)
(* that a busy worker's job is executing.  The other two need a view of    *)
(* the running attempt: Owed says when a finishing worker may leave the    *)
(* delivery without a job, and Spent when no live job can hand the message *)
(* to the provider once more.                                              *)
(***************************************************************************)
EXTENDS Deliveries, TLAPS

\* Jobs are inserted by the replay that numbers them.
NotYetInserted == \A g \in Gens : g > row.replays => job[g] = "none"

\* The delivery needs no job: it ended, waits for clients, or its replay was
\* given none.
Good ==
  \/ row.status \in Settled \union {"failed"}
  \/ row.attempts > 0 /\ "pending" \in Outcomes
  \/ row.replays > 0 /\ job[row.replays] = "none"

\* An attempt runs on a delivery that was not settled when it was loaded, and
\* one that was dead then needs no job of its own.
Attempting ==
  \A w \in Workers : pc[w] \in {"attempt", "record"} =>
    /\ loaded[w].status \in {"pending", "paused", "failed"}
    /\ loaded[w].status = "failed" => Good
    /\ pc[w] = "record" => outcome[w] \in Outcomes

\* A worker whose job is about to end for good leaves a delivery that needs
\* none.
Owed == \A w \in Workers : pc[w] = "finish" /\ outcome[w] \in {"done", "cancel"} => Good

\* No job can hand the message to the provider again.
Spent ==
  \/ \A g \in Gens : ~Live(g)
  \/ \E w \in Workers :
       \/ pc[w] = "record" /\ outcome[w] \in {"ok", "pending"}
       \/ pc[w] = "finish" /\ outcome[w] = "done"

\* Every accepted call is paid for by the first job, a replay or a crash.
Paid == accepted <= row.replays + crashes + (IF Spent THEN 1 ELSE 0)

Budget(k) == MaxAttempts * (1 + k)

\* The calls a job may still make without a crash or a replay, when the
\* delivery it loads counts n attempts: at least one, whatever the count.
Left(n) == IF Exhausted(n) THEN 1 ELSE MaxAttempts - n

Committed(w) ==
  \/ pc[w] = "record"
  \/ pc[w] = "finish" /\ outcome[w] \in {"done", "cancel"}

\* The calls made and the calls left are paid for; one more is charged to the
\* worker that has made its call and not settled its job.
Funded ==
  /\ calls + Left(row.attempts) <= Budget(row.replays) + crashes + 1
  /\ (\E g \in Gens : Live(g)) /\ (\A w \in Workers : ~Committed(w)) =>
       calls + Left(row.attempts) <= Budget(row.replays) + crashes
  /\ \A w \in Workers : pc[w] \in {"attempt", "record"} =>
       /\ loaded[w].replays <= row.replays
       /\ loaded[w].replays = row.replays => loaded[w].attempts = row.attempts
       /\ calls + Left(loaded[w].attempts) <=
            Budget(loaded[w].replays) + crashes + (IF pc[w] = "record" THEN 1 ELSE 0)

IInv ==
  /\ TypeOK /\ OneLiveJob /\ NotYetInserted /\ Attempting /\ Owed
  /\ StrandedOnlyBySkip /\ Paid /\ Funded

-----------------------------------------------------------------------------

\* The channel of the delivery never changes.
LEMMA ChannelStays ==
  ASSUME Next
  PROVE  channel' = channel /\ Outcomes' = Outcomes
<1>1. channel' = channel
  BY DEF Next, Start, Snooze, Park, Load, Attempt, Record, Finish, Crash, Rescue, ParkBacklog,
     ReleaseParked, Acknowledge, ReceiptRead, ReceiptWrite, Replay
<1> QED BY <1>1 DEF Outcomes

LEMMA ChannelType ==
  ASSUME TypeOK
  PROVE  Outcomes \subseteq Outcome /\ Receipts \subseteq Settled \union {"failed"}
BY DeliveriesAssumption DEF TypeOK, Outcomes, Receipts

\* The status a step gives the row is a status.
LEMMA Statuses ==
  /\ \A l \in Row, s \in Status : row \in Row => Changed(l, s) \in Status \union {"none"}
  /\ row \in Row => Found \in Row /\ Found.replays = row.replays /\ Found.attempts = row.attempts
BY DEF Row, Changed, Found, Status

\* record_result/3 leaves a row of the right type and the replay counter alone.
LEMMA RecordedType ==
  ASSUME row \in Row, NEW l \in Row, NEW o \in Outcome
  PROVE  /\ Recorded(l, o) \in Row
         /\ Recorded(l, o).replays = row.replays
         /\ Recorded(l, o).attempts > 0
         /\ o = "ok" => Recorded(l, o).status \in Settled \union {row.status}
         /\ Result(l, o) \in {"done", "cancel", "retry"}
<1>1. l.attempts + 1 \in Nat /\ l.attempts + 1 > 0
  BY DEF Row
<1>2. \A s \in Status : Changed(l, s) \in Status \union {"none"}
  BY Statuses
<1>3. Recorded(l, o) \in Row
  <2>1. PICK s \in Status :
          Recorded(l, o) = [row EXCEPT !.status = Changed(l, s), !.attempts = l.attempts + 1]
    BY DEF Recorded, Status
  <2>2. Changed(l, s) \in Status \union {"none"}
    BY <1>2
  <2> QED BY <1>1, <2>1, <2>2 DEF Row
<1> QED BY <1>1, <1>3 DEF Recorded, Result, Row, Changed, Settled, Status

LEMMA TypeInit == Init => TypeOK
BY DeliveriesAssumption DEF Init, TypeOK, Row, NoRow, Gens, JobState, Status

\* What a worker does to its own process keeps the type invariant.
LEMMA TypeWorker ==
  ASSUME TypeOK, OneLiveJob, Attempting, NEW w \in Workers,
         \/ \E g \in Gens : Start(w, g)
         \/ Snooze(w) \/ Park(w) \/ Load(w)
         \/ \E o \in Outcomes : Attempt(w, o)
         \/ Record(w) \/ Finish(w) \/ Crash(w)
  PROVE  TypeOK'
<1> USE DEF webhooks, ghosts
<1>1. ASSUME NEW g \in Gens, Start(w, g)
      PROVE  TypeOK'
  BY <1>1 DEF Start, Goto, TypeOK, JobState
<1>2. CASE Snooze(w)
  BY <1>2 DEF Snooze, Goto, TypeOK
<1>3. CASE Park(w)
  <2>1. row' \in Row /\ row'.replays \in Gens
    BY <1>3, Statuses DEF Park, TypeOK, Row, Status
  <2> QED BY <1>3, <2>1 DEF Park, Goto, TypeOK
<1>4. CASE Load(w)
  <2>1. row' \in Row /\ row'.replays \in Gens /\ Found \in Row
    BY <1>4, Statuses DEF Load, TypeOK
  <2> QED BY <1>4, <2>1 DEF Load, Goto, TypeOK
<1>5. ASSUME NEW o \in Outcomes, Attempt(w, o)
      PROVE  TypeOK'
  <2>1. o \in Outcome
    BY ChannelType
  <2>2. calls' \in Nat /\ accepted' \in Nat
    BY <1>5 DEF Attempt, TypeOK
  <2> QED BY <1>5, <2>1, <2>2 DEF Attempt, Goto, TypeOK
<1>6. CASE Record(w)
  <2>1. outcome[w] \in Outcome /\ loaded[w] \in Row /\ row \in Row
    BY <1>6, ChannelType DEF Attempting, Record, TypeOK
  <2>2. /\ row' \in Row /\ row'.replays \in Gens
        /\ Result(loaded[w], outcome[w]) \in {"done", "cancel", "retry"}
    BY <1>6, <2>1, RecordedType DEF Record, TypeOK
  <2> QED BY <1>6, <2>2 DEF Record, Goto, TypeOK
<1>7. CASE Finish(w)
  <2>1. job' \in [Gens -> JobState] /\ NoRow \in Row /\ 0 \in Gens
    BY <1>7, DeliveriesAssumption DEF Finish, TypeOK, JobState, NoRow, Row, Gens
  <2>2. \A v \in Workers : pc'[v] = "idle"
    BY <1>7 DEF Finish, Leave, Goto, TypeOK, OneLiveJob
  <2> QED BY <1>7, <2>1, <2>2 DEF Finish, Leave, Goto, TypeOK
<1>8. CASE Crash(w)
  <2>1. NoRow \in Row /\ 0 \in Gens
    BY DeliveriesAssumption DEF NoRow, Row, Gens
  <2>2. crashes' \in Nat
    BY <1>8 DEF Crash, TypeOK
  <2> QED BY <1>8, <2>1, <2>2 DEF Crash, Leave, Goto, TypeOK
<1> QED BY <1>1, <1>2, <1>3, <1>4, <1>5, <1>6, <1>7, <1>8

\* So does everyone else.
LEMMA TypeOthers ==
  ASSUME TypeOK,
         \/ \E g \in Gens : Rescue(g)
         \/ ParkBacklog \/ ReleaseParked \/ Acknowledge
         \/ \E r \in Receivers : (\E s \in Receipts : ReceiptRead(r, s)) \/ ReceiptWrite(r)
         \/ Replay
  PROVE  TypeOK'
<1> USE DEF work, ghosts
<1>1. ASSUME NEW g \in Gens, Rescue(g)
      PROVE  TypeOK'
  BY <1>1 DEF Rescue, webhooks, TypeOK, JobState
<1>2. CASE ParkBacklog \/ ReleaseParked \/ Acknowledge
  <2>1. row' \in Row /\ row'.replays \in Gens
    BY <1>2 DEF ParkBacklog, ReleaseParked, Acknowledge, TypeOK, Row, Status
  <2> QED BY <1>2, <2>1 DEF ParkBacklog, ReleaseParked, Acknowledge, webhooks, TypeOK
<1>3. ASSUME NEW r \in Receivers, NEW s \in Receipts, ReceiptRead(r, s)
      PROVE  TypeOK'
  <2>1. s \in Status
    BY ChannelType DEF Settled, Status
  <2>2. receipts' \in Nat
    BY <1>3 DEF ReceiptRead, TypeOK
  <2> QED BY <1>3, <2>1, <2>2 DEF ReceiptRead, TypeOK
<1>4. ASSUME NEW r \in Receivers, ReceiptWrite(r)
      PROVE  TypeOK'
  <2>1. NoRow \in Row
    BY DEF NoRow, Row
  <2>2. row' \in Row /\ row'.replays \in Gens
    BY <1>4 DEF ReceiptWrite, Changed, TypeOK, Row
  <2> QED BY <1>4, <2>1, <2>2 DEF ReceiptWrite, TypeOK
<1>5. CASE Replay
  <2>1. row' \in Row /\ row'.replays \in Gens /\ row.replays + 1 \in Gens
    BY <1>5, DeliveriesAssumption DEF Replay, TypeOK, Row, Status, Gens
  <2>2. \A w \in Workers : pc[w] # "idle" => job' = job
    BY <1>5 DEF Replay, TypeOK, Live
  <2>3. job' \in [Gens -> JobState]
    BY <1>5, <2>1 DEF Replay, TypeOK, JobState
  <2> QED BY <1>5, <2>1, <2>2, <2>3 DEF Replay, webhooks, TypeOK
<1> QED BY <1>1, <1>2, <1>3, <1>4, <1>5

\* Start, Rescue and Finish are the only steps that change a live job, and
\* Replay inserts one only when there is none.
LEMMA OneLiveStep ==
  ASSUME TypeOK, TypeOK', OneLiveJob, Next
  PROVE  OneLiveJob'
<1> USE DEF work, OneLiveJob, Live
<1>1. ASSUME NEW w \in Workers, NEW g \in Gens, Start(w, g)
      PROVE  OneLiveJob'
  <2>1. \A v \in Workers : pc[v] = "idle"
    BY <1>1 DEF Start, TypeOK
  <2> QED BY <1>1, <2>1 DEF Start, Goto, TypeOK
<1>2. ASSUME NEW w \in Workers,
             \/ Snooze(w) \/ Park(w) \/ Load(w) \/ Record(w)
             \/ \E o \in Outcomes : Attempt(w, o)
      PROVE  OneLiveJob'
  <2>1. job' = job /\ \A v \in Workers : pc'[v] # "idle" => pc[v] # "idle"
    BY <1>2 DEF Snooze, Park, Load, Record, Attempt, Goto, TypeOK
  <2> QED BY <2>1
<1>3. ASSUME NEW w \in Workers, Finish(w) \/ Crash(w)
      PROVE  OneLiveJob'
  <2>1. \A v \in Workers : pc'[v] # "idle" => pc[v] # "idle"
    BY <1>3 DEF Finish, Crash, Leave, Goto, TypeOK
  <2>2. \A g \in Gens : Live(g)' => Live(g)
    BY <1>3 DEF Finish, Crash, TypeOK
  <2> QED BY <2>1, <2>2
<1>4. ASSUME NEW g \in Gens, Rescue(g)
      PROVE  OneLiveJob'
  BY <1>4 DEF Rescue, TypeOK
<1>5. ASSUME ParkBacklog \/ ReleaseParked \/ Acknowledge
             \/ \E r \in Receivers : (\E s \in Receipts : ReceiptRead(r, s)) \/ ReceiptWrite(r)
      PROVE  OneLiveJob'
  <2>1. job' = job /\ pc' = pc
    BY <1>5 DEF ParkBacklog, ReleaseParked, Acknowledge, ReceiptRead, ReceiptWrite
  <2> QED BY <2>1
<1>6. CASE Replay
  <2>1. pc' = pc
    BY <1>6 DEF Replay
  <2>2. \A g, h \in Gens : Live(g)' /\ Live(h)' => g = h
    BY <1>6 DEF Replay, TypeOK
  <2> QED BY <2>1, <2>2
<1> QED BY <1>1, <1>2, <1>3, <1>4, <1>5, <1>6 DEF Next

\* Only Replay inserts a job, and it inserts the one its row counts.
LEMMA InsertedStep ==
  ASSUME TypeOK, TypeOK', Attempting, NotYetInserted, Next
  PROVE  NotYetInserted' /\ row'.replays >= row.replays
<1> USE DEF work, NotYetInserted
<1>0. row.replays \in Nat /\ row'.replays \in Nat
  BY DEF TypeOK, Row
<1>1. ASSUME NEW w \in Workers, NEW g \in Gens, Start(w, g)
      PROVE  row' = row /\ \A h \in Gens : job[h] = "none" => job'[h] = "none"
  BY <1>1 DEF Start, TypeOK
<1>2. ASSUME NEW w \in Workers,
             Snooze(w) \/ Park(w) \/ Load(w) \/ \E o \in Outcomes : Attempt(w, o)
      PROVE  row'.replays = row.replays /\ job' = job
  BY <1>2, Statuses DEF Snooze, Park, Load, Attempt, TypeOK, Row
<1>3. ASSUME NEW w \in Workers, Record(w)
      PROVE  row'.replays = row.replays /\ job' = job
  BY <1>3 DEF Record, Recorded, TypeOK, Row
<1>4. ASSUME NEW w \in Workers, Finish(w) \/ Crash(w)
      PROVE  row' = row /\ \A h \in Gens : job[h] = "none" => job'[h] = "none"
  BY <1>4 DEF Finish, Crash, TypeOK
<1>5. ASSUME NEW g \in Gens, Rescue(g)
      PROVE  row' = row /\ \A h \in Gens : job[h] = "none" => job'[h] = "none"
  BY <1>5 DEF Rescue, TypeOK
<1>6. ASSUME ParkBacklog \/ ReleaseParked \/ Acknowledge
             \/ \E r \in Receivers : (\E s \in Receipts : ReceiptRead(r, s)) \/ ReceiptWrite(r)
      PROVE  row'.replays = row.replays /\ job' = job
  BY <1>6 DEF ParkBacklog, ReleaseParked, Acknowledge, ReceiptRead, ReceiptWrite, TypeOK, Row
<1>7. CASE Replay
  <2>1. row'.replays = row.replays + 1
    BY <1>7 DEF Replay
  <2>2. \A h \in Gens : h # row.replays + 1 => job'[h] = job[h]
    BY <1>7 DEF Replay, TypeOK
  <2> QED BY <1>0, <2>1, <2>2 DEF Gens
<1> QED BY <1>0, <1>1, <1>2, <1>3, <1>4, <1>5, <1>6, <1>7 DEF Next

\* Only an attempt being recorded, or a replay that finds no live job, can
\* make a delivery need a job again.
LEMMA GoodStays ==
  ASSUME TypeOK, TypeOK', NotYetInserted, Good, Next,
         \A w \in Workers : ~Record(w),
         Replay => \E g \in Gens : Live(g)
  PROVE  Good'
<1> USE DEF work, Good
<1>0. /\ row.replays \in Nat /\ row.attempts \in Nat /\ row.replays \in Gens
      /\ Outcomes' = Outcomes
  BY ChannelStays DEF TypeOK, Row
<1>1. ASSUME NEW w \in Workers, NEW g \in Gens, Start(w, g)
      PROVE  Good'
  BY <1>0, <1>1 DEF Start, TypeOK
<1>2. ASSUME NEW w \in Workers,
             Snooze(w) \/ Park(w) \/ Load(w) \/ \E o \in Outcomes : Attempt(w, o)
      PROVE  Good'
  <2>1. job' = job /\ row'.replays = row.replays /\ row'.attempts = row.attempts
    BY <1>2, Statuses DEF Snooze, Park, Load, Attempt, TypeOK, Row
  <2>2. row.status \in Settled \union {"failed"} => row'.status = row.status
    BY <1>2 DEF Snooze, Park, Load, Attempt, Found, Settled
  <2> QED BY <1>0, <2>1, <2>2
<1>3. ASSUME NEW w \in Workers, Finish(w) \/ Crash(w)
      PROVE  Good'
  <2>1. row' = row
    BY <1>3 DEF Finish, Crash
  <2>2. job[row.replays] = "none" => job'[row.replays] = "none"
    BY <1>0, <1>3 DEF Finish, Crash, TypeOK
  <2> QED BY <1>0, <2>1, <2>2
<1>4. ASSUME NEW g \in Gens, Rescue(g)
      PROVE  Good'
  BY <1>0, <1>4 DEF Rescue, TypeOK
<1>5. CASE ParkBacklog \/ ReleaseParked \/ Acknowledge
  <2>1. job' = job /\ row'.replays = row.replays /\ row'.attempts = row.attempts
    BY <1>5 DEF ParkBacklog, ReleaseParked, Acknowledge, TypeOK, Row
  <2>2. row.status \notin Settled \union {"failed"}
    BY <1>5 DEF ParkBacklog, ReleaseParked, Acknowledge, Settled
  <2> QED BY <1>0, <2>1, <2>2
<1>6. ASSUME NEW r \in Receivers, (\E s \in Receipts : ReceiptRead(r, s)) \/ ReceiptWrite(r)
      PROVE  Good'
  <2>1. job' = job /\ row'.replays = row.replays /\ row'.attempts = row.attempts
    BY <1>6 DEF ReceiptRead, ReceiptWrite, TypeOK, Row
  <2>2. row'.status \in Settled \union {"failed", row.status}
    BY <1>6 DEF ReceiptRead, ReceiptWrite, Advances, Rank, Changed, Settled, TypeOK, Row
  <2> QED BY <1>0, <2>1, <2>2
<1>7. CASE Replay
  <2>1. job' = job /\ row'.replays = row.replays + 1
    BY <1>7 DEF Replay
  <2>2. row.replays + 1 \in Gens
    BY <1>7, <1>0, DeliveriesAssumption DEF Replay, Gens
  <2>3. job[row.replays + 1] = "none"
    BY <1>0, <2>2 DEF NotYetInserted
  <2> QED BY <1>0, <2>1, <2>3
<1> QED BY <1>1, <1>2, <1>3, <1>4, <1>5, <1>6, <1>7 DEF Next

\* The attempt's view of the delivery is kept by every step.
LEMMA AttemptingStep ==
  ASSUME TypeOK, TypeOK', OneLiveJob, NotYetInserted, Attempting, Next
  PROVE  Attempting'
<1> USE DEF work, Attempting
<1> SUFFICES ASSUME NEW w \in Workers, pc'[w] \in {"attempt", "record"}
             PROVE  /\ loaded'[w].status \in {"pending", "paused", "failed"}
                    /\ loaded'[w].status = "failed" => Good'
                    /\ pc'[w] = "record" => outcome'[w] \in Outcomes
  BY ChannelStays
<1>1. CASE Load(w)
  <2>1. loaded'[w] = row' /\ row' = Found /\ pc'[w] = "attempt" /\ row.status \notin Settled
    BY <1>1 DEF Load, Goto, TypeOK
  <2>2. Found.status \in {"pending", "paused", "failed"}
    BY <2>1 DEF Found, TypeOK, Row, Status, Settled
  <2> QED BY <2>1, <2>2 DEF Good
<1>2. CASE \E o \in Outcomes : Attempt(w, o)
  <2>1. loaded' = loaded /\ row' = row /\ job' = job /\ pc[w] = "attempt" /\ outcome'[w] \in Outcomes
    BY <1>2 DEF Attempt, TypeOK
  <2> QED BY <2>1, ChannelStays DEF Good
<1>3. CASE ~Load(w) /\ ~\E o \in Outcomes : Attempt(w, o)
  <2>1. pc'[w] = pc[w] /\ loaded'[w] = loaded[w] /\ outcome'[w] = outcome[w]
    BY <1>3 DEF Next, Start, Snooze, Park, Load, Attempt, Record, Finish, Crash, Rescue, ParkBacklog,
       ReleaseParked, Acknowledge, ReceiptRead, ReceiptWrite, Replay, Goto, Leave, TypeOK
  <2>2. Live(gen[w]) /\ gen[w] \in Gens
    BY <2>1 DEF TypeOK, Live
  <2>3. \A v \in Workers : ~Record(v)
    BY <2>1 DEF Record, Goto, OneLiveJob, TypeOK
  <2>4. Good => Good'
    BY <2>2, <2>3, GoodStays
  <2> QED BY <2>1, <2>4
<1> QED BY <1>1, <1>2, <1>3

\* What record_result/3 leaves when it does not ask for a retry.
LEMMA RecordGood ==
  ASSUME TypeOK, TypeOK', Attempting, NEW w \in Workers, Record(w), outcome'[w] \in {"done", "cancel"}
  PROVE  Good'
<1> DEFINE l == loaded[w]
           o == outcome[w]
<1>1. /\ o \in Outcomes /\ o \in Outcome /\ l \in Row /\ row \in Row
      /\ l.status \in {"pending", "paused", "failed"}
      /\ l.status = "failed" => Good
  BY ChannelType DEF Attempting, Record, TypeOK
<1>2. /\ row' = Recorded(l, o) /\ job' = job /\ Outcomes' = Outcomes
      /\ Result(l, o) \in {"done", "cancel"}
  BY DEF Record, TypeOK, Outcomes
<1>3. row'.attempts > 0 /\ row'.replays = row.replays
  BY <1>1, <1>2, RecordedType
<1>4. CASE o = "pending"
  BY <1>1, <1>2, <1>3, <1>4 DEF Good
<1>5. CASE o = "ok"
  <2>1. row'.status = "sent"
    BY <1>1, <1>2, <1>5 DEF Recorded, Changed, Row
  <2> QED BY <2>1 DEF Good, Settled
<1>6. CASE o \in {"permanent", "halted", "transient"}
  <2>1. row'.status = Changed(l, "failed")
    BY <1>1, <1>2, <1>6 DEF Recorded, Result, Row
  <2>2. CASE l.status # "failed"
    BY <2>1, <2>2 DEF Changed, Good
  <2>3. CASE l.status = "failed"
    <3>1. row'.status = row.status
      BY <2>1, <2>3 DEF Changed
    <3> QED BY <1>1, <1>2, <1>3, <2>3, <3>1 DEF Good
  <2> QED BY <2>2, <2>3
<1> QED BY <1>1, <1>4, <1>5, <1>6 DEF Outcome

LEMMA OwedStep ==
  ASSUME TypeOK, TypeOK', OneLiveJob, NotYetInserted, Attempting, Owed, Next
  PROVE  Owed'
<1> USE DEF work, Owed
<1> SUFFICES ASSUME NEW w \in Workers, pc'[w] = "finish", outcome'[w] \in {"done", "cancel"}
             PROVE  Good'
  OBVIOUS
<1>1. CASE Load(w)
  <2>1. row.status \in Settled /\ row' = row
    BY <1>1 DEF Load, Goto, Found, Settled, TypeOK
  <2> QED BY <2>1 DEF Good
<1>2. CASE Record(w)
  BY <1>2, RecordGood
<1>3. CASE ~Load(w) /\ ~Record(w)
  <2>1. pc'[w] = pc[w] /\ outcome'[w] = outcome[w]
    BY <1>3 DEF Next, Start, Snooze, Park, Load, Attempt, Record, Finish, Crash, Rescue, ParkBacklog,
       ReleaseParked, Acknowledge, ReceiptRead, ReceiptWrite, Replay, Goto, Leave, TypeOK
  <2>2. Live(gen[w]) /\ gen[w] \in Gens
    BY <2>1 DEF TypeOK, Live
  <2>3. \A v \in Workers : ~Record(v)
    BY <2>1, <1>3 DEF Record, Goto, OneLiveJob, TypeOK
  <2> QED BY <2>1, <2>2, <2>3, GoodStays
<1> QED BY <1>1, <1>2, <1>3

\* A step that ends the last live job leaves a delivery that needs none.
LEMMA StrandedStep ==
  ASSUME TypeOK, TypeOK', OneLiveJob, NotYetInserted, Attempting, Owed, StrandedOnlyBySkip, Next
  PROVE  StrandedOnlyBySkip'
<1> USE DEF work
<1>1. (\E g \in Gens : Live(g)) \/ Good
  BY DEF StrandedOnlyBySkip, Good, TypeOK, Row, Status, Settled
<1> SUFFICES (\E g \in Gens : Live(g)') \/ Good'
  BY DEF StrandedOnlyBySkip, Good, Settled
<1>2. CASE \E g \in Gens : Live(g)
  <2>1. PICK g \in Gens : Live(g)
    BY <1>2
  <2>2. CASE \E w \in Workers : Finish(w)
    <3>1. PICK w \in Workers : Finish(w)
      BY <2>2
    <3>2. CASE outcome[w] \in {"done", "cancel"}
      <4>1. Good /\ \A v \in Workers : ~Record(v)
        BY <3>1, <3>2 DEF Finish, Owed, Record, OneLiveJob, TypeOK
      <4> QED BY <4>1, <1>2, GoodStays
    <3>3. CASE outcome[w] \notin {"done", "cancel"}
      <4>1. job'[gen[w]] = "waiting" /\ gen[w] \in Gens
        BY <3>1, <3>3 DEF Finish, TypeOK
      <4> QED BY <4>1 DEF Live
    <3> QED BY <3>2, <3>3
  <2>3. CASE ~\E w \in Workers : Finish(w)
    <3>1. Live(g)'
      BY <2>1, <2>3 DEF Next, Start, Snooze, Park, Load, Attempt, Record, Crash, Rescue, ParkBacklog,
         ReleaseParked, Acknowledge, ReceiptRead, ReceiptWrite, Replay, Live, TypeOK
    <3> QED BY <3>1
  <2> QED BY <2>2, <2>3
<1>3. CASE Good /\ ~\E g \in Gens : Live(g)
  <2>1. \A w \in Workers : ~Record(w)
    BY <1>3 DEF Record, TypeOK, Live
  <2>2. CASE Replay
    <3>1. row.replays + 1 \in Gens
      BY <2>2, DeliveriesAssumption DEF Replay, Gens, TypeOK, Row
    <3>2. job'[row.replays + 1] = "waiting"
      BY <1>3, <2>2, <3>1 DEF Replay, TypeOK
    <3> QED BY <3>1, <3>2 DEF Live
  <2>3. CASE ~Replay
    BY <1>3, <2>1, <2>3, GoodStays
  <2> QED BY <2>2, <2>3
<1> QED BY <1>1, <1>2, <1>3

\* A worker that is not idle excludes every other, and every other job.
LEMMA Alone ==
  ASSUME TypeOK, OneLiveJob, NEW w \in Workers, pc[w] # "idle"
  PROVE  /\ Live(gen[w]) /\ gen[w] \in Gens
         /\ \A v \in Workers : v # w => pc[v] = "idle"
         /\ \A g \in Gens : Live(g) => g = gen[w]
BY DEF TypeOK, OneLiveJob, Live

\* While a job waits, no worker is busy.
LEMMA NoneBusy ==
  ASSUME TypeOK, OneLiveJob, NEW g \in Gens, job[g] = "waiting"
  PROVE  Live(g) /\ \A v \in Workers : pc[v] = "idle"
<1>1. Live(g)
  BY DEF Live
<1>2. ASSUME NEW v \in Workers, pc[v] # "idle" PROVE FALSE
  <2>1. g = gen[v]
    BY <1>1, <1>2, Alone
  <2>2. job[gen[v]] = "executing"
    BY <1>2 DEF TypeOK
  <2> QED BY <2>1, <2>2
<1> QED BY <1>1, <1>2

\* When the busy worker moves on, the others stay idle.
LEMMA Moves ==
  ASSUME TypeOK, OneLiveJob, NEW w \in Workers, pc[w] # "idle", NEW l, Goto(w, l)
  PROVE  pc'[w] = l /\ \A v \in Workers : v # w => pc'[v] = "idle"
<1>1. DOMAIN pc = Workers /\ pc' = [pc EXCEPT ![w] = l]
  BY DEF TypeOK, Goto
<1>2. \A v \in Workers : v # w => pc[v] = "idle"
  BY Alone
<1> QED BY <1>1, <1>2, Zenon

\* The provider's acceptances stay paid for.
LEMMA PaidStep ==
  ASSUME TypeOK, TypeOK', OneLiveJob, Attempting, Paid, Next, row'.replays >= row.replays
  PROVE  Paid'
<1> USE DEF work, ghosts
<1>0. /\ accepted \in Nat /\ crashes \in Nat /\ row.replays \in Nat
      /\ accepted' \in Nat /\ crashes' \in Nat /\ row'.replays \in Nat
  BY DEF TypeOK, Row
<1>1. ASSUME accepted' = accepted, crashes' = crashes, Spent => Spent'
      PROVE  Paid'
  BY <1>0, <1>1 DEF Paid
<1>2. ASSUME NEW w \in Workers, NEW g \in Gens, Start(w, g)
      PROVE  Paid'
  <2>1. ~Spent
    BY <1>2, NoneBusy DEF Start, Spent
  <2> QED BY <1>1, <1>2, <2>1 DEF Start
<1>3. ASSUME NEW w \in Workers, Snooze(w) \/ Park(w) \/ Load(w)
      PROVE  Paid'
  <2>1. pc[w] = "admit" /\ accepted' = accepted /\ crashes' = crashes
    BY <1>3 DEF Snooze, Park, Load
  <2>2. ~Spent
    BY <2>1, Alone DEF Spent
  <2> QED BY <1>1, <2>1, <2>2
<1>4. ASSUME NEW w \in Workers, NEW o \in Outcomes, Attempt(w, o)
      PROVE  Paid'
  <2>1. ~Spent
    BY <1>4, Alone DEF Attempt, Spent
  <2>2. crashes' = crashes /\ row' = row
    BY <1>4 DEF Attempt
  <2>3. CASE o \in {"ok", "pending"}
    <3>a. DOMAIN outcome = Workers /\ outcome' = [outcome EXCEPT ![w] = o]
      BY <1>4 DEF Attempt, TypeOK
    <3>0. pc'[w] = "record" /\ outcome'[w] = o
      BY <1>4, <3>a, Moves DEF Attempt
    <3>1. Spent'
      BY <2>3, <3>0 DEF Spent
    <3>2. accepted' = accepted + 1
      BY <1>4, <2>3 DEF Attempt
    <3> QED BY <1>0, <2>1, <2>2, <3>1, <3>2 DEF Paid
  <2>4. CASE o \notin {"ok", "pending"}
    BY <1>1, <1>4, <2>1, <2>4 DEF Attempt
  <2> QED BY <2>3, <2>4
<1>5. ASSUME NEW w \in Workers, Record(w)
      PROVE  Paid'
  <2>1. Spent => outcome[w] \in {"ok", "pending"}
    BY <1>5, Alone DEF Record, Spent
  <2>2. outcome[w] \in {"ok", "pending"} => Spent'
    BY <1>5 DEF Record, Goto, Result, Spent, TypeOK
  <2> QED BY <1>1, <1>5, <2>1, <2>2 DEF Record
<1>6. ASSUME NEW w \in Workers, Finish(w)
      PROVE  Paid'
  <2>1. Spent => outcome[w] = "done"
    BY <1>6, Alone DEF Finish, Spent
  <2>2. outcome[w] = "done" => \A g \in Gens : ~Live(g)'
    BY <1>6, Alone DEF Finish, Live, TypeOK
  <2> QED BY <1>1, <1>6, <2>1, <2>2 DEF Finish, Spent
<1>7. ASSUME NEW w \in Workers, Crash(w)
      PROVE  Paid'
  <2>1. crashes' = crashes + 1 /\ accepted' = accepted
    BY <1>7 DEF Crash
  <2> QED BY <1>0, <2>1 DEF Paid
<1>8. ASSUME NEW g \in Gens, Rescue(g)
      PROVE  Paid'
  <2>1. ~Spent
    BY <1>8, Alone DEF Rescue, Spent, Live
  <2> QED BY <1>1, <1>8, <2>1 DEF Rescue
<1>9. ASSUME ParkBacklog \/ ReleaseParked \/ Acknowledge
             \/ \E r \in Receivers : (\E s \in Receipts : ReceiptRead(r, s)) \/ ReceiptWrite(r)
      PROVE  Paid'
  <2>1. /\ accepted' = accepted /\ crashes' = crashes
        /\ job' = job /\ pc' = pc /\ outcome' = outcome
    BY <1>9 DEF ParkBacklog, ReleaseParked, Acknowledge, ReceiptRead, ReceiptWrite
  <2> QED BY <1>1, <2>1 DEF Spent, Live
<1>10. CASE Replay
  <2>1. row'.replays = row.replays + 1 /\ accepted' = accepted /\ crashes' = crashes
    BY <1>10 DEF Replay
  <2> QED BY <1>0, <2>1 DEF Paid
<1> QED BY <1>2, <1>3, <1>4, <1>5, <1>6, <1>7, <1>8, <1>9, <1>10 DEF Next

\* Arithmetic of the budget.
LEMMA Budgets ==
  /\ \A k \in Nat : Budget(k) \in Nat /\ Budget(k + 1) = Budget(k) + MaxAttempts
  /\ \A j, k \in Nat : j < k => Budget(j) + MaxAttempts <= Budget(k)
  /\ \A j, k \in Nat : j <= k => Budget(j) <= Budget(k)
<1> USE DeliveriesAssumption
<1>1. \A k \in Nat : Budget(k) \in Nat /\ Budget(k + 1) = Budget(k) + MaxAttempts
  BY DEF Budget
<1>2. ASSUME NEW j \in Nat, NEW k \in Nat, j < k
      PROVE  Budget(j) + MaxAttempts <= Budget(k)
  <2>1. Budget(k) - (Budget(j) + MaxAttempts) = MaxAttempts * (k - j - 1)
    BY DEF Budget
  <2>2. k - j - 1 \in Nat
    BY <1>2
  <2>3. MaxAttempts * (k - j - 1) \in Nat
    BY <2>2
  <2> QED BY <1>1, <2>1, <2>3
<1>3. ASSUME NEW j \in Nat, NEW k \in Nat, j <= k
      PROVE  Budget(j) <= Budget(k)
  BY <1>1, <1>2, <1>3
<1> QED BY <1>1, <1>2, <1>3

\* What recording one attempt does to the calls that are left.
LEMMA Lefts ==
  /\ \A n \in Nat : /\ Left(n) \in Nat /\ 1 <= Left(n) /\ Left(n) <= MaxAttempts
                    /\ Left(n + 1) <= Left(n)
                    /\ ~Exhausted(n + 1) => Left(n + 1) = Left(n) - 1
  /\ Left(0) = MaxAttempts
BY DeliveriesAssumption DEF Left, Exhausted

\* The attempt budget is kept by every step.
LEMMA FundedStep ==
  ASSUME TypeOK, TypeOK', OneLiveJob, OneLiveJob', Attempting, Funded, Next
  PROVE  Funded'
<1> USE DEF work, ghosts
<1>0. /\ calls \in Nat /\ crashes \in Nat /\ row.replays \in Nat /\ row.attempts \in Nat
      /\ calls' \in Nat /\ crashes' \in Nat /\ row'.replays \in Nat /\ row'.attempts \in Nat
      /\ \A w \in Workers : loaded[w].replays \in Nat /\ loaded[w].attempts \in Nat
      /\ Budget(row.replays) \in Nat /\ Left(row.attempts) \in Nat /\ MaxAttempts \in Nat
  BY Budgets, Lefts, DeliveriesAssumption DEF TypeOK, Row
<1>1. ASSUME calls + Left(row.attempts) <= Budget(row.replays) + crashes,
             calls' = calls, crashes' = crashes,
             row'.attempts = row.attempts, row'.replays = row.replays,
             \A w \in Workers : pc'[w] \notin {"attempt", "record"}
      PROVE  Funded'
  BY <1>0, <1>1 DEF Funded
<1>2. ASSUME NEW w \in Workers, NEW g \in Gens, Start(w, g)
      PROVE  Funded'
  <2>1. Live(g) /\ \A v \in Workers : pc[v] = "idle"
    BY <1>2, NoneBusy DEF Start
  <2>2. calls + Left(row.attempts) <= Budget(row.replays) + crashes
    BY <2>1 DEF Funded, Committed
  <2>3. row' = row /\ calls' = calls /\ crashes' = crashes
    BY <1>2 DEF Start
  <2>4. DOMAIN pc = Workers /\ pc' = [pc EXCEPT ![w] = "admit"]
    BY <1>2 DEF Start, Goto, TypeOK
  <2>5. \A v \in Workers : pc'[v] \notin {"attempt", "record"}
    BY <2>1, <2>4
  <2> QED BY <1>1, <2>2, <2>3, <2>5
<1>3. ASSUME NEW w \in Workers, pc[w] = "admit"
      PROVE  /\ calls + Left(row.attempts) <= Budget(row.replays) + crashes
             /\ \A v \in Workers : v # w => pc[v] = "idle"
  BY <1>3, Alone DEF Funded, Committed
<1>4. ASSUME NEW w \in Workers, Snooze(w) \/ Park(w)
      PROVE  Funded'
  <2>1. row'.attempts = row.attempts /\ row'.replays = row.replays
    BY <1>4, Statuses DEF Snooze, Park, TypeOK, Row
  <2> QED BY <1>1, <1>3, <1>4, <2>1 DEF Snooze, Park, Goto, TypeOK
<1>5. ASSUME NEW w \in Workers, Load(w)
      PROVE  Funded'
  <2>1. row' = Found /\ row'.attempts = row.attempts /\ row'.replays = row.replays
    BY <1>5, Statuses DEF Load, TypeOK
  <2>2. \A v \in Workers : v # w => pc'[v] = "idle"
    BY <1>3, <1>5 DEF Load, Goto, TypeOK
  <2>3. CASE row.status \in Settled
    BY <1>1, <1>3, <1>5, <2>1, <2>2, <2>3 DEF Load, Goto, TypeOK
  <2>4. CASE row.status \notin Settled
    <3>1. pc'[w] = "attempt" /\ loaded'[w] = row' /\ calls' = calls /\ crashes' = crashes
      BY <1>5, <2>1, <2>4 DEF Load, Goto, TypeOK
    <3>2. calls + Left(row.attempts) <= Budget(row.replays) + crashes
      BY <1>3, <1>5 DEF Load
    <3>3. /\ calls' + Left(row'.attempts) <= Budget(row'.replays) + crashes'
          /\ Left(row'.attempts) \in Nat /\ Budget(row'.replays) \in Nat
      BY <1>0, <2>1, <3>1, <3>2
    <3>4. calls' + Left(row'.attempts) <= Budget(row'.replays) + crashes' + 1
      BY <1>0, <3>3
    <3>5. calls' + Left(loaded'[w].attempts) <= Budget(loaded'[w].replays) + crashes' + 0
      BY <1>0, <3>1, <3>3
    <3>6. loaded'[w].replays <= row'.replays /\ loaded'[w].attempts = row'.attempts
      BY <1>0, <3>1
    <3>7. ASSUME NEW v \in Workers, pc'[v] \in {"attempt", "record"}
          PROVE  v = w /\ pc'[v] # "record"
      BY <2>2, <3>1, <3>7
    <3> QED BY <3>3, <3>4, <3>5, <3>6, <3>7 DEF Funded
  <2> QED BY <2>3, <2>4
<1>6. ASSUME NEW w \in Workers, NEW o \in Outcomes, Attempt(w, o)
      PROVE  Funded'
  <2>0. calls' <= calls + 1
    <3>1. calls' = calls \/ calls' = calls + 1
      BY <1>6 DEF Attempt
    <3>2. calls \in Nat
      BY <1>0
    <3> QED BY <3>1, <3>2
  <2>1. /\ row' = row /\ crashes' = crashes /\ loaded' = loaded /\ job' = job
        /\ pc[w] = "attempt" /\ pc'[w] = "record" /\ calls' <= calls + 1
    <3>1. row' = row /\ crashes' = crashes /\ loaded' = loaded /\ job' = job /\ pc[w] = "attempt"
      BY <1>6 DEF Attempt
    <3>2. pc'[w] = "record"
      BY <1>6, Moves DEF Attempt
    <3> QED BY <2>0, <3>1, <3>2
  <2>2. \A v \in Workers : v # w => pc'[v] = "idle"
    BY <1>6, Moves DEF Attempt
  <2>3. calls + Left(row.attempts) <= Budget(row.replays) + crashes
    BY <2>1, Alone DEF Funded, Committed
  <2>4. Committed(w)'
    BY <2>1 DEF Committed
  <2>5. /\ loaded[w].replays <= row.replays
        /\ loaded[w].replays = row.replays => loaded[w].attempts = row.attempts
        /\ calls + Left(loaded[w].attempts) <= Budget(loaded[w].replays) + crashes + 0
    BY <2>1 DEF Funded
  <2>6. Left(loaded[w].attempts) \in Nat /\ Budget(loaded[w].replays) \in Nat
    BY <1>0, Budgets, Lefts
  <2>7. calls' + Left(row'.attempts) <= Budget(row'.replays) + crashes' + 1
    BY <1>0, <2>1, <2>3
  <2>8. calls' + Left(loaded'[w].attempts) <= Budget(loaded'[w].replays) + crashes' + 1
    BY <1>0, <2>1, <2>5, <2>6
  <2>9. ASSUME NEW v \in Workers, pc'[v] \in {"attempt", "record"}
        PROVE  v = w /\ pc'[v] = "record"
    BY <2>1, <2>2, <2>9
  <2> QED BY <2>1, <2>4, <2>5, <2>7, <2>8, <2>9 DEF Funded
<1>7. ASSUME NEW w \in Workers, Record(w)
      PROVE  Funded'
  <2> DEFINE l == loaded[w]
  <2>1. /\ row'.attempts = l.attempts + 1 /\ row'.replays = row.replays
        /\ calls' = calls /\ crashes' = crashes
        /\ pc[w] = "record" /\ pc'[w] = "finish"
        /\ outcome'[w] = Result(l, outcome[w])
    BY <1>7 DEF Record, Recorded, Goto, TypeOK, Row
  <2>2. \A v \in Workers : v # w => pc'[v] = "idle"
    BY <1>7, Moves DEF Record
  <2>3. calls + Left(l.attempts) <= Budget(l.replays) + crashes + 1 /\ l.replays <= row.replays
    BY <2>1 DEF Funded
  <2>4. /\ l.attempts \in Nat /\ l.replays \in Nat
        /\ Left(l.attempts) \in Nat /\ Left(l.attempts + 1) \in Nat
        /\ Left(l.attempts + 1) <= Left(l.attempts)
        /\ ~Exhausted(l.attempts + 1) => Left(l.attempts + 1) = Left(l.attempts) - 1
    BY <1>0, Lefts
  <2>5. Budget(l.replays) \in Nat /\ Budget(l.replays) <= Budget(row.replays)
    BY <1>0, <2>3, <2>4, Budgets
  <2>6. ~Committed(w)' => ~Exhausted(l.attempts + 1)
    BY <2>1 DEF Committed, Result
  <2> DEFINE n == Left(l.attempts)  m == Left(l.attempts + 1)
             b == Budget(l.replays) c == Budget(row.replays)
  <2>a. /\ n \in Nat /\ m \in Nat /\ b \in Nat /\ c \in Nat /\ m <= n /\ b <= c
        /\ calls + n <= b + crashes + 1
        /\ ~Committed(w)' => m = n - 1
    BY <1>0, <2>3, <2>4, <2>5, <2>6
  <2>b. Left(row'.attempts) = m /\ Budget(row'.replays) = c
    BY <2>1
  <2> HIDE DEF n, m, b, c
  <2>d. calls \in Nat /\ crashes \in Nat
    BY <1>0
  <2>c. calls + m <= c + crashes + 1 /\ (~Committed(w)' => calls + m <= c + crashes)
    BY <2>a, <2>d
  <2>7. calls' + Left(row'.attempts) <= Budget(row'.replays) + crashes' + 1
    BY <2>1, <2>b, <2>c
  <2>8. ~Committed(w)' => calls' + Left(row'.attempts) <= Budget(row'.replays) + crashes'
    BY <2>1, <2>b, <2>c
  <2>9. \A v \in Workers : pc'[v] \notin {"attempt", "record"}
    BY <2>1, <2>2
  <2> QED BY <2>7, <2>8, <2>9 DEF Funded
<1>8. ASSUME NEW w \in Workers, Finish(w)
      PROVE  Funded'
  <2>1. row' = row /\ calls' = calls /\ crashes' = crashes /\ pc[w] = "finish"
    BY <1>8 DEF Finish
  <2>2. \A v \in Workers : pc'[v] = "idle"
    BY <1>8, Moves DEF Finish, Leave
  <2>3. CASE outcome[w] \in {"done", "cancel"}
    <3>1. \A g \in Gens : ~Live(g)'
      BY <1>8, <2>3, Alone DEF Finish, Live, TypeOK
    <3> QED BY <2>1, <2>2, <3>1 DEF Funded
  <2>4. CASE outcome[w] \notin {"done", "cancel"}
    <3>1. calls + Left(row.attempts) <= Budget(row.replays) + crashes
      BY <2>1, <2>4, Alone DEF Funded, Committed
    <3> QED BY <1>1, <2>1, <2>2, <3>1
  <2> QED BY <2>3, <2>4
<1>9. ASSUME NEW w \in Workers, Crash(w)
      PROVE  Funded'
  <2>1. row' = row /\ calls' = calls /\ crashes' = crashes + 1
    BY <1>9 DEF Crash
  <2>2. \A v \in Workers : pc'[v] = "idle"
    BY <1>9, Moves DEF Crash, Leave
  <2>3. calls' + Left(row'.attempts) <= Budget(row'.replays) + crashes'
    BY <1>0, <2>1 DEF Funded
  <2>4. calls' + Left(row'.attempts) <= Budget(row'.replays) + crashes' + 1
    BY <1>0, <2>1, <2>3
  <2> QED BY <2>2, <2>3, <2>4 DEF Funded
<1>10. ASSUME NEW g \in Gens, Rescue(g)
      PROVE  Funded'
  <2>1. Live(g) /\ \A v \in Workers : pc[v] = "idle"
    BY <1>10, Alone DEF Rescue, Live
  <2>2. calls + Left(row.attempts) <= Budget(row.replays) + crashes
    BY <2>1 DEF Funded, Committed
  <2> QED BY <1>1, <1>10, <2>1, <2>2 DEF Rescue
<1>11. ASSUME ParkBacklog \/ ReleaseParked \/ Acknowledge
              \/ \E r \in Receivers : (\E s \in Receipts : ReceiptRead(r, s)) \/ ReceiptWrite(r)
       PROVE  Funded'
  <2>1. /\ row'.attempts = row.attempts /\ row'.replays = row.replays
        /\ job' = job /\ pc' = pc /\ outcome' = outcome /\ loaded' = loaded
        /\ calls' = calls /\ crashes' = crashes
    BY <1>11 DEF ParkBacklog, ReleaseParked, Acknowledge, ReceiptRead, ReceiptWrite, TypeOK, Row
  <2> QED BY <2>1 DEF Funded, Live, Committed
<1>12. CASE Replay
  <2>1. /\ row'.attempts = 0 /\ row'.replays = row.replays + 1
        /\ pc' = pc /\ loaded' = loaded /\ calls' = calls /\ crashes' = crashes
    BY <1>12 DEF Replay
  <2>2. 1 <= Left(row.attempts) /\ Left(0) = MaxAttempts
    BY <1>0, Lefts
  <2>3. Budget(row.replays + 1) = Budget(row.replays) + MaxAttempts
    BY <1>0, Budgets
  <2>a. calls + Left(row.attempts) <= Budget(row.replays) + crashes + 1
    BY DEF Funded
  <2>b. Left(row'.attempts) = MaxAttempts /\ Budget(row'.replays) = Budget(row.replays) + MaxAttempts
    BY <2>1, <2>2, <2>3
  <2>c. /\ calls \in Nat /\ crashes \in Nat /\ MaxAttempts \in Nat
        /\ Left(row.attempts) \in Nat /\ Budget(row.replays) \in Nat
    BY <1>0
  <2>4. calls' + Left(row'.attempts) <= Budget(row'.replays) + crashes'
    BY <2>1, <2>2, <2>a, <2>b, <2>c
  <2>6. ASSUME NEW w \in Workers, pc[w] \in {"attempt", "record"}
        PROVE  loaded[w].replays <= row'.replays /\ loaded[w].replays # row'.replays
    <3>1. loaded[w].replays <= row.replays
      BY <2>6 DEF Funded
    <3>2. loaded[w].replays \in Nat /\ row.replays \in Nat
      BY <1>0
    <3> QED BY <2>1, <3>1, <3>2
  <2>7. calls' + Left(row'.attempts) <= Budget(row'.replays) + crashes' + 1
    BY <2>1, <2>4, <2>b, <2>c
  <2>8. \A w \in Workers : pc[w] \in {"attempt", "record"} =>
          calls' + Left(loaded'[w].attempts) <=
            Budget(loaded'[w].replays) + crashes' + (IF pc'[w] = "record" THEN 1 ELSE 0)
    BY <2>1 DEF Funded
  <2> QED BY <2>1, <2>4, <2>6, <2>7, <2>8 DEF Funded
<1> QED BY <1>2, <1>4, <1>5, <1>6, <1>7, <1>8, <1>9, <1>10, <1>11, <1>12 DEF Next

-----------------------------------------------------------------------------

LEMMA InvInit == Init => IInv
<1> SUFFICES ASSUME Init PROVE IInv
  OBVIOUS
<1>1. TypeOK
  BY TypeInit
<1>2. OneLiveJob /\ NotYetInserted
  BY DEF Init, OneLiveJob, NotYetInserted, Live, Gens, NoRow
<1>3. Attempting /\ Owed
  BY DEF Init, Attempting, Owed
<1>4. 0 \in Gens /\ Live(0)
  BY DeliveriesAssumption DEF Init, Gens, Live
<1>5. StrandedOnlyBySkip
  BY <1>4 DEF StrandedOnlyBySkip
<1>6. Paid
  BY DEF Init, Paid, NoRow
<1>7. Funded
  <2>1. Left(0) = MaxAttempts /\ Budget(0) = MaxAttempts /\ MaxAttempts \in Nat
    BY Lefts, DeliveriesAssumption DEF Budget
  <2> QED BY <2>1 DEF Init, Funded, NoRow
<1> QED BY <1>1, <1>2, <1>3, <1>5, <1>6, <1>7 DEF IInv

LEMMA InvStep == IInv /\ [Next]_vars => IInv'
<1> SUFFICES ASSUME IInv, [Next]_vars PROVE IInv'
  OBVIOUS
<1>1. CASE Next
  <2>1. TypeOK'
    BY <1>1, TypeWorker, TypeOthers DEF IInv, Next
  <2>2. OneLiveJob'
    BY <1>1, <2>1, OneLiveStep DEF IInv
  <2>3. NotYetInserted' /\ row'.replays >= row.replays
    BY <1>1, <2>1, InsertedStep DEF IInv
  <2>4. Attempting' /\ Owed' /\ StrandedOnlyBySkip'
    BY <1>1, <2>1, AttemptingStep, OwedStep, StrandedStep DEF IInv
  <2>5. Paid'
    BY <1>1, <2>1, <2>3, PaidStep DEF IInv
  <2>6. Funded'
    BY <1>1, <2>1, <2>2, FundedStep DEF IInv
  <2> QED BY <2>1, <2>2, <2>3, <2>4, <2>5, <2>6 DEF IInv
<1>2. CASE UNCHANGED vars
  <2>1. /\ TypeOK' /\ OneLiveJob' /\ NotYetInserted' /\ Attempting'
    BY <1>2 DEF IInv, vars, TypeOK, OneLiveJob, NotYetInserted, Attempting, Good, Live, Outcomes
  <2>2. Owed' /\ StrandedOnlyBySkip'
    BY <1>2 DEF IInv, vars, Owed, Good, StrandedOnlyBySkip, Live, Outcomes
  <2>3. Paid' /\ Funded'
    BY <1>2 DEF IInv, vars, Paid, Spent, Funded, Committed, Live
  <2> QED BY <2>1, <2>2, <2>3 DEF IInv
<1> QED BY <1>1, <1>2

\* The inductive invariant holds for any number of workers, receivers,
\* attempts, replays and crashes.
THEOREM Invariant == Spec => []IInv
BY InvInit, InvStep, PTL DEF Spec

\* "A delivery never gets two live jobs": enqueue_retries/1 inserts none while
\* one is incomplete, and no other step makes a second one.
THEOREM OneJobPerDelivery == Spec => [](TypeOK /\ OneLiveJob)
<1>1. IInv => TypeOK /\ OneLiveJob
  BY DEF IInv
<1> QED BY <1>1, Invariant, PTL

\* An open delivery has a live job, waits for clients, or lost its job to the
\* replay that skipped it.
THEOREM NothingElseStrands == Spec => []StrandedOnlyBySkip
<1>1. IInv => StrandedOnlyBySkip
  BY DEF IInv
<1> QED BY <1>1, Invariant, PTL

\* The provider accepts the message at most once per replay and crash, and
\* once more for the delivery itself.
THEOREM AcceptedIsPaid == Spec => []AcceptedBudget
<1>1. IInv => AcceptedBudget
  <2> SUFFICES ASSUME IInv PROVE AcceptedBudget
    OBVIOUS
  <2>1. accepted \in Nat /\ crashes \in Nat /\ row.replays \in Nat /\ Paid
    BY DEF IInv, TypeOK, Row
  <2> QED BY <2>1 DEF Paid, AcceptedBudget
<1> QED BY <1>1, Invariant, PTL

\* The retry policy bounds the adapter calls, for every max_attempts.
THEOREM CallsArePaid == Spec => []CallBudget
<1>1. IInv => CallBudget
  <2> SUFFICES ASSUME IInv PROVE CallBudget
    OBVIOUS
  <2>1. calls \in Nat /\ crashes \in Nat /\ row.replays \in Nat /\ row.attempts \in Nat /\ Funded
    BY DEF IInv, TypeOK, Row
  <2>2. Left(row.attempts) \in Nat /\ 1 <= Left(row.attempts) /\ Budget(row.replays) \in Nat
    BY <2>1, Lefts, Budgets
  <2>3. calls <= Budget(row.replays) + crashes
    BY <2>1, <2>2 DEF Funded
  <2> QED BY <2>3 DEF Budget, CallBudget
<1> QED BY <1>1, Invariant, PTL

\* Only the attempt that loaded a delivery as paused or failed can reopen one
\* that was sent meanwhile.
THEOREM OnlyStaleLoadsReopen == Spec => ReopenedOnlyByStaleLoad
<1> DEFINE A == row.status \in Settled /\ row'.status \in {"pending", "paused"} =>
                  \E w \in Workers : pc[w] = "record" /\ pc'[w] = "finish"
                                     /\ loaded[w].status \in {"paused", "failed"}
<1>1. IInv /\ [Next]_vars => [A]_vars
  <2> SUFFICES ASSUME IInv, Next, row.status \in Settled, row'.status \in {"pending", "paused"}
               PROVE  \E w \in Workers : /\ pc[w] = "record" /\ pc'[w] = "finish"
                                         /\ loaded[w].status \in {"paused", "failed"}
    OBVIOUS
  <2>0. row \in Row /\ pc \in [Workers -> {"idle", "admit", "attempt", "record", "finish"}]
    BY DEF IInv, TypeOK
  <2>1. ASSUME NEW w \in Workers, Record(w)
        PROVE  pc[w] = "record" /\ pc'[w] = "finish" /\ loaded[w].status \in {"paused", "failed"}
    <3>1. loaded[w].status \in {"pending", "paused", "failed"} /\ outcome[w] \in Outcomes
      BY <2>1 DEF IInv, Attempting, Record
    <3>2. loaded[w].status # "pending"
      BY <2>0, <2>1 DEF Record, Recorded, Changed, Settled, Row
    <3> QED BY <2>0, <2>1, <3>1, <3>2 DEF Record, Goto
  <2>2. ASSUME NEW r \in Receivers, ReceiptWrite(r)
        PROVE  FALSE
    BY <2>0, <2>2 DEF ReceiptWrite, Advances, Rank, Changed, Settled, Row
  <2>3. CASE /\ \A w \in Workers : ~Record(w)
             /\ \A r \in Receivers : ~ReceiptWrite(r)
    <3> SUFFICES FALSE
      OBVIOUS
    <3>0. row' # row
      BY DEF Settled
    <3>1. ASSUME NEW w \in Workers, NEW g \in Gens, Start(w, g) PROVE FALSE
      BY <3>0, <3>1 DEF Start
    <3>2. ASSUME NEW w \in Workers, Snooze(w) \/ Finish(w) \/ Crash(w) PROVE FALSE
      BY <3>0, <3>2 DEF Snooze, Finish, Crash
    <3>3. ASSUME NEW w \in Workers, NEW o \in Outcomes, Attempt(w, o) PROVE FALSE
      BY <3>0, <3>3 DEF Attempt
    <3>4. ASSUME NEW w \in Workers, Load(w) \/ Park(w) PROVE FALSE
      BY <2>0, <3>4 DEF Load, Park, Found, Settled
    <3>5. ASSUME NEW g \in Gens, Rescue(g) PROVE FALSE
      BY <3>0, <3>5 DEF Rescue
    <3>6. ASSUME NEW r \in Receivers, NEW s \in Receipts, ReceiptRead(r, s) PROVE FALSE
      BY <3>0, <3>6 DEF ReceiptRead
    <3>7. ASSUME ParkBacklog \/ ReleaseParked \/ Acknowledge \/ Replay PROVE FALSE
      BY <2>0, <3>7 DEF ParkBacklog, ReleaseParked, Acknowledge, Replay, Settled
    <3> QED BY <2>3, <3>1, <3>2, <3>3, <3>4, <3>5, <3>6, <3>7 DEF Next
  <2> QED BY <2>1, <2>2, <2>3
<1> QED BY <1>1, Invariant, PTL DEF Spec, ReopenedOnlyByStaleLoad

\* A receipt decided on the current row never moves it back.
THEOREM FreshReceiptsAdvance == Spec => ForwardUnlessRaced
<1> DEFINE A == \A r \in Receivers :
                  rpc[r] = "loaded" /\ rpc'[r] = "idle" /\ seen[r] = row =>
                    \/ Rank(row'.status) >= Rank(row.status)
                    \/ row'.status = "failed" /\ row.status # "read"
<1>1. IInv /\ [Next]_vars => [A]_vars
  <2> SUFFICES ASSUME IInv, Next, NEW r \in Receivers,
                      rpc[r] = "loaded", rpc'[r] = "idle", seen[r] = row
               PROVE  \/ Rank(row'.status) >= Rank(row.status)
                      \/ row'.status = "failed" /\ row.status # "read"
    OBVIOUS
  <2>0. row \in Row /\ rpc \in [Receivers -> {"idle", "loaded"}]
    BY DEF IInv, TypeOK
  <2>1. ReceiptWrite(r)
    <3>0. rpc' # rpc
      OBVIOUS
    <3>1. ASSUME NEW w \in Workers, NEW g \in Gens, Start(w, g) PROVE FALSE
      BY <3>0, <3>1 DEF Start, webhooks
    <3>2. ASSUME NEW w \in Workers, Snooze(w) \/ Park(w) \/ Load(w) PROVE FALSE
      BY <3>0, <3>2 DEF Snooze, Park, Load, webhooks
    <3>3. ASSUME NEW w \in Workers, NEW o \in Outcomes, Attempt(w, o) PROVE FALSE
      BY <3>0, <3>3 DEF Attempt, webhooks
    <3>4. ASSUME NEW w \in Workers, Record(w) \/ Finish(w) \/ Crash(w) PROVE FALSE
      BY <3>0, <3>4 DEF Record, Finish, Crash, webhooks
    <3>5. ASSUME NEW g \in Gens, Rescue(g) PROVE FALSE
      BY <3>0, <3>5 DEF Rescue, webhooks
    <3>6. ASSUME ParkBacklog \/ ReleaseParked \/ Acknowledge \/ Replay PROVE FALSE
      BY <3>0, <3>6 DEF ParkBacklog, ReleaseParked, Acknowledge, Replay, webhooks
    <3>7. ASSUME NEW q \in Receivers, NEW s \in Receipts, ReceiptRead(q, s) PROVE FALSE
      BY <2>0, <3>7 DEF ReceiptRead
    <3>8. ASSUME NEW q \in Receivers, ReceiptWrite(q) PROVE q = r
      BY <2>0, <3>8 DEF ReceiptWrite
    <3> QED BY <3>1, <3>2, <3>3, <3>4, <3>5, <3>6, <3>7, <3>8 DEF Next
  <2>2. \A s : Rank(s) \in Int
    BY DEF Rank
  <2>3. CASE Advances(row, update[r])
    <3>1. row'.status = update[r] \/ row'.status = row.status
      BY <2>0, <2>1, <2>3 DEF ReceiptWrite, Changed, Row
    <3>2. \/ update[r] = "failed" /\ row.status # "read"
          \/ Rank(update[r]) > Rank(row.status)
      BY <2>3 DEF Advances
    <3>3. Rank(update[r]) \in Int /\ Rank(row.status) \in Int
      BY <2>2
    <3> QED BY <3>1, <3>2, <3>3
  <2>4. CASE ~Advances(row, update[r])
    BY <2>1, <2>2, <2>4 DEF ReceiptWrite
  <2> QED BY <2>3, <2>4
<1> QED BY <1>1, Invariant, PTL DEF Spec, ForwardUnlessRaced
=============================================================================
