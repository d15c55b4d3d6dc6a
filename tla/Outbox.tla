--------------------------------- MODULE Outbox ---------------------------------
(***************************************************************************)
(* The outbox of one http_pull channel: Converger.Channels.Outbox and the  *)
(* outbox functions of Converger.Deliveries, with the delivery jobs that   *)
(* fill the outbox and the one consumer that polls it.                     *)
(*                                                                         *)
(* A delivery is named by its position (inserted_at, id), here a number:   *)
(* rows commit in any order of their positions.  A watermark is a          *)
(* position, 0 the absent one.  The consumer sends back the watermark of   *)
(* the last page it received; a request it no longer waits for may still   *)
(* be running on the server.                                               *)
(***************************************************************************)
EXTENDS Integers, FiniteSets

CONSTANTS
  Positions,    \* the deliveries of the channel
  Requests,     \* HTTP requests the server may be running
  None,         \* the consumer waits for no answer
  Limit,        \* page size
  MaxTimeouts,  \* bound: answers the consumer gives up on
  MaxCrashes    \* bound: delivery jobs that die and are rescued

ASSUME OutboxAssumption ==
  /\ Positions \subseteq Nat \ {0} /\ IsFiniteSet(Positions)
  /\ None \notin Requests
  /\ Limit \in Nat \ {0} /\ MaxTimeouts \in Nat /\ MaxCrashes \in Nat

VARIABLES
  row,        \* deliveries.status, "none" before the row exists
  handedOff,  \* deliveries with attempts > 0
  served,     \* deliveries whose metadata has outbox_served_at
  job,        \* the delivery job: "waiting", "loaded", "handed off" or "completed"
  loaded,     \* deliveries whose job loaded the row already served
  pc,         \* where each request is
  page,       \* the deliveries it will answer with
  fresh,      \* those of them it loaded unserved
  waiting,    \* the request whose answer the consumer waits for
  mark,       \* the consumer's watermark
  seen,       \* deliveries in the answers the consumer received
  missed,     \* deliveries in the answers it did not receive
  timeouts, crashes

jobs     == <<handedOff, job, loaded, crashes>>
consumer == <<waiting, mark, seen, missed, timeouts>>
requests == <<pc, page, fresh>>
vars == <<row, handedOff, served, job, loaded, pc, page, fresh,
          waiting, mark, seen, missed, timeouts, crashes>>

Init ==
  /\ row = [d \in Positions |-> "none"] /\ handedOff = {} /\ served = {}
  /\ job = [d \in Positions |-> "waiting"] /\ loaded = {}
  /\ pc = [r \in Requests |-> "idle"]
  /\ page = [r \in Requests |-> {}] /\ fresh = [r \in Requests |-> {}]
  /\ waiting = None /\ mark = 0 /\ seen = {} /\ missed = {}
  /\ timeouts = 0 /\ crashes = 0

-----------------------------------------------------------------------------
(* The delivery job of one activity *)

\* Pipeline.deliver/2 gets or creates the row; a sent one is left alone.
Load(d) ==
  /\ job[d] = "waiting"
  /\ IF row[d] = "sent"
       THEN job' = [job EXCEPT ![d] = "completed"] /\ UNCHANGED <<row, loaded>>
       ELSE /\ job' = [job EXCEPT ![d] = "loaded"]
            /\ row' = [row EXCEPT ![d] = "pending"]
            /\ loaded' = IF d \in served THEN loaded \union {d} ELSE loaded \ {d}
  /\ UNCHANGED <<handedOff, served, crashes, requests, consumer>>

\* HttpPull.deliver_activity/2 and mark_handed_off/2: the loaded status was
\* pending, so the UPDATE does not write it; metadata is written whole, from
\* the map that was loaded.
HandOff(d) ==
  /\ job[d] = "loaded"
  /\ handedOff' = handedOff \union {d}
  /\ served' = IF d \in loaded THEN served \union {d} ELSE served \ {d}
  /\ job' = [job EXCEPT ![d] = "handed off"]
  /\ UNCHANGED <<row, loaded, crashes, requests, consumer>>

\* perform/1 returned :ok and Oban completes the job.
Complete(d) ==
  /\ job[d] = "handed off"
  /\ job' = [job EXCEPT ![d] = "completed"]
  /\ UNCHANGED <<row, handedOff, served, loaded, crashes, requests, consumer>>

\* A job dies before or after its hand-off; Oban's Lifeline makes it available
\* again.
Crash(d) ==
  /\ crashes < MaxCrashes /\ job[d] \in {"loaded", "handed off"}
  /\ crashes' = crashes + 1
  /\ job' = [job EXCEPT ![d] = "waiting"]
  /\ UNCHANGED <<row, handedOff, served, loaded, requests, consumer>>

-----------------------------------------------------------------------------
(* The API *)

\* Seeded fault: everything up to the watermark is acknowledged.
AcknowledgedUnserved(w) == {d \in handedOff : row[d] = "pending" /\ d <= w}

\* acknowledge_outbox/2: what one UPDATE marks sent.
Acknowledged(w) == {d \in handedOff \intersect served : row[d] = "pending" /\ d <= w}

Acknowledge(w) ==
  row' = [d \in Positions |-> IF d \in Acknowledged(w) THEN "sent" ELSE row[d]]

Waiting == {d \in handedOff : row[d] = "pending"}

\* Seeded fault: the listing starts after the consumer's watermark.
PageAfterMark ==
  {d \in Waiting : d > mark /\ Cardinality({e \in Waiting : mark < e /\ e < d}) < Limit}

\* outbox_page/2: the oldest Limit deliveries of the outbox.
Page == {d \in Waiting : Cardinality({e \in Waiting : e < d}) < Limit}

\* Outbox.poll/3: the watermark is acknowledged first.
Poll(r) ==
  /\ pc[r] = "idle" /\ waiting = None
  /\ Acknowledge(mark)
  /\ pc' = [pc EXCEPT ![r] = "acknowledged"]
  /\ waiting' = r
  /\ UNCHANGED <<served, jobs, page, fresh, mark, seen, missed, timeouts>>

\* outbox_page/2, the SELECT.
Select(r) ==
  /\ pc[r] = "acknowledged"
  /\ page' = [page EXCEPT ![r] = Page]
  /\ fresh' = [fresh EXCEPT ![r] = Page \ served]
  /\ pc' = [pc EXCEPT ![r] = "selected"]
  /\ UNCHANGED <<row, served, jobs, consumer>>

\* outbox_page/2, the UPDATE of the deliveries selected unserved.
Serve(r) ==
  /\ pc[r] = "selected"
  /\ served' = served \union fresh[r]
  /\ pc' = [pc EXCEPT ![r] = "served"]
  /\ UNCHANGED <<row, jobs, page, fresh, consumer>>

\* The watermark of a page: that of its last item, or the one that was sent.
Watermark(S, w) == \/ S = {} /\ w = mark
                   \/ w \in S /\ \A e \in S : e <= w

\* The answer arrives, or nobody waits for it any more.
Answer(r) ==
  /\ pc[r] = "served"
  /\ IF waiting = r
       THEN /\ seen' = seen \union page[r]
            /\ \E w \in Positions \union {0} : Watermark(page[r], w) /\ mark' = w
            /\ waiting' = None
            /\ UNCHANGED missed
       ELSE /\ missed' = missed \union page[r]
            /\ UNCHANGED <<seen, mark, waiting>>
  /\ pc' = [pc EXCEPT ![r] = "idle"]
  /\ page' = [page EXCEPT ![r] = {}]
  /\ fresh' = [fresh EXCEPT ![r] = {}]
  /\ UNCHANGED <<row, served, jobs, timeouts>>

\* The consumer gives up on the answer.
Timeout ==
  /\ waiting # None /\ timeouts < MaxTimeouts
  /\ waiting' = None /\ timeouts' = timeouts + 1
  /\ UNCHANGED <<row, served, jobs, requests, mark, seen, missed>>

\* POST .../outbox/ack: acknowledges without polling.
AckOnly ==
  /\ waiting = None /\ mark # 0 /\ Acknowledged(mark) # {}
  /\ Acknowledge(mark)
  /\ UNCHANGED <<served, jobs, requests, consumer>>

Next ==
  \/ \E d \in Positions : Load(d) \/ HandOff(d) \/ Complete(d) \/ Crash(d)
  \/ \E r \in Requests : Poll(r) \/ Select(r) \/ Serve(r) \/ Answer(r)
  \/ Timeout
  \/ AckOnly

Spec == Init /\ [][Next]_vars

\* Oban runs every job, a request runs to its end, and the consumer keeps
\* polling.
FairSpec ==
  /\ Spec
  /\ \A d \in Positions : WF_vars(Load(d)) /\ WF_vars(HandOff(d))
  /\ \A r \in Requests : WF_vars(Select(r)) /\ WF_vars(Serve(r)) /\ WF_vars(Answer(r))
  /\ WF_vars(\E r \in Requests : Poll(r))

-----------------------------------------------------------------------------
(* Properties *)

\* Every variable has its type, and only the request the consumer waits for,
\* or one it gave up on, is running.
TypeOK ==
  /\ row \in [Positions -> {"none", "pending", "sent"}]
  /\ handedOff \subseteq Positions /\ served \subseteq Positions /\ loaded \subseteq Positions
  /\ job \in [Positions -> {"waiting", "loaded", "handed off", "completed"}]
  /\ pc \in [Requests -> {"idle", "acknowledged", "selected", "served"}]
  /\ page \in [Requests -> SUBSET Positions] /\ fresh \in [Requests -> SUBSET Positions]
  /\ waiting \in Requests \union {None}
  /\ waiting # None => pc[waiting] # "idle"
  /\ mark \in Positions \union {0}
  /\ seen \subseteq Positions /\ missed \subseteq Positions
  /\ timeouts \in Nat /\ crashes \in Nat

\* What the code guarantees: acknowledge_outbox/2 marks sent only deliveries
\* some answer carried, and one the consumer has not seen was in an answer it
\* gave up on (received by nobody, or still on its way).
AcknowledgedWasAnswered ==
  \A d \in Positions :
    row[d] = "sent" =>
      \/ d \in seen \union missed
      \/ \E r \in Requests : pc[r] = "served" /\ waiting # r /\ d \in page[r]

\* A delivery acknowledged as sent stays sent: mark_handed_off/2 of a rescued
\* job that loaded the row before the acknowledgement does not reopen it.
SentIsFinal == [][\A d \in Positions : row[d] = "sent" => row'[d] = "sent"]_vars

\* The watermark comes back in order: each poll's page holds the oldest
\* unacknowledged deliveries, so every hand-off is served and acknowledged in
\* the end, whatever the order in which rows committed.
Drained == \A d \in Positions : d \in handedOff ~> row[d] = "sent"
=============================================================================
