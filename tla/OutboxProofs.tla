------------------------------ MODULE OutboxProofs ------------------------------
(***************************************************************************)
(* Proofs about the pull outbox, for any deliveries, page size, requests   *)
(* in flight, timeouts and crashes.                                        *)
(*                                                                         *)
(* AcknowledgedWasAnswered is not inductive: an acknowledgement relies on  *)
(* outbox_served_at, so the invariant also says that whatever is marked    *)
(* served, or was so when a job loaded it, is in an answer that is         *)
(* complete (EverAnswered).                                                *)
(***************************************************************************)
EXTENDS Outbox, TLAPS

\* d is in an answer the consumer received, in one it did not, or in one that
\* is about to leave the server.
EverAnswered(d) ==
  \/ d \in seen \union missed
  \/ \E r \in Requests : pc[r] = "served" /\ d \in page[r]

\* outbox_served_at, in the row or in a job's copy of it, tells the truth.
ServedWasAnswered == \A d \in served \union loaded : EverAnswered(d)

\* The UPDATE of outbox_page/2 marks deliveries of its own page.
FreshInPage == \A r \in Requests : fresh[r] \subseteq page[r]

IInv ==
  /\ TypeOK
  /\ FreshInPage
  /\ ServedWasAnswered
  /\ AcknowledgedWasAnswered

\* The states of the first moment satisfy the invariant.
LEMMA InitIInv == Init => IInv
BY OutboxAssumption
   DEF Init, IInv, TypeOK, FreshInPage, ServedWasAnswered, EverAnswered, AcknowledgedWasAnswered

\* The steps of the delivery jobs: a rescued job can restore an
\* outbox_served_at it loaded, never invent one.
LEMMA JobSteps ==
  ASSUME TypeOK, FreshInPage, ServedWasAnswered, AcknowledgedWasAnswered,
         NEW d \in Positions, Load(d) \/ HandOff(d) \/ Complete(d) \/ Crash(d)
  PROVE  TypeOK' /\ FreshInPage' /\ ServedWasAnswered' /\ AcknowledgedWasAnswered'
<1>1. CASE Load(d)
  <2>1. CASE row[d] = "sent"
    <3>1. TypeOK' /\ FreshInPage'
      BY <1>1, <2>1 DEF Load, TypeOK, FreshInPage, requests, consumer
    <3>2. ServedWasAnswered' /\ AcknowledgedWasAnswered'
      BY <1>1, <2>1 DEF Load, ServedWasAnswered, EverAnswered, AcknowledgedWasAnswered, requests, consumer
    <3> QED BY <3>1, <3>2
  <2>2. CASE row[d] # "sent"
    <3>1. loaded' \subseteq served \union loaded
      BY <1>1, <2>2 DEF Load
    <3>2. TypeOK' /\ FreshInPage'
      BY <1>1, <2>2, <3>1 DEF Load, TypeOK, FreshInPage, requests, consumer
    <3>3. ServedWasAnswered'
      BY <1>1, <2>2, <3>1 DEF Load, ServedWasAnswered, EverAnswered, requests, consumer
    <3>4. AcknowledgedWasAnswered'
      BY <1>1, <2>2 DEF Load, TypeOK, AcknowledgedWasAnswered, requests, consumer
    <3> QED BY <3>2, <3>3, <3>4
  <2> QED BY <2>1, <2>2
<1>2. CASE HandOff(d)
  <2>1. TypeOK'
    BY <1>2, OutboxAssumption DEF HandOff, TypeOK, requests, consumer
  <2>2. FreshInPage'
    BY <1>2 DEF HandOff, TypeOK, FreshInPage, requests, consumer
  <2>3. ServedWasAnswered'
    BY <1>2, OutboxAssumption DEF HandOff, TypeOK, ServedWasAnswered, EverAnswered, requests, consumer
  <2>4. AcknowledgedWasAnswered'
    BY <1>2, OutboxAssumption DEF HandOff, TypeOK, AcknowledgedWasAnswered, requests, consumer
  <2> QED BY <2>1, <2>2, <2>3, <2>4
<1>3. CASE Complete(d)
  <2>1. TypeOK'
    BY <1>3, OutboxAssumption DEF Complete, TypeOK, requests, consumer
  <2>2. FreshInPage'
    BY <1>3 DEF Complete, TypeOK, FreshInPage, requests, consumer
  <2>3. ServedWasAnswered'
    BY <1>3, OutboxAssumption DEF Complete, TypeOK, ServedWasAnswered, EverAnswered, requests, consumer
  <2>4. AcknowledgedWasAnswered'
    BY <1>3, OutboxAssumption DEF Complete, TypeOK, AcknowledgedWasAnswered, requests, consumer
  <2> QED BY <2>1, <2>2, <2>3, <2>4
<1>4. CASE Crash(d)
  <2>1. TypeOK'
    <3>0. crashes \in Nat
      BY DEF TypeOK
    <3>1. crashes' = crashes + 1
      BY <1>4 DEF Crash
    <3>2. job' \in [Positions -> {"waiting", "loaded", "handed off", "completed"}]
      BY <1>4 DEF Crash, TypeOK
    <3>3. UNCHANGED <<row, handedOff, served, loaded, requests, consumer>>
      BY <1>4 DEF Crash
    <3>4. crashes' \in Nat
      BY <3>0, <3>1
    <3> QED BY <3>4, <3>2, <3>3 DEF TypeOK, requests, consumer
  <2>2. FreshInPage'
    BY <1>4 DEF Crash, TypeOK, FreshInPage, requests, consumer
  <2>3. ServedWasAnswered'
    BY <1>4, OutboxAssumption DEF Crash, TypeOK, ServedWasAnswered, EverAnswered, requests, consumer
  <2>4. AcknowledgedWasAnswered'
    BY <1>4, OutboxAssumption DEF Crash, TypeOK, AcknowledgedWasAnswered, requests, consumer
  <2> QED BY <2>1, <2>2, <2>3, <2>4
<1> QED BY <1>1, <1>2, <1>3, <1>4

\* An acknowledgement while the consumer waits for no answer marks only
\* deliveries of answers it has received, or will not receive.
LEMMA AcknowledgeSteps ==
  ASSUME TypeOK, FreshInPage, ServedWasAnswered, AcknowledgedWasAnswered,
         (\E r \in Requests : Poll(r)) \/ AckOnly
  PROVE  TypeOK' /\ FreshInPage' /\ ServedWasAnswered' /\ AcknowledgedWasAnswered'
<1>0. ASSUME Acknowledge(mark)
      PROVE  /\ row' \in [Positions -> {"none", "pending", "sent"}]
             /\ \A d \in Positions :
                  row'[d] = "sent" =>
                    \/ d \in seen \union missed
                    \/ \E q \in Requests : pc[q] = "served" /\ d \in page[q]
  BY <1>0 DEF Acknowledge, Acknowledged, TypeOK, ServedWasAnswered, EverAnswered,
              AcknowledgedWasAnswered
<1>1. ASSUME NEW r \in Requests, Poll(r)
      PROVE  TypeOK' /\ FreshInPage' /\ ServedWasAnswered' /\ AcknowledgedWasAnswered'
  <2>1. TypeOK'
    BY <1>1, <1>0, OutboxAssumption DEF Poll, TypeOK, jobs
  <2>2. FreshInPage'
    BY <1>1 DEF Poll, TypeOK, FreshInPage, jobs
  <2>3. ServedWasAnswered'
    BY <1>1, OutboxAssumption DEF Poll, TypeOK, ServedWasAnswered, EverAnswered, jobs
  <2>4. AcknowledgedWasAnswered'
    BY <1>1, <1>0, OutboxAssumption DEF Poll, TypeOK, AcknowledgedWasAnswered, jobs
  <2> QED BY <2>1, <2>2, <2>3, <2>4
<1>2. CASE AckOnly
  <2>1. TypeOK'
    BY <1>2, <1>0, OutboxAssumption DEF AckOnly, TypeOK, jobs, requests, consumer
  <2>2. FreshInPage'
    BY <1>2 DEF AckOnly, TypeOK, FreshInPage, jobs, requests, consumer
  <2>3. ServedWasAnswered'
    BY <1>2, OutboxAssumption DEF AckOnly, TypeOK, ServedWasAnswered, EverAnswered, jobs, requests, consumer
  <2>4. AcknowledgedWasAnswered'
    BY <1>2, <1>0, OutboxAssumption DEF AckOnly, TypeOK, AcknowledgedWasAnswered, jobs, requests, consumer
  <2> QED BY <2>1, <2>2, <2>3, <2>4
<1> QED BY <1>1, <1>2

\* The rest of a poll, and the consumer giving up on its answer.
LEMMA PollSteps ==
  ASSUME TypeOK, FreshInPage, ServedWasAnswered, AcknowledgedWasAnswered,
         (\E r \in Requests : Select(r) \/ Serve(r) \/ Answer(r)) \/ Timeout
  PROVE  TypeOK' /\ FreshInPage' /\ ServedWasAnswered' /\ AcknowledgedWasAnswered'
<1>0. Page \in SUBSET Positions
  BY DEF Page, Waiting, TypeOK
<1>1. ASSUME NEW r \in Requests, Select(r)
      PROVE  TypeOK' /\ FreshInPage' /\ ServedWasAnswered' /\ AcknowledgedWasAnswered'
  <2>1. TypeOK'
    BY <1>1, <1>0, OutboxAssumption DEF Select, TypeOK, jobs, consumer
  <2>2. FreshInPage'
    BY <1>1 DEF Select, TypeOK, FreshInPage, jobs, consumer
  <2>3. ServedWasAnswered'
    BY <1>1, OutboxAssumption DEF Select, TypeOK, ServedWasAnswered, EverAnswered, jobs, consumer
  <2>4. AcknowledgedWasAnswered'
    BY <1>1, OutboxAssumption DEF Select, TypeOK, AcknowledgedWasAnswered, jobs, consumer
  <2> QED BY <2>1, <2>2, <2>3, <2>4
<1>2. ASSUME NEW r \in Requests, Serve(r)
      PROVE  TypeOK' /\ FreshInPage' /\ ServedWasAnswered' /\ AcknowledgedWasAnswered'
  <2>1. TypeOK'
    BY <1>2, OutboxAssumption DEF Serve, TypeOK, jobs, consumer
  <2>2. FreshInPage'
    BY <1>2 DEF Serve, TypeOK, FreshInPage, jobs, consumer
  <2>3. ServedWasAnswered'
    BY <1>2, OutboxAssumption DEF Serve, TypeOK, FreshInPage, ServedWasAnswered, EverAnswered, jobs, consumer
  <2>4. AcknowledgedWasAnswered'
    BY <1>2, OutboxAssumption DEF Serve, TypeOK, AcknowledgedWasAnswered, jobs, consumer
  <2> QED BY <2>1, <2>2, <2>3, <2>4
<1>3. ASSUME NEW r \in Requests, Answer(r)
      PROVE  TypeOK' /\ FreshInPage' /\ ServedWasAnswered' /\ AcknowledgedWasAnswered'
  <2>1. TypeOK'
    <3>1. /\ row' = row /\ served' = served /\ timeouts' = timeouts /\ jobs' = jobs
          /\ pc' = [pc EXCEPT ![r] = "idle"]
          /\ page' = [page EXCEPT ![r] = {}] /\ fresh' = [fresh EXCEPT ![r] = {}]
      BY <1>3 DEF Answer
    <3>2. page[r] \subseteq Positions
      BY DEF TypeOK
    <3>3. /\ seen' \subseteq Positions /\ missed' \subseteq Positions
          /\ mark' \in Positions \union {0}
          /\ waiting' = None \/ (waiting' = waiting /\ waiting # r)
      BY <1>3, <3>2 DEF Answer, TypeOK
    <3>4. /\ pc' \in [Requests -> {"idle", "acknowledged", "selected", "served"}]
          /\ page' \in [Requests -> SUBSET Positions]
          /\ fresh' \in [Requests -> SUBSET Positions]
      BY <3>1 DEF TypeOK
    <3>5. waiting' \in Requests \union {None} /\ (waiting' # None => pc'[waiting'] # "idle")
      BY <3>1, <3>3 DEF TypeOK
    <3> QED BY <3>1, <3>3, <3>4, <3>5 DEF TypeOK, jobs
  <2>2. FreshInPage'
    BY <1>3 DEF Answer, TypeOK, FreshInPage, jobs
  <2>3. /\ row' = row /\ served' = served /\ loaded' = loaded
        /\ \A q \in Requests : q # r => pc'[q] = pc[q] /\ page'[q] = page[q]
    BY <1>3 DEF Answer, TypeOK, jobs
  <2>4. \A d : d \in seen \union missed \/ d \in page[r] => d \in seen' \union missed'
    BY <1>3 DEF Answer
  <2>5. waiting' # None => waiting' = waiting
    BY <1>3 DEF Answer
  <2>6. ServedWasAnswered'
    BY <2>3, <2>4 DEF ServedWasAnswered, EverAnswered
  <2>7. AcknowledgedWasAnswered'
    BY <2>3, <2>4, <2>5, OutboxAssumption DEF AcknowledgedWasAnswered
  <2> QED BY <2>1, <2>2, <2>6, <2>7
<1>4. CASE Timeout
  <2>1. TypeOK'
    <3>0. timeouts \in Nat
      BY DEF TypeOK
    <3>1. timeouts' \in Nat /\ waiting' = None
      BY <1>4, <3>0 DEF Timeout
    <3>2. UNCHANGED <<row, served, jobs, requests, mark, seen, missed>>
      BY <1>4 DEF Timeout
    <3> QED BY <3>1, <3>2 DEF TypeOK, jobs, requests
  <2>2. FreshInPage'
    BY <1>4 DEF Timeout, TypeOK, FreshInPage, jobs, requests
  <2>3. ServedWasAnswered'
    BY <1>4, OutboxAssumption DEF Timeout, TypeOK, ServedWasAnswered, EverAnswered, jobs, requests
  <2>4. AcknowledgedWasAnswered'
    BY <1>4, OutboxAssumption DEF Timeout, TypeOK, AcknowledgedWasAnswered, jobs, requests
  <2> QED BY <2>1, <2>2, <2>3, <2>4
<1> QED BY <1>1, <1>2, <1>3, <1>4

\* The inductive invariant holds in every reachable state.
THEOREM Invariant == Spec => []IInv
<1>1. IInv /\ [Next]_vars => IInv'
  <2> SUFFICES ASSUME IInv, [Next]_vars PROVE IInv'
    OBVIOUS
  <2>1. CASE \E d \in Positions : Load(d) \/ HandOff(d) \/ Complete(d) \/ Crash(d)
    BY <2>1, JobSteps DEF IInv
  <2>2. CASE \E r \in Requests : Poll(r)
    BY <2>2, AcknowledgeSteps DEF IInv
  <2>3. CASE \E r \in Requests : Select(r) \/ Serve(r) \/ Answer(r)
    BY <2>3, PollSteps DEF IInv
  <2>4. CASE Timeout
    BY <2>4, PollSteps DEF IInv
  <2>5. CASE AckOnly
    BY <2>5, AcknowledgeSteps DEF IInv
  <2>6. CASE UNCHANGED vars
    BY <2>6 DEF vars, IInv, TypeOK, FreshInPage, ServedWasAnswered, EverAnswered,
                AcknowledgedWasAnswered
  <2> QED BY <2>1, <2>2, <2>3, <2>4, <2>5, <2>6 DEF Next
<1> QED BY InitIInv, <1>1, PTL DEF Spec

\* acknowledge_outbox/2 marks sent only deliveries that some answer of
\* Outbox.poll/3 carried, and one the consumer has not seen was in an answer
\* it gave up on.
THEOREM OnlyAnsweredAcknowledged == Spec => []AcknowledgedWasAnswered
BY Invariant, PTL DEF IInv

\* A delivery acknowledged as sent never returns to the outbox: no step, a
\* rescued job's hand-off included, takes its status back.
THEOREM SentStaysSent == Spec => SentIsFinal
<1>1. IInv /\ [Next]_vars => [\A d \in Positions : row[d] = "sent" => row'[d] = "sent"]_vars
  <2> SUFFICES ASSUME IInv, Next, NEW d \in Positions, row[d] = "sent"
               PROVE  row'[d] = "sent"
    OBVIOUS
  <2>1. ASSUME NEW c \in Positions, Load(c) \/ HandOff(c) \/ Complete(c) \/ Crash(c)
        PROVE  row'[d] = "sent"
    BY <2>1 DEF Load, HandOff, Complete, Crash, IInv, TypeOK
  <2>2. ASSUME NEW r \in Requests, Poll(r) \/ Select(r) \/ Serve(r) \/ Answer(r)
        PROVE  row'[d] = "sent"
    BY <2>2 DEF Poll, Select, Serve, Answer, Acknowledge, IInv, TypeOK
  <2>3. CASE Timeout \/ AckOnly
    BY <2>3 DEF Timeout, AckOnly, Acknowledge, IInv, TypeOK
  <2> QED BY <2>1, <2>2, <2>3 DEF Next
<1> QED BY Invariant, <1>1, PTL DEF Spec, SentIsFinal
=============================================================================
