----------------------------- MODULE AgentSends -----------------------------
(***************************************************************************)
(* The outgoing side of the agent SDK (agent-ts/src/agent.ts): the queue,  *)
(* the in-flight window, acks, errors, retries and deadlines, over the     *)
(* connection with its reconnects and stop().  The peer is the endpoint as *)
(* the SDK's FakeConvergerServer plays it.                                 *)
(***************************************************************************)
EXTENDS Integers, Sequences, SequencesExt, FiniteSets

CONSTANTS
    MaxInFlight,      \* options.maxInFlight
    MaxSendAttempts,  \* MAX_SEND_ATTEMPTS
    MaxAttempts,      \* reconnect.maxAttempts
    MaxFaults         \* drops, refusals, lost acks and ack timeouts in a behaviour

ASSUME SendsAssumption ==
    MaxInFlight \in Nat \ {0} /\ MaxSendAttempts \in Nat /\ MaxAttempts \in Nat /\ MaxFaults \in Nat

VARIABLES
    running, stopped,
    ticking,      \* #tickTimer
    link,         \* "idle", "none", "token", "dialing", "open", "closing", "waiting"
    attempt, everConnected, rejected,
    queue,        \* #queue
    inflight,     \* #inflight, in the order of sentAt
    retrying,     \* entries in a timer of #onSendError
    attempts,     \* per frame
    outcome,      \* per frame sent: "pending", "resolved", "rejected"
    pumpT, paused,
    wire, back,   \* frames on their way to the server and to the agent
    received,     \* what the server got and kept, first copies only
    faults,
    order,        \* the messages in the order they were sent
    reordered,    \* an error or an ack timeout sent a message back to the queue
    abandoned,    \* sends nothing will settle
    dropped       \* a connection was lost

conn  == <<running, stopped, ticking, link, attempt, everConnected, rejected>>
sends == <<queue, inflight, retrying, attempts, outcome, pumpT, paused, order>>
net   == <<wire, back, received, faults>>
marks == <<reordered, abandoned, dropped>>
agent == <<conn, sends, net, marks>>

Message(f)   == f.type \in {"text", "streamText"}    \* not in UNACKED_TYPES
Transient(f) == f.type \in {"run", "typing"}
Connected    == link \in {"open", "closing"}

\* The codes of section 12.2 that may be retried, and those #onSendError retries.
RETRYABLE == {"token_expired", "rate_limited", "too_many_in_flight", "slow_consumer", "busy",
              "bot_unavailable", "internal", "unavailable", "replay_unavailable"}
RESEND_CODES == {"rate_limited", "too_many_in_flight", "unavailable", "internal"}

Pending      == {f \in DOMAIN outcome : outcome[f] = "pending"}

\* A function with the frames of S mapped to v.
With(fn, S, v) == [f \in DOMAIN fn \cup S |-> IF f \in S THEN v ELSE fn[f]]

\* How many frames of q #pump may write before a message meets a full window.
Room(q, fl) ==
    CHOOSE k \in 0..Len(q) :
        LET fits(j) == Message(q[j]) =>
                Len(SelectSeq(SubSeq(q, 1, j), Message)) + Len(fl) <= MaxInFlight
        IN  /\ \A j \in 1..k : fits(j)
            /\ k < Len(q) => ~fits(k + 1)

\* The loop of #pump writes k frames of q, for a k the token bucket allows; when
\* it stops short the timer is armed.
Write(ks, q, fl, o, a) ==
    \E k \in ks :
        LET out == SubSeq(q, 1, k) IN
        /\ queue' = SubSeq(q, k + 1, Len(q))
        /\ inflight' = fl \o SelectSeq(out, Message)
        /\ outcome' = With(o, {f \in Range(out) : ~Message(f)}, "resolved")
        /\ attempts' = [f \in DOMAIN a |-> IF f \in Range(out) /\ a[f] < MaxSendAttempts
                                           THEN a[f] + 1 ELSE a[f]]
        /\ wire' = wire \o out
        /\ pumpT' = (k < Room(q, fl))

\* #pump with a queue q, a window fl, outcomes o and attempts a: nothing while its
\* timer runs, the agent is not connected or the socket is closing.
Pump(up, q, fl, o, a) ==
    IF pumpT \/ up # "open" \/ paused
    THEN /\ queue' = q /\ inflight' = fl /\ outcome' = o /\ attempts' = a
         /\ pumpT' = (pumpT \/ (up = "open" /\ paused))
         /\ UNCHANGED wire
    ELSE Write(0..Room(q, fl), q, fl, o, a)

\* #enqueue.
Enqueue(f) ==
    IF ~running \/ (Transient(f) /\ ~Connected)
    THEN /\ outcome' = With(outcome, {f}, IF running THEN "resolved" ELSE "rejected")
         /\ UNCHANGED <<queue, inflight, attempts, pumpT, wire, order>>
    ELSE /\ Pump(link, Append(queue, f), inflight, With(outcome, {f}, "pending"),
                 With(attempts, {f}, 0))
         /\ order' = IF Message(f) THEN Append(order, f) ELSE order

-----------------------------------------------------------------------------
\* The connection.

Start ==
    /\ link = "idle"
    /\ running' = TRUE /\ ticking' = TRUE /\ link' = "token" /\ attempt' = 1
    /\ UNCHANGED <<stopped, everConnected, rejected, sends, net, marks>>

\* #scheduleReconnect: gives up, or arms the timer.
ScheduleReconnect ==
    IF attempt >= MaxAttempts
    THEN running' = FALSE /\ link' = "none"
    ELSE link' = "waiting" /\ UNCHANGED running

ReconnectDue ==
    /\ link = "waiting" /\ running
    /\ link' = "token" /\ attempt' = attempt + 1
    /\ UNCHANGED <<running, stopped, ticking, everConnected, rejected, sends, net, marks>>

\* Why generateChannelToken failed: the status of tokens/generate, 0 without an answer.
TokenFailures == {0, 401, 429, 503}
TokenRetryable(status) == status \in {0, 429} \/ status >= 500

\* getToken answered; fails; fails for good before the first welcome, which stops
\* the agent and its tick and settles no send.
TokenOk ==
    /\ link = "token" /\ running
    /\ link' = "dialing"
    /\ UNCHANGED <<running, stopped, ticking, attempt, everConnected, rejected, sends, net,
                   marks>>

TokenFails ==
    /\ link = "token" /\ running
    /\ \E status \in TokenFailures :
          IF ~TokenRetryable(status) /\ ~everConnected
          THEN /\ running' = FALSE /\ ticking' = FALSE /\ link' = "none"
               /\ abandoned' = abandoned \cup Range(queue)
          ELSE ScheduleReconnect /\ UNCHANGED <<ticking, abandoned>>
    /\ UNCHANGED <<stopped, attempt, everConnected, rejected, sends, net, reordered, dropped>>

\* Seeded fault: they go out last.
ResendLast == queue \o inflight

\* What #onWelcome queues: the unacknowledged sends first.
Resend == inflight \o queue

\* Seeded fault: #inflight keeps what is sent again.
WelcomeKeepsInFlight ==
    /\ link = "dialing"
    /\ link' = "open" /\ attempt' = 0 /\ everConnected' = TRUE /\ rejected' = FALSE
    /\ Pump("open", Resend, inflight, outcome, attempts)
    /\ UNCHANGED <<running, stopped, ticking, retrying, paused, back, received, faults, order,
                   marks>>

\* #onWelcome: what was not acknowledged goes out again, first, in its order.
Welcome ==
    /\ link = "dialing"
    /\ link' = "open" /\ attempt' = 0 /\ everConnected' = TRUE /\ rejected' = FALSE
    /\ Pump("open", Resend, <<>>, outcome, attempts)
    /\ UNCHANGED <<running, stopped, ticking, retrying, paused, back, received, faults, order,
                   marks>>

\* The socket leaves the open state before its close event.
Closing ==
    /\ link = "open" /\ faults < MaxFaults
    /\ link' = "closing" /\ faults' = faults + 1
    /\ wire' = <<>> /\ back' = <<>> /\ dropped' = TRUE
    /\ UNCHANGED <<running, stopped, ticking, attempt, everConnected, rejected, sends, received,
                   reordered, abandoned>>

\* #onClose: transient frames are dropped; a fatal code rejects what is left.
Fatal(code) ==
    \/ code = 4400
    \/ code = 4401 /\ rejected
    \/ code \in {4403, 1008} /\ ~everConnected

OnClose(code) ==
    LET kept == SelectSeq(queue, LAMBDA f : ~Transient(f))
        o    == With(outcome, {f \in Range(queue) : Transient(f)}, "resolved")
    IN  IF Fatal(code)
        THEN /\ running' = FALSE /\ ticking' = FALSE /\ link' = "none"
             /\ outcome' = With(o, Range(kept) \cup Range(inflight), "rejected")
             /\ queue' = <<>> /\ inflight' = <<>>
             /\ UNCHANGED rejected
        ELSE /\ rejected' = (rejected \/ code = 4401)
             /\ ScheduleReconnect
             /\ outcome' = o /\ queue' = kept
             /\ UNCHANGED <<ticking, inflight>>

Closed ==
    /\ link \in {"dialing", "closing"} /\ running
    /\ \E code \in {1006, 4401, 4403} : OnClose(code)
    /\ UNCHANGED <<stopped, attempt, everConnected, retrying, attempts, pumpT, paused, order,
                   net, marks>>

\* Seeded fault: only the queue is rejected.
StopForgetsInFlight ==
    /\ link # "idle" /\ ~stopped
    /\ stopped' = TRUE /\ running' = FALSE /\ ticking' = FALSE /\ link' = "none" /\ pumpT' = FALSE
    /\ outcome' = With(outcome, Range(queue), "rejected")
    /\ queue' = <<>> /\ inflight' = <<>> /\ wire' = <<>> /\ back' = <<>>
    /\ UNCHANGED <<attempt, everConnected, rejected, retrying, attempts, paused,
                   order, received, faults, marks>>

\* stop() once the handlers returned and the queue is drained, or its timeouts
\* passed: any state of the sends may be the one it closes in.
Stop ==
    /\ link # "idle" /\ ~stopped
    /\ stopped' = TRUE /\ running' = FALSE /\ ticking' = FALSE /\ link' = "none" /\ pumpT' = FALSE
    /\ outcome' = With(outcome, Range(queue) \cup Range(inflight), "rejected")
    /\ queue' = <<>> /\ inflight' = <<>> /\ wire' = <<>> /\ back' = <<>>
    /\ UNCHANGED <<attempt, everConnected, rejected, retrying, attempts, paused,
                   order, received, faults, marks>>

-----------------------------------------------------------------------------
\* The server.

Ack(f)     == [t |-> "ack", f |-> f]
Limited(f) == [t |-> "rate_limited", f |-> f]
Error(f, code) == [t |-> "error", f |-> f, code |-> code]

\* An error frame that leaves out `retryable`, as AgentError.fromFrame reads it.
Retryable(e) == e.code \in RETRYABLE

\* Not retryable; retryable, but not sent again; sent again.
SendErrors == {"invalid_message", "busy", "unavailable"}

Store(f) == IF f \in Range(received) THEN received ELSE Append(received, f)

\* Every frame is taken; a message is stored once and acknowledged, or its ack is
\* lost, or it draws an error.  rate_limited names no frame.
ServerTakes ==
    /\ link = "open" /\ wire # <<>>
    /\ LET f == Head(wire) IN
       \/ /\ received' = Store(f)
          /\ back' = IF Message(f) THEN Append(back, Ack(f)) ELSE back
          /\ UNCHANGED faults
       \/ /\ Message(f) /\ faults < MaxFaults /\ faults' = faults + 1
          /\ \/ received' = Store(f) /\ UNCHANGED back
             \/ /\ UNCHANGED received
                /\ \E e \in {Limited(f)} \cup {Error(f, code) : code \in SendErrors} :
                       back' = Append(back, e)
    /\ wire' = Tail(wire)
    /\ UNCHANGED <<conn, sends, marks>>

-----------------------------------------------------------------------------
\* The agent's handlers and timers.

Comes(type) ==
    /\ link = "open" /\ back # <<>> /\ Head(back).t = type
    /\ back' = Tail(back)
    /\ UNCHANGED <<conn, received, faults, order, dropped>>

\* An ack of a send that went back to the queue finds nothing in #inflight.
OnAck ==
    /\ Comes("ack")
    /\ LET f == Head(back).f IN
       IF f \in Range(inflight)
       THEN Pump(link, queue, Remove(inflight, f), With(outcome, {f}, "resolved"), attempts)
       ELSE UNCHANGED <<queue, inflight, outcome, attempts, pumpT, wire>>
    /\ UNCHANGED <<retrying, paused, reordered, abandoned>>

\* #onSendError.
OnSendError ==
    /\ Comes("error")
    /\ LET f == Head(back).f
           again == Retryable(Head(back)) /\ Head(back).code \in RESEND_CODES
       IN
       IF f \notin Range(inflight)
       THEN UNCHANGED <<queue, inflight, outcome, attempts, pumpT, wire, retrying, reordered>>
       ELSE IF again /\ attempts[f] < MaxSendAttempts
       THEN /\ retrying' = retrying \cup {f} /\ reordered' = TRUE
            /\ Pump(link, queue, Remove(inflight, f), outcome, attempts)
       ELSE /\ Pump(link, queue, Remove(inflight, f), With(outcome, {f}, "rejected"), attempts)
            /\ UNCHANGED <<retrying, reordered>>
    /\ UNCHANGED <<paused, abandoned>>

\* A bare rate_limited: the agent pauses, and the ack timeout sends it again.
OnRateLimited ==
    /\ Comes("rate_limited")
    /\ paused' = TRUE
    /\ UNCHANGED <<queue, inflight, outcome, attempts, pumpT, wire, retrying, reordered,
                   abandoned>>

RetryDue(f) ==
    /\ f \in retrying
    /\ retrying' = retrying \ {f}
    /\ IF running
       THEN Pump(link, <<f>> \o queue, inflight, outcome, attempts) /\ UNCHANGED abandoned
       ELSE abandoned' = abandoned \cup {f}
            /\ UNCHANGED <<queue, inflight, outcome, attempts, pumpT, wire>>
    /\ UNCHANGED <<conn, paused, order, back, received, faults, reordered, dropped>>

PumpDue ==
    /\ pumpT /\ ~paused
    /\ IF link = "open" /\ Room(queue, inflight) > 0
       THEN Write(1..Room(queue, inflight), queue, inflight, outcome, attempts)
       ELSE pumpT' = FALSE /\ UNCHANGED <<queue, inflight, outcome, attempts, wire>>
    /\ UNCHANGED <<conn, retrying, paused, order, back, received, faults, marks>>

PauseOver ==
    /\ paused /\ paused' = FALSE
    /\ UNCHANGED <<conn, queue, inflight, retrying, attempts, outcome, pumpT, order, net, marks>>

\* Seeded fault: a send in flight has no deadline.
ExpiredQueued == Range(queue)

\* What a deadline may strike.
Expired == Range(queue) \cup Range(inflight)

\* #tick: past the deadline a send is rejected; past the ack timeout the n oldest
\* in flight are queued again, one before the other.
Tick(late, n) ==
    /\ ticking /\ n \in 0..(IF Connected THEN Len(inflight) ELSE 0)
    /\ n > 0 => faults < MaxFaults
    /\ faults' = IF n > 0 THEN faults + 1 ELSE faults
    /\ reordered' = (reordered \/ n > 0)
    /\ IF late
       THEN Pump(link, <<>>, <<>>,
                 With(outcome, Expired, "rejected"), attempts)
       ELSE Pump(link, Reverse(SubSeq(inflight, 1, n)) \o queue,
                 SubSeq(inflight, n + 1, Len(inflight)), outcome, attempts)
    /\ UNCHANGED <<conn, retrying, paused, order, back, received, abandoned, dropped>>

AgentInit ==
    /\ running = FALSE /\ stopped = FALSE /\ ticking = FALSE /\ link = "idle" /\ attempt = 0
    /\ everConnected = FALSE /\ rejected = FALSE
    /\ queue = <<>> /\ inflight = <<>> /\ retrying = {} /\ attempts = <<>> /\ outcome = <<>>
    /\ pumpT = FALSE /\ paused = FALSE /\ order = <<>>
    /\ wire = <<>> /\ back = <<>> /\ received = <<>> /\ faults = 0
    /\ reordered = FALSE /\ abandoned = {} /\ dropped = FALSE

AgentNext ==
    \/ Start \/ ReconnectDue \/ TokenOk \/ TokenFails \/ Welcome \/ Closing \/ Closed
    \/ Stop \/ ServerTakes \/ OnAck \/ OnSendError \/ OnRateLimited
    \/ PumpDue \/ PauseOver
    \/ \E f \in retrying : RetryDue(f)
    \/ \E late \in BOOLEAN, n \in 0..MaxInFlight : Tick(late, n)

-----------------------------------------------------------------------------
\* Properties.

\* In how many of the queue, the window and the retry timers a send is.
Places(f) ==
    Cardinality({i \in DOMAIN queue : queue[i] = f})
    + Cardinality({i \in DOMAIN inflight : inflight[i] = f})
    + (IF f \in retrying THEN 1 ELSE 0)

\* agent.ts #queue, #inflight and #onSendError's timers: through acks, errors, ack
\* timeouts, deadlines, reconnects and stop(), a send that is not settled is in
\* exactly one of them (or nothing will settle it), and a settled one in none.
OnePlace ==
    \A f \in DOMAIN outcome :
        IF f \in Pending THEN f \in abandoned \/ Places(f) = 1 ELSE Places(f) = 0

\* agent.ts:433 "Unacknowledged sends go out again, first, with their original
\* clientIds": reconnects alone never change the order in which messages are
\* stored; only a retry after an error or an ack timeout may.
InOrderUnlessRetried ==
    ~reordered => LET got == SelectSeq(received, Message)
                  IN  \A i, j \in DOMAIN got : i < j =>
                          \E k, l \in DOMAIN order :
                              k < l /\ order[k] = got[i] /\ order[l] = got[j]

\* agent.ts:304-305 "pending asks and sends are rejected": after stop() every send
\* is settled, save those that waited in a retry timer of #onSendError.
StoppedSettlesQueued ==
    stopped => \A f \in Pending : f \in retrying \cup abandoned
=============================================================================
