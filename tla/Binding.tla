------------------------------ MODULE Binding ------------------------------
(***************************************************************************)
(* What the three transports of the client SDK and the agent SDK's socket  *)
(* share: the network connection of one attempt, the #opened and #closed   *)
(* flags, and #finish, which reports the end of the attempt once and stops *)
(* the timers.                                                             *)
(***************************************************************************)
EXTENDS Integers, Sequences, SequencesExt, FiniteSets

CONSTANTS
    Cids,      \* clientIds of the sends
    MaxLog,    \* activities in the conversation
    None

VARIABLES
    binding,   \* "native", "phoenix", "sse" or "agent"
    net,       \* the socket or request: "none", "asked", "open", "gone"
    dead,      \* the peer is gone without a word
    opened, closed,
    connectT,  \* #connectTimer
    code,      \* the code of onClose, 0 before it
    calls,     \* the handler calls, as in Transport
    shown,     \* persistent frames handed over: <<seq, the activity's place>>
    acked,     \* handed-over acks, per clientId
    posted,    \* sends the transport accepted
    log        \* the conversation: the clientId or None per activity

base == <<binding, net, dead, opened, closed, connectT, code, calls, shown, acked,
          posted, log>>

OnFrame == calls' = IF Last(calls) = "frame" THEN calls ELSE Append(calls, "frame")

\* Seeded fault: every call is reported.
FinishAgain(c) ==
    /\ closed' = TRUE /\ connectT' = FALSE /\ code' = c /\ net' = "gone"
    /\ calls' = Append(calls, IF opened THEN "closeOpened" ELSE "closeUnopened")

\* #finish: only the first call does anything.
Finish(c) ==
    IF closed THEN UNCHANGED <<closed, connectT, code, calls, net>>
    ELSE /\ closed' = TRUE /\ connectT' = FALSE /\ code' = c /\ net' = "gone"
         /\ calls' = Append(calls, IF opened THEN "closeOpened" ELSE "closeUnopened")

Committed(c) == \E i \in DOMAIN log : log[i] = c
PlaceOf(c) == CHOOSE i \in DOMAIN log : log[i] = c

\* Another participant's activity is committed.
Posts ==
    /\ Len(log) < MaxLog /\ ~closed
    /\ log' = Append(log, None)
    /\ UNCHANGED <<binding, net, dead, opened, closed, connectT, code, calls, shown,
                   acked, posted>>

\* The network goes silent: nothing arrives any more and nobody says so.
Dies ==
    /\ net \in {"asked", "open"} /\ ~dead
    /\ dead' = TRUE
    /\ UNCHANGED <<binding, net, opened, closed, connectT, code, calls, shown, acked,
                   posted, log>>

BaseInit ==
    /\ binding \in {"native", "phoenix", "sse", "agent"}
    /\ net = "none" /\ dead = FALSE /\ opened = FALSE /\ closed = FALSE
    /\ connectT = FALSE /\ code = 0 /\ calls = <<>> /\ shown = {}
    /\ acked = [c \in Cids |-> 0] /\ posted = {}
    /\ log \in {<<>>, <<None, None>>}
=============================================================================
