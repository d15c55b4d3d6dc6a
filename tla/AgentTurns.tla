----------------------------- MODULE AgentTurns -----------------------------
(***************************************************************************)
(* The incoming side of the agent SDK: the watermark tracker               *)
(* (watermarks.ts), and of agent.ts the dispatch of user turns into one    *)
(* lane per conversation, the slots of running turns, asks, history(),     *)
(* aborts, and stop().  Handlers do what a handler may.  The server is the *)
(* SDK's FakeConvergerServer; replies are sent as in AgentSends.           *)
(***************************************************************************)
EXTENDS Integers, Sequences, SequencesExt, FiniteSets, FiniteSetsExt

CONSTANTS
    Convs,
    MaxConcurrent, \* options.maxConcurrentTurns
    Capacity,      \* options.maxTrackedConversations
    Window,        \* WINDOW of the tracker
    Old,           \* activities of a conversation before the agent started
    MaxNew,        \* activities stored in a behaviour, over all conversations
    MaxEvents      \* drops, aborts, asks, reads of the history and replays cut short

ASSUME TurnsAssumption ==
    /\ IsFiniteSet(Convs)
    /\ MaxConcurrent \in Nat \ {0} /\ Capacity \in Nat \ {0} /\ Window \in Nat \ {0}
    /\ Old \in Nat /\ MaxNew \in Nat /\ MaxEvents \in Nat

VARIABLES
    log,           \* per conversation: "user" or "own" per activity
    fed,           \* per conversation: the last activity pushed or replayed
    syncs,         \* <<c, w>>: a sync of c from watermark w, queued or on its way
    later,         \* <<c, w>>: a sync in the timer a replay_unavailable started
    inbox,         \* envelopes on their way to the agent
    up, running, stopping,
    tracked,       \* the tracker's conversations, least recently active first
    high, floor, seen,
    lanes,         \* per conversation: dispatched turns, the current one first
    turn,          \* its state: "none", "wait", "run", "asking", "history", "ending"
    aborted,       \* its controller's signal
    active, waiters,
    until,         \* per conversation: the collector's `until`, 0 without one
    events,
    ran,           \* per conversation: the turns dispatched, in order
    overtaken,     \* turns not yet seen below a seq that was recorded
    unlisted,      \* turns missed in conversations hello.watermarks did not list
    swallowed,     \* turns first seen by a history collector
    gaveUp,        \* conversations whose collector ended before its replay did
    lateStart      \* conversations whose turn got its slot after stop()

server  == <<log, fed, syncs, later>>
tracker == <<tracked, high, floor, seen>>
turns   == <<lanes, turn, aborted, active, waiters, until>>
ghosts  == <<ran, overtaken, unlisted, swallowed, gaveUp, lateStart>>
vars    == <<server, inbox, up, running, stopping, tracker, turns, events, ghosts>>

\* {conversationId, frame}; of the frame, its kind and the seq or watermark it has.
Envelope(c, t, s) == [conv |-> c, t |-> t, seq |-> s]

MessageFrame(c, s)       == Envelope(c, log[c][s], s)      \* "user" or "own"
AckFrame(c, s)           == Envelope(c, "ack", s)
ResumeFrame(c, s)        == Envelope(c, "resume", s)       \* s: the turn that asked
AbortFrame(c)            == Envelope(c, "abort", 0)
ReplayTruncated(c, w)    == Envelope(c, "replayTruncated", w)
ReplayUnavailable(c, w)  == Envelope(c, "replay_unavailable", w)
SyncFrame(c, w)          == <<c, w>>

Frames(c, from, to) == [i \in 1..(to - from) |-> MessageFrame(c, from + i)]

\* What the server may answer to a sync of c from a watermark: everything, or a
\* part and the frame that says where it stopped.
Whole(c, from) == Frames(c, from, Len(log[c]))

Answers(c, from) ==
    {Whole(c, from)} \cup
    IF events = MaxEvents THEN {}
    ELSE {Append(Frames(c, from, w), ReplayUnavailable(c, w)) : w \in from..Len(log[c])}
         \cup {Append(Frames(c, from, w), ReplayTruncated(c, w)) :
                   w \in (from + 1)..(Len(log[c]) - 1)}

Room == SumFunction([c \in Convs |-> Len(log[c])]) < Cardinality(Convs) * Old + MaxNew

Running(c) == turn[c] \in {"run", "asking", "history"}

-----------------------------------------------------------------------------
\* WatermarkTracker.

\* Seeded fault: the seqs above the floor are not looked up.
FreshAboveFloor(c, s) == s > floor[c]

\* seen(), negated.
Fresh(c, s) == ~(s <= floor[c] \/ s \in seen[c])

\* #touch with a position: the conversation becomes the most recently active and
\* the least recently active is forgotten past the capacity.
Touch(c, h, f, sn) ==
    LET moved  == Append(Remove(tracked, c), c)
        kept   == IF Len(moved) > Capacity THEN Tail(moved) ELSE moved
        gone   == Range(moved) \ Range(kept)
    IN  /\ tracked' = kept
        /\ high'  = [x \in Convs |-> IF x \in gone THEN 0 ELSE IF x = c THEN h ELSE high[x]]
        /\ floor' = [x \in Convs |-> IF x \in gone THEN 0 ELSE IF x = c THEN f ELSE floor[x]]
        /\ seen'  = [x \in Convs |-> IF x \in gone THEN {} ELSE IF x = c THEN sn ELSE seen[x]]

\* touch(): what #enqueue does for the conversation of a frame.
MarkActive(c) ==
    /\ tracked' = IF c \in Range(tracked) THEN Append(Remove(tracked, c), c) ELSE tracked
    /\ UNCHANGED <<high, floor, seen>>

Record(c, s) ==
    LET sn  == seen[c] \cup {s}
        old == IF Cardinality(sn) > Window THEN {Min(sn)} ELSE {}
    IN  IF Fresh(c, s)
        THEN Touch(c, IF s > high[c] THEN s ELSE high[c], Max({floor[c]} \cup old), sn \ old)
        ELSE Touch(c, high[c], floor[c], seen[c])

-----------------------------------------------------------------------------
\* The server and the connection.

\* Turns of c that were pushed or committed, and not recorded.
Unseen(c) == {s \in (Old + 1)..Len(log[c]) : log[c][s] = "user" /\ Fresh(c, s)}

UserSays(c) ==
    /\ Room
    /\ log' = [log EXCEPT ![c] = Append(@, "user")]
    /\ UNCHANGED <<fed, syncs, later, inbox, up, running, stopping, tracker, turns, events, ghosts>>

\* The next activity of a conversation, live; the agent's own are not echoed.
Push(c) ==
    /\ up /\ fed[c] < Len(log[c])
    /\ fed' = [fed EXCEPT ![c] = @ + 1]
    /\ inbox' = IF log[c][fed'[c]] = "user" THEN Append(inbox, MessageFrame(c, fed'[c])) ELSE inbox
    /\ UNCHANGED <<log, syncs, later, up, running, stopping, tracker, turns, events, ghosts>>

ServesSync(c) ==
    \E w \in 0..Len(log[c]) : \E answer \in Answers(c, w) :
        /\ up /\ SyncFrame(c, w) \in syncs
        /\ syncs' = syncs \ {SyncFrame(c, w)}
        /\ inbox' = inbox \o answer
        /\ events' = IF answer = Whole(c, w) THEN events ELSE events + 1
        /\ UNCHANGED <<log, fed, later, up, running, stopping, tracker, turns, ghosts>>

UserAborts(c) ==
    /\ up /\ events < MaxEvents /\ turn[c] # "none"
    /\ inbox' = Append(inbox, AbortFrame(c)) /\ events' = events + 1
    /\ UNCHANGED <<server, up, running, stopping, tracker, turns, ghosts>>

UserAnswers(c) ==
    /\ up /\ turn[c] = "asking" /\ ResumeFrame(c, Head(lanes[c])) \notin Range(inbox)
    /\ inbox' = Append(inbox, ResumeFrame(c, Head(lanes[c])))
    /\ UNCHANGED <<server, up, running, stopping, tracker, turns, events, ghosts>>

Drop ==
    /\ up /\ events < MaxEvents
    /\ up' = FALSE /\ inbox' = <<>> /\ syncs' = {} /\ events' = events + 1
    /\ UNCHANGED <<log, fed, later, running, stopping, tracker, turns, ghosts>>

\* hello.watermarks: the highest seq of every tracked conversation.
Snapshot == [i \in DOMAIN tracked |-> <<tracked[i], high[tracked[i]]>>]

\* Each is replayed from there.
Reconnect ==
    /\ ~up /\ running
    /\ up' = TRUE
    /\ \E c \in Convs : \E answer \in Answers(c, high[c]) :
        /\ inbox' = FlattenSeq([i \in DOMAIN Snapshot |->
                        IF Snapshot[i][1] = c THEN answer ELSE Whole(Snapshot[i][1], Snapshot[i][2])])
        /\ IF answer = Whole(c, high[c]) THEN UNCHANGED events
           ELSE c \in Range(tracked) /\ events' = events + 1
    /\ fed' = [c \in Convs |-> Len(log[c])]
    /\ unlisted' = [c \in Convs |-> IF c \in Range(tracked) THEN unlisted[c]
                                    ELSE unlisted[c] \cup Unseen(c)]
    /\ UNCHANGED <<log, syncs, later, running, stopping, tracker, turns, ran, overtaken,
                   swallowed, gaveUp, lateStart>>

-----------------------------------------------------------------------------
\* #onEnveloped.

Comes(t) ==
    /\ up /\ inbox # <<>> /\ Head(inbox).t = t
    /\ inbox' = Tail(inbox)
    /\ UNCHANGED <<log, fed, up, running, stopping, events, unlisted, lateStart>>

\* Turns of c that are not seen yet and lie below s.
Overtakes(c, s) == overtaken' = [overtaken EXCEPT ![c] = @ \cup {x \in Unseen(c) : x < s}]

OnAck ==
    /\ Comes("ack")
    /\ LET c == Head(inbox).conv
           s == Head(inbox).seq
       IN  Record(c, s) /\ Overtakes(c, s)
    /\ UNCHANGED <<syncs, later, turns, ran, swallowed, gaveUp>>

\* #dispatch.
Dispatch(c, s) ==
    /\ lanes' = [lanes EXCEPT ![c] = Append(@, s)]
    /\ ran' = [ran EXCEPT ![c] = Append(@, s)]

\* The collector's done(): history() returns.
HistoryDone(c) == until' = [until EXCEPT ![c] = 0] /\ turn' = [turn EXCEPT ![c] = "run"]

\* A persistent frame: a collector takes what is not above its `until`; a fresh
\* user turn is dispatched into its conversation's lane.
OnFrame ==
    /\ Comes("user") \/ Comes("own")
    /\ LET c == Head(inbox).conv
           s == Head(inbox).seq
       IN  /\ Record(c, s) /\ Overtakes(c, s)
           /\ IF until[c] # 0 /\ s <= until[c]
              THEN /\ swallowed' = IF s \in Unseen(c)
                                   THEN [swallowed EXCEPT ![c] = @ \cup {s}] ELSE swallowed
                   /\ IF s = until[c] THEN HistoryDone(c) ELSE UNCHANGED <<until, turn>>
                   /\ UNCHANGED <<lanes, ran>>
              ELSE /\ IF Fresh(c, s) /\ Head(inbox).t = "user"
                      THEN Dispatch(c, s)
                      ELSE UNCHANGED <<lanes, ran>>
                   /\ UNCHANGED <<until, turn, swallowed>>
    /\ UNCHANGED <<syncs, later, aborted, active, waiters, gaveUp>>

\* replayTruncated ends a history(), or asks for what comes next.
OnReplayTruncated ==
    /\ Comes("replayTruncated")
    /\ LET c == Head(inbox).conv IN
       IF until[c] # 0
       THEN HistoryDone(c) /\ UNCHANGED <<syncs, tracker>>
       ELSE /\ syncs' = syncs \cup {SyncFrame(c, Head(inbox).seq)} /\ MarkActive(c)
            /\ UNCHANGED <<until, turn>>
    /\ UNCHANGED <<later, lanes, aborted, active, waiters, ran, overtaken, swallowed, gaveUp>>

\* replay_unavailable: the same, after a delay that outlives the connection.
OnReplayUnavailable ==
    /\ Comes("replay_unavailable")
    /\ later' = later \cup {SyncFrame(Head(inbox).conv, Head(inbox).seq)}
    /\ UNCHANGED <<syncs, tracker, turns, ran, overtaken, swallowed, gaveUp>>

ResyncDue(c) ==
    \E w \in 0..Len(log[c]) :
        /\ SyncFrame(c, w) \in later
        /\ later' = later \ {SyncFrame(c, w)}
        /\ IF running THEN syncs' = syncs \cup {SyncFrame(c, w)} /\ MarkActive(c)
                      ELSE UNCHANGED <<syncs, tracker>>
        /\ UNCHANGED <<log, fed, inbox, up, running, stopping, turns, events, ghosts>>

\* #onResume: the ask of the turn it names, if it is still pending.
OnResume ==
    /\ Comes("resume")
    /\ LET c == Head(inbox).conv IN
       turn' = IF turn[c] = "asking" /\ Head(lanes[c]) = Head(inbox).seq
               THEN [turn EXCEPT ![c] = "run"] ELSE turn
    /\ UNCHANGED <<syncs, later, tracker, lanes, aborted, active, waiters, until, ran, overtaken,
                   swallowed, gaveUp>>

\* The lane's controller, when a turn is running; its ask is rejected.
OnAbort ==
    /\ Comes("abort")
    /\ LET c == Head(inbox).conv IN
       IF Running(c)
       THEN /\ aborted' = [aborted EXCEPT ![c] = TRUE]
            /\ turn' = IF turn[c] = "asking" THEN [turn EXCEPT ![c] = "run"] ELSE turn
       ELSE UNCHANGED <<aborted, turn>>
    /\ UNCHANGED <<syncs, later, tracker, lanes, active, waiters, until, ran, overtaken, swallowed,
                   gaveUp>>

-----------------------------------------------------------------------------
\* #runTurn and the handler.

Still == UNCHANGED <<running, stopping, up>>

\* #acquire: the slot, or a place among the waiters.
Acquire(c) ==
    IF active < MaxConcurrent
    THEN active' = active + 1 /\ turn' = [turn EXCEPT ![c] = "run"] /\ UNCHANGED waiters
    ELSE /\ turn' = [turn EXCEPT ![c] = "wait"] /\ waiters' = Append(waiters, c)
         /\ UNCHANGED active

\* Seeded fault: a slot handed over is counted as free, too.
ReleaseFrees(c) ==
    /\ active' = active - 1
    /\ IF waiters = <<>>
       THEN turn' = [turn EXCEPT ![c] = "none"] /\ UNCHANGED waiters
       ELSE /\ turn' = [turn EXCEPT ![c] = "none", ![Head(waiters)] = "run"]
            /\ waiters' = Tail(waiters)

\* Seeded fault: nobody is woken.
ReleaseWakesNobody(c) ==
    active' = active - 1 /\ turn' = [turn EXCEPT ![c] = "none"] /\ UNCHANGED waiters

\* #release by the turn of c: the first waiter takes over the slot.
Release(c) ==
    IF waiters = <<>>
    THEN active' = active - 1 /\ turn' = [turn EXCEPT ![c] = "none"] /\ UNCHANGED waiters
    ELSE /\ turn' = [turn EXCEPT ![c] = "none", ![Head(waiters)] = "run"]
         /\ waiters' = Tail(waiters) /\ UNCHANGED active

\* The `run` frame of a turn that begins or ends; dropped while disconnected.
SendRun(c) == IF up THEN MarkActive(c) ELSE UNCHANGED tracker

\* The lane's next turn: dropped by a stopping agent, or it takes or waits for a slot.
TurnStarts(c) ==
    /\ turn[c] = "none" /\ lanes[c] # <<>>
    /\ \/ /\ stopping \/ ~running
          /\ lanes' = [lanes EXCEPT ![c] = Tail(@)]
          /\ UNCHANGED <<turn, active, waiters, tracker>>
       \/ /\ ~stopping /\ running /\ Acquire(c)
          /\ IF active < MaxConcurrent THEN SendRun(c) ELSE UNCHANGED tracker
          /\ UNCHANGED lanes
    /\ aborted' = [aborted EXCEPT ![c] = FALSE]
    /\ Still /\ UNCHANGED <<events, server, inbox, until, ghosts>>

\* The handler sends a message: stored, and its ack on the way.
HandlerReplies(c) ==
    /\ turn[c] = "run" /\ up /\ Room
    /\ log' = [log EXCEPT ![c] = Append(@, "own")]
    /\ inbox' = Append(inbox, AckFrame(c, Len(log[c]) + 1))
    /\ MarkActive(c)
    /\ Still /\ UNCHANGED <<events, fed, syncs, later, turns, ghosts>>

\* #waitForAnswer: the handler waits for a resume that names its ask.
WaitForAnswer(c) == turn' = [turn EXCEPT ![c] = "asking"]

\* ask(): an aborted turn's is rejected at once.
HandlerAsks(c) ==
    /\ turn[c] = "run" /\ ~aborted[c]
    /\ WaitForAnswer(c)
    /\ MarkActive(c)
    /\ events < MaxEvents /\ events' = events + 1
    /\ Still /\ UNCHANGED <<server, inbox, lanes, aborted, active, waiters, until, ghosts>>

AskTimeout(c) ==
    /\ turn[c] = "asking"
    /\ turn' = [turn EXCEPT ![c] = "run"]
    /\ Still /\ UNCHANGED <<events, server, inbox, tracker, lanes, aborted, active, waiters, until, ghosts>>

\* turn.history(): a sync from the start; frames up to the highest seq are its.
HandlerReadsHistory(c) ==
    /\ turn[c] = "run" /\ high[c] > 0 /\ SyncFrame(c, 0) \notin syncs
    /\ until' = [until EXCEPT ![c] = high[c]]
    /\ turn' = [turn EXCEPT ![c] = "history"]
    /\ syncs' = syncs \cup {SyncFrame(c, 0)} /\ MarkActive(c)
    /\ events < MaxEvents /\ events' = events + 1
    /\ Still /\ UNCHANGED <<log, fed, later, inbox, lanes, aborted, active, waiters, ghosts>>

HistoryTimeout(c) ==
    /\ turn[c] = "history" /\ HistoryDone(c)
    /\ gaveUp' = gaveUp \cup {c}
    /\ Still /\ UNCHANGED <<events, server, inbox, tracker, lanes, aborted, active, waiters, ran,
                            overtaken, unlisted, swallowed, lateStart>>

\* The handler returns or throws; its asks are rejected, end() begins.
HandlerReturns(c) ==
    /\ turn[c] \in {"run", "asking"}
    /\ turn' = [turn EXCEPT ![c] = "ending"] /\ SendRun(c)
    /\ Still /\ UNCHANGED <<events, server, inbox, lanes, aborted, active, waiters, until, ghosts>>

\* end() is done: #release hands the slot to the first waiter.
TurnEnds(c) ==
    /\ turn[c] = "ending"
    /\ lanes' = [lanes EXCEPT ![c] = Tail(@)]
    /\ Release(c)
    /\ IF waiters = <<>> THEN UNCHANGED tracker ELSE SendRun(Head(waiters))
    /\ lateStart' = IF stopping /\ waiters # <<>> THEN lateStart \cup {Head(waiters)}
                                                  ELSE lateStart
    /\ Still /\ UNCHANGED <<events, server, inbox, aborted, until, ran, overtaken, unlisted,
                            swallowed, gaveUp>>

\* Seeded fault: a turn that waits for an answer is not aborted.
StopSparesAsks ==
    /\ running /\ ~stopping
    /\ stopping' = TRUE
    /\ aborted' = [c \in Convs |-> aborted[c] \/ turn[c] = "run"]
    /\ turn' = [c \in Convs |-> IF turn[c] \in {"asking", "history"} THEN "run" ELSE turn[c]]
    /\ until' = [c \in Convs |-> 0]
    /\ gaveUp' = gaveUp \cup {c \in Convs : turn[c] = "history"}
    /\ UNCHANGED <<server, inbox, up, running, tracker, lanes, active, waiters, events, ran,
                   overtaken, unlisted, swallowed, lateStart>>

\* stop(): running turns are aborted, asks and collectors end.
Stop ==
    /\ running /\ ~stopping
    /\ stopping' = TRUE
    /\ aborted' = [c \in Convs |-> aborted[c] \/ Running(c)]
    /\ turn' = [c \in Convs |-> IF turn[c] \in {"asking", "history"} THEN "run" ELSE turn[c]]
    /\ until' = [c \in Convs |-> 0]
    /\ gaveUp' = gaveUp \cup {c \in Convs : turn[c] = "history"}
    /\ UNCHANGED <<server, inbox, up, running, tracker, lanes, active, waiters, events, ran,
                   overtaken, unlisted, swallowed, lateStart>>

\* ... and once the lanes are empty, or after timeoutMs, the socket is closed.
Stopped ==
    /\ stopping /\ running
    /\ running' = FALSE /\ up' = FALSE /\ inbox' = <<>> /\ syncs' = {}
    /\ UNCHANGED <<log, fed, later, stopping, tracker, turns, events, ghosts>>

-----------------------------------------------------------------------------
Init ==
    /\ log = [c \in Convs |-> [i \in 1..Old |-> "user"]]
    /\ fed = [c \in Convs |-> Old] /\ syncs = {} /\ later = {} /\ inbox = <<>>
    /\ up = TRUE /\ running = TRUE /\ stopping = FALSE
    /\ tracked = <<>> /\ high = [c \in Convs |-> 0] /\ floor = [c \in Convs |-> 0]
    /\ seen = [c \in Convs |-> {}]
    /\ lanes = [c \in Convs |-> <<>>] /\ turn = [c \in Convs |-> "none"]
    /\ aborted = [c \in Convs |-> FALSE] /\ active = 0 /\ waiters = <<>>
    /\ until = [c \in Convs |-> 0] /\ events = 0
    /\ ran = [c \in Convs |-> <<>>] /\ overtaken = [c \in Convs |-> {}]
    /\ unlisted = [c \in Convs |-> {}]
    /\ swallowed = [c \in Convs |-> {}] /\ gaveUp = {} /\ lateStart = {}

Receive ==
    OnAck \/ OnFrame \/ OnReplayTruncated \/ OnReplayUnavailable \/ OnResume \/ OnAbort

Next ==
    \/ Drop \/ Reconnect \/ Receive \/ Stop \/ Stopped
    \/ \E c \in Convs :
        \/ UserSays(c) \/ Push(c) \/ ServesSync(c) \/ ResyncDue(c) \/ UserAborts(c) \/ UserAnswers(c)
        \/ TurnStarts(c) \/ HandlerReplies(c) \/ HandlerAsks(c) \/ AskTimeout(c)
        \/ HandlerReadsHistory(c) \/ HistoryTimeout(c) \/ HandlerReturns(c) \/ TurnEnds(c)

Spec == Init /\ [][Next]_vars

\* A handler that does not wait comes to its end; its waits have timeouts.
FairSpec ==
    /\ Spec
    /\ \A c \in Convs :
        WF_vars(TurnStarts(c) \/ AskTimeout(c) \/ HistoryTimeout(c)
                \/ (turn[c] = "run" /\ HandlerReturns(c)) \/ TurnEnds(c))

-----------------------------------------------------------------------------
\* Properties.

\* Activity s of c is on its way, or will be asked for.
Coming(c, s) ==
    \/ MessageFrame(c, s) \in Range(inbox)
    \/ \E w \in 0..(s - 1) :
          \/ SyncFrame(c, w) \in syncs \cup later
          \/ {ReplayTruncated(c, w), ReplayUnavailable(c, w)} \cap Range(inbox) # {}

\* watermarks.ts:6-7 "the server replays exactly what was missed" and agent.ts:617
\* "not a new turn": a user turn is dispatched once, and an old one never, unless
\* a history() gave up before its replay arrived; and no turn of a tracked
\* conversation is lost, even when the server cuts a replay short, save one that an
\* own ack or a live turn overtook, that history() took for an old one, or that was
\* missed before the conversation was tracked.
EveryTurnOnce ==
    \A c \in Convs :
        /\ c \notin gaveUp => IsInjective(ran[c]) /\ \A i \in DOMAIN ran[c] : ran[c][i] > Old
        /\ \A s \in (Old + 1)..Len(log[c]) :
               log[c][s] = "user" /\ s <= fed[c] /\ c \in Range(tracked) /\ up =>
                   \/ s \in Range(ran[c]) \cup overtaken[c] \cup unlisted[c] \cup swallowed[c]
                   \/ Coming(c, s) \/ s <= floor[c]

\* watermarks.ts:6-7 "The highest seq is what hello.watermarks sends on reconnect,
\* so the server replays exactly what was missed": no turn below it was missed
\* (of a conversation that was tracked when the connection came back).
ReplayCoversMissed ==
    \A c \in Convs : \A s \in (Old + 1)..high[c] :
        log[c][s] = "user" => \/ ~Fresh(c, s) \/ s \in unlisted[c] \/ (up /\ s > fed[c])
                              \/ Coming(c, s)

\* agent.ts #acquire and #release: the slots in use are counted, never more than
\* maxConcurrentTurns, and a turn waits only while all are in use.
SlotsExact ==
    /\ active = Cardinality({c \in Convs : Running(c) \/ turn[c] = "ending"})
    /\ active <= MaxConcurrent
    /\ waiters # <<>> => active = MaxConcurrent
    /\ {c \in Convs : turn[c] = "wait"} = Range(waiters)

\* agent.ts:304 "running turns are aborted, pending asks ... rejected": after stop()
\* no turn runs on that was not aborted, save one that was waiting for a slot.
StopAborts ==
    stopping => \A c \in Convs : Running(c) => aborted[c] \/ c \in lateStart

\* Every dispatched turn comes to its end, one after the other in its lane.
TurnsFinish == <>[](\A c \in Convs : lanes[c] = <<>> /\ turn[c] = "none")
=============================================================================
