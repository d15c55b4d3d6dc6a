------------------------- MODULE PhoenixTransport --------------------------
(***************************************************************************)
(* The Phoenix Channels binding (transport/phoenix.ts) and the channel it  *)
(* joins (converger_channel.ex; leaving, joining and replying are          *)
(* Phoenix's).  A message carries the join it belongs to; a replay is one  *)
(* set of consecutive activities, without a seq of their own.              *)
(***************************************************************************)
EXTENDS Binding

CONSTANTS
    ReplayLimit, \* :ws_replay_limit
    MaxJoins     \* joins on one connection

ASSUME PhoenixAssumption == ReplayLimit \in Nat \ {0} /\ MaxJoins \in Nat

VARIABLES
    joinRef,   \* the current join, 0 before the first
    joined, welcomed,
    beat,      \* #pendingHeartbeat
    pIn, pOut,
    chan,      \* the server's channel process: its join, 0 for none
    pushed,    \* its last_seq
    heard,     \* the last new_activity broadcast it handled
    after,     \* its {:after_join, watermark} message, -1 when handled
    warned,    \* a replay_unavailable error was handed over
    jumped     \* a frame was handed over that left a gap below it, unwarned

phoenix == <<joinRef, joined, welcomed, beat, pIn, pOut, chan, pushed, heard, after,
             warned, jumped>>
server  == <<chan, pushed, heard, after>>
ghosts  == <<warned, jumped>>

Phoenix == binding = "phoenix"

\* protocol/watermark.ts: a position travels in its opaque form, "seq:<n>".
EncodeOpaqueWatermark(seq) == <<"seq", seq>>
ParseWatermark(w)          == w[2]

Join(r, w)        == [t |-> "join", ref |-> r, from |-> EncodeOpaqueWatermark(w)]
Leave(r)          == [t |-> "leave", ref |-> r]
Text(r, c)        == [t |-> "text", ref |-> r, cid |-> c]
Beat              == [t |-> "heartbeat"]
Reply(r, ok)      == [t |-> "reply", join |-> r, ok |-> ok]
Gone(r)           == [t |-> "phx_close", join |-> r]
Crashed(r)        == [t |-> "phx_error", join |-> r]
Set_(r, from, last, more) ==
    [t |-> "activitySet", join |-> r, activities |-> [i \in 1..(last - from) |-> from + i],
     watermark |-> EncodeOpaqueWatermark(last), more |-> more]
Missed(r)         == [t |-> "error", join |-> r]
Ack(r, c)         == [t |-> "ack", join |-> r, cid |-> c]
BeatReply         == [t |-> "beatReply", join |-> 0]

PConnect ==
    /\ Phoenix /\ net = "none"
    /\ \/ net' = "asked" /\ connectT' = TRUE
       \/ net' = "failed" /\ UNCHANGED connectT
    /\ UNCHANGED <<binding, dead, opened, closed, code, calls, shown, acked, posted, log,
                   phoenix>>

PConnectFailed ==
    /\ Phoenix /\ net = "failed"
    /\ Finish(1006)
    /\ UNCHANGED <<binding, dead, opened, shown, acked, posted, log, phoenix>>

\* socket.onopen: the join, from the watermark of connect() (0 here).
POpen ==
    /\ Phoenix /\ net = "asked" /\ ~dead
    /\ net' = "open" /\ opened' = TRUE
    /\ calls' = Append(calls, "open")
    /\ joinRef' = 1 /\ joined' = FALSE
    /\ pOut' = <<Join(1, 0)>>
    /\ UNCHANGED <<binding, dead, closed, connectT, code, shown, acked, posted, log,
                   welcomed, beat, pIn, server, ghosts>>

\* #rejoin: leave, then join again from w; nothing can be sent until the reply.
Rejoin(w) ==
    /\ joinRef' = joinRef + 1 /\ joined' = FALSE
    /\ pOut' = pOut \o <<Leave(joinRef), Join(joinRef + 1, w)>>

-----------------------------------------------------------------------------
\* The server.

PServer(type) ==
    /\ Phoenix /\ net = "open" /\ ~dead /\ pOut # <<>> /\ Head(pOut).t = type
    /\ pOut' = Tail(pOut)
    /\ UNCHANGED <<binding, net, dead, opened, closed, connectT, code, calls, shown, acked,
                   posted, joinRef, joined, welcomed, beat, ghosts>>

\* join/3: the position is the head until after_join replays.
HandleJoin ==
    /\ PServer("join")
    /\ LET m == Head(pOut) IN
       \/ /\ chan' = m.ref /\ pushed' = Len(log) /\ heard' = Len(log) /\ after' = ParseWatermark(m.from)
          /\ pIn' = Append(pIn, Reply(m.ref, TRUE))
       \/ /\ pIn' = Append(pIn, Reply(m.ref, FALSE))
          /\ UNCHANGED server
    /\ UNCHANGED log

HandleLeave ==
    /\ PServer("leave")
    /\ pIn' = Append(pIn, Gone(Head(pOut).ref))
    /\ chan' = 0 /\ after' = -1
    /\ UNCHANGED <<pushed, heard, log>>

\* A `frame` event: the text is stored once and acknowledged to its join.
HandleText ==
    /\ PServer("text")
    /\ LET m == Head(pOut) IN
       IF m.ref = chan
       THEN /\ log' = IF Committed(m.cid) THEN log ELSE Append(log, m.cid)
            /\ pIn' = Append(pIn, Ack(m.ref, m.cid))
       ELSE UNCHANGED <<log, pIn>>
    /\ UNCHANGED server

HandleBeat ==
    /\ PServer("heartbeat")
    /\ pIn' = Append(pIn, BeatReply)
    /\ UNCHANGED <<server, log>>

\* replay/2 from a position: at most ReplayLimit activities, in one set.
ReplayFrom(from) ==
    LET last == IF from + ReplayLimit < Len(log) THEN from + ReplayLimit ELSE Len(log) IN
    \/ IF last > from
       THEN /\ pIn' = Append(pIn, Set_(chan, from, last, last < Len(log)))
            /\ pushed' = last
       ELSE UNCHANGED <<pIn, pushed>>
    \/ /\ pIn' = Append(pIn, Missed(chan)) /\ UNCHANGED pushed

Channel ==
    /\ Phoenix /\ net = "open" /\ ~dead /\ chan # 0
    /\ UNCHANGED <<base, joinRef, joined, welcomed, beat, pOut, ghosts>>

AfterJoin ==
    /\ Channel /\ after # -1
    /\ after' = -1 /\ UNCHANGED <<chan, heard>>
    /\ ReplayFrom(after)

\* push_live of activity s (a broadcast may be missed): the next one, one pushed
\* already, or the range that is missing first.
PushLive(s) ==
    /\ Channel /\ after = -1 /\ s \in (heard + 1)..Len(log)
    /\ heard' = s /\ UNCHANGED <<chan, after>>
    /\ \/ /\ s = pushed + 1
          /\ pIn' = Append(pIn, Set_(chan, pushed, s, FALSE)) /\ pushed' = s
       \/ s <= pushed /\ UNCHANGED <<pIn, pushed>>
       \/ s > pushed + 1 /\ ReplayFrom(pushed)

ChannelCrashes ==
    /\ Channel
    /\ pIn' = Append(pIn, Crashed(chan))
    /\ chan' = 0 /\ after' = -1 /\ UNCHANGED <<pushed, heard>>

-----------------------------------------------------------------------------
\* #receive: the heartbeat's reply, then only what belongs to the current join.

Stale(m) == m.join # joinRef

PReceive(type) ==
    /\ Phoenix /\ net = "open" /\ pIn # <<>> /\ Head(pIn).t = type
    /\ pIn' = Tail(pIn)
    /\ UNCHANGED <<binding, dead, opened, posted, log, server>>

OnBeatReply ==
    /\ PReceive("beatReply")
    /\ beat' = FALSE
    /\ UNCHANGED <<net, closed, connectT, code, calls, shown, acked, joinRef, joined,
                   welcomed, pOut, ghosts>>

OnStale ==
    /\ pIn # <<>> /\ Head(pIn).t # "beatReply" /\ Stale(Head(pIn))
    /\ PReceive(Head(pIn).t)
    /\ UNCHANGED <<net, closed, connectT, code, calls, shown, acked, joinRef, joined,
                   welcomed, beat, pOut, ghosts>>

\* #onJoinReply: the first one makes the welcome; a refusal ends the attempt.
OnJoinReply ==
    /\ PReceive("reply") /\ ~Stale(Head(pIn))
    /\ IF Head(pIn).ok
       THEN /\ joined' = TRUE /\ connectT' = FALSE /\ welcomed' = TRUE
            /\ calls' = IF welcomed THEN calls ELSE Append(calls, "welcome")
            /\ UNCHANGED <<net, closed, code>>
       ELSE Finish(4401) /\ UNCHANGED <<joined, welcomed>>
    /\ UNCHANGED <<shown, acked, joinRef, beat, pOut, ghosts>>

\* Seeded fault: the set's watermark is taken for its first seq.
SeqFromFirst(m, i) == ParseWatermark(m.watermark) + i - 1

\* #onActivitySet: seqs are counted back from the set's watermark; a capped
\* replay goes on with a rejoin.
SeqAt(m, i) == ParseWatermark(m.watermark) - Len(m.activities) + i

Top == IF shown = {} THEN 0 ELSE CHOOSE s \in {p[1] : p \in shown} :
                                  \A p \in shown : p[1] <= s

\* activityToFrame(): the frame the session gets is the activity under its seq.
ActivityToFrame(m, i) == <<SeqAt(m, i), m.activities[i]>>

OnActivitySet ==
    /\ PReceive("activitySet") /\ ~Stale(Head(pIn))
    /\ LET m == Head(pIn) IN
       /\ shown' = shown \cup {ActivityToFrame(m, i) : i \in DOMAIN m.activities}
       /\ OnFrame
       /\ jumped' = (jumped \/ (SeqAt(m, 1) > Top + 1 /\ ~warned))
       /\ IF m.more /\ joinRef < MaxJoins
          THEN Rejoin(ParseWatermark(m.watermark))
          ELSE UNCHANGED <<joinRef, joined, pOut>>
    /\ UNCHANGED <<net, closed, connectT, code, acked, welcomed, beat, warned>>

\* `frame` and `error` events.
OnAckFrame ==
    /\ PReceive("ack") /\ ~Stale(Head(pIn))
    /\ OnFrame
    /\ acked' = [acked EXCEPT ![Head(pIn).cid] = @ + 1]
    /\ UNCHANGED <<net, closed, connectT, code, shown, joinRef, joined, welcomed, beat,
                   pOut, ghosts>>

OnLegacyError ==
    /\ PReceive("error") /\ ~Stale(Head(pIn))
    /\ warned' = TRUE
    /\ UNCHANGED <<net, closed, connectT, code, calls, shown, acked, joinRef, joined,
                   welcomed, beat, pOut, jumped>>

OnChannelEnd ==
    /\ \E t \in {"phx_error", "phx_close"} : PReceive(t) /\ ~Stale(Head(pIn))
    /\ Finish(IF Head(pIn).t = "phx_error" THEN 1011 ELSE 1000)
    /\ UNCHANGED <<shown, acked, joinRef, joined, welcomed, beat, pOut, ghosts>>

-----------------------------------------------------------------------------
\* The session and the timers.

PSend(c) ==
    /\ Phoenix /\ net = "open" /\ joined /\ c \notin posted
    /\ pOut' = Append(pOut, Text(joinRef, c))
    /\ posted' = posted \cup {c}
    /\ UNCHANGED <<binding, net, dead, opened, closed, connectT, code, calls, shown, acked,
                   log, joinRef, joined, welcomed, beat, pIn, server, ghosts>>

\* send(sync): a rejoin from the session's watermark.
PSync ==
    /\ Phoenix /\ net = "open" /\ joined /\ joinRef < MaxJoins
    /\ Rejoin(Top)
    /\ UNCHANGED <<base, welcomed, beat, pIn, server, ghosts>>

PConnectTimeout ==
    /\ Phoenix /\ connectT
    /\ Finish(4000)
    /\ UNCHANGED <<binding, dead, opened, shown, acked, posted, log, phoenix>>

\* Seeded fault: an unanswered heartbeat is waited for.
BeatWaits ==
    /\ Phoenix /\ net = "open"
    /\ ~beat /\ (dead \/ pIn \o pOut = <<>>)
    /\ beat' = TRUE /\ pOut' = Append(pOut, Beat)
    /\ UNCHANGED <<base, joinRef, joined, welcomed, pIn, server, ghosts>>

\* #beat: an unanswered heartbeat means the connection is dead.
PBeat ==
    /\ Phoenix /\ net = "open"
    /\ \/ beat /\ Finish(4000) /\ UNCHANGED <<beat, pOut>>
       \/ /\ ~beat /\ (dead \/ pIn \o pOut = <<>>)
          /\ beat' = TRUE /\ pOut' = Append(pOut, Beat)
          /\ UNCHANGED <<closed, connectT, code, calls, net>>
    /\ UNCHANGED <<binding, dead, opened, shown, acked, posted, log, joinRef, joined,
                   welcomed, pIn, server, ghosts>>

PClosed ==
    /\ Phoenix /\ net \in {"asked", "open"} /\ ~dead
    /\ Finish(1006)
    /\ UNCHANGED <<binding, dead, opened, shown, acked, posted, log, phoenix>>

PClose ==
    /\ Phoenix /\ net # "none"
    /\ Finish(1000)
    /\ UNCHANGED <<binding, dead, opened, shown, acked, posted, log, phoenix>>

PInit ==
    /\ joinRef = 0 /\ joined = FALSE /\ welcomed = FALSE /\ beat = FALSE
    /\ pIn = <<>> /\ pOut = <<>> /\ chan = 0 /\ pushed = 0 /\ heard = 0 /\ after = -1
    /\ warned = FALSE /\ jumped = FALSE

PTimers == PConnectTimeout \/ (dead /\ PBeat)

PHandler ==
    OnBeatReply \/ OnStale \/ OnJoinReply \/ OnActivitySet \/ OnAckFrame \/ OnLegacyError
    \/ OnChannelEnd

PWorker ==
    HandleJoin \/ HandleLeave \/ HandleText \/ HandleBeat \/ AfterJoin
    \/ (\E s \in 1..MaxLog + Cardinality(Cids) : PushLive(s)) \/ ChannelCrashes

PNext ==
    \/ PConnect \/ PConnectFailed \/ POpen \/ PSync \/ PClosed \/ PClose
    \/ PConnectTimeout \/ PBeat \/ PHandler \/ PWorker \/ (\E c \in Cids : PSend(c))

-----------------------------------------------------------------------------
\* Properties of the binding.

\* phoenix.ts:9-13 "derives seq from the set's watermark": through replays, gap
\* fills, capped replays and rejoins, every activity is handed over under its own
\* seq, and none is skipped without a replay_unavailable error before it.
FramesInPlace ==
    /\ \A p \in shown : p[1] = p[2]
    /\ ~jumped
=============================================================================
