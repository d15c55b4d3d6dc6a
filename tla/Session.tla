------------------------------ MODULE Session ------------------------------
(***************************************************************************)
(* A conversation session of the client SDK (packages/client-ts): the      *)
(* frame handlers, watermark, outbox and timers of conversation.ts, the    *)
(* persisted store of storage/outbox.ts, and the connection process that   *)
(* answers them (session.ex and feed.ex), over a FIFO connection that may  *)
(* drop at any moment.                                                     *)
(*                                                                         *)
(* An activity is its place in `log`; a log entry is the clientId of the   *)
(* user turn stored there, or None for anybody else's activity.  A page is *)
(* one Conversation object: a reload loses its memory and the writes that  *)
(* have not reached the storage.  How a connection is established, closed  *)
(* and authorised is the subject of Lifecycle.tla.                         *)
(***************************************************************************)
EXTENDS Integers, Sequences, FiniteSets, SequencesExt

CONSTANTS
    Cids,        \* clientIds the application sends with
    Refused,     \* those the server refuses for good (invalid_message)
    None,        \* "no clientId", "no stored value"
    MaxBot,      \* activities other participants post
    MaxInFlight, \* welcome.limits.maxInFlight
    ReplayMax,   \* limits.replayMax
    ResumeAt,    \* watermarks the application passes to resume()
    MaxFaults    \* drops, reloads, disconnects, discards and retryable answers

ASSUME SessionAssumption ==
    /\ Refused \subseteq Cids /\ None \notin Cids
    /\ MaxBot \in Nat /\ MaxInFlight \in Nat \ {0} /\ ReplayMax \in Nat \ {0}
    /\ ResumeAt \subseteq Nat
    /\ MaxFaults \in Nat

VARIABLES
    \* the page: Conversation and ConversationStore
    page,      \* "loading" while resume() reads the storage, then "up"
    st,        \* "off" no transport, "hello" before welcome, "open"
    watermark, seen, ownIds,
    replay,    \* #replayTarget of the replay that runs, 0 when none does
    inFlight, backoff,
    entries,   \* the outbox in memory
    saved,     \* the watermark of store.#state, -1 for none
    key,       \* the store knows its storage key
    loading,   \* the stored value being read, or None
    gap,       \* #gapTimer: 0 unset, n armed for seq n, -1 cleared by #onClose
    sync,      \* #syncTimer: -1 unset, else the watermark to sync from
    \* the storage and the writes on their way to it
    storage, writes,
    \* the connection and the server's process of it
    toServer, toClient, feed, own,
    \* the server: its log, and sends still buffered on dead connections
    log, stale,
    limited,   \* sends of this connection turned away with rate_limited
    \* what the application saw, and how much went wrong
    status, emitted, told, skip, faults

pageVars == <<page, st, watermark, seen, ownIds, replay, inFlight,
              backoff, entries, saved, key, loading, gap, sync>>
store    == <<storage, writes>>
conn     == <<toServer, toClient, feed, own, limited>>
app      == <<status, emitted, told, skip>>
vars     == <<pageVars, store, conn, log, stale, app, faults>>

-----------------------------------------------------------------------------
\* Frames.

Welcome(h)     == [type |-> "welcome", head |-> h]
Activity(s)    == [type |-> "activity", seq |-> s]
Ack(c, s)      == [type |-> "ack", cid |-> c, seq |-> s]
Error(code, c) == [type |-> "error", code |-> code, cid |-> c, from |-> 0]
Unavailable(n) == [Error("replay_unavailable", None) EXCEPT !.from = n]
BadWatermark   == Error("invalid_watermark", None)
RateLimited    == Error("rate_limited", None)
Truncated(n,h) == [type |-> "replayTruncated", at |-> n, head |-> h]
Heartbeat(h)   == [type |-> "heartbeat", head |-> h]
Text(c)        == [type |-> "text", cid |-> c]
Sync(n)        == [type |-> "sync", from |-> n]

\* Frame types that never are activities, though an ack has a seq too.
CONTROL_TYPES == {"welcome", "ack", "error", "deliveryStatus", "presence", "heartbeat",
                  "tokenRefreshed", "replayTruncated", "run", "genui_components", "skills"}
IsPersistent(f) == f.type \notin CONTROL_TYPES /\ f.seq > 0

\* Errors on which a send is tried again.
RETRYABLE_SEND_ERRORS == {"rate_limited", "too_many_in_flight", "unavailable", "internal"}

Least(a, b) == IF a < b THEN a ELSE b
Most(a, b)  == IF a > b THEN a ELSE b
Without(s, c) == SelectSeq(s, LAMBDA x : x # c)

-----------------------------------------------------------------------------
(***************************************************************************)
(* The store.  #persist queues a snapshot of the outbox and the resume     *)
(* state; snapshots reach the storage one at a time, in order.  `early`    *)
(* records that the snapshot was taken while the stored value was still    *)
(* being read, so that it cannot hold what was stored there; `skip` what   *)
(* the application chose not to see of the watermark it saves.             *)
(***************************************************************************)
Nothing == [out |-> <<>>, wm |-> -1, early |-> FALSE, skip |-> 0]
Stored  == IF storage = None THEN Nothing ELSE storage

Snap(out, wm) == [out |-> out, wm |-> wm, early |-> loading' # None, skip |-> skip']

\* Writing the value that is there already changes nothing.
Put(queue, snap) ==
    LET last == IF queue = <<>> THEN storage ELSE Last(queue)
    IN  IF last # None /\ last.out = snap.out /\ last.wm = snap.wm
        THEN queue ELSE Append(queue, snap)

Persist(snaps) ==
    writes' = IF key' THEN FoldLeft(Put, writes, snaps) ELSE writes

\* Seeded fault: the state is saved without the outbox.
SaveStateAlone(out) ==
    IF watermark' # saved THEN <<Snap(<<>>, watermark')>> ELSE <<>>

\* setState persists only a changed state.
SaveState(out) ==
    IF watermark' # saved THEN <<Snap(out, watermark')>> ELSE <<>>

\* Seeded fault: load() replaces what was added meanwhile.
MergeReplaces(stored, out) == stored.out

\* load() puts the stored sends in front of those added meanwhile.
Merge(stored, out) ==
    SelectSeq(stored.out, LAMBDA c : c \notin Range(out)) \o out

\* add(), get() and touch(), which counts an attempt of a send.
Add(c) == Append(entries, c)
Get(c) == c \in Range(entries)
Touch(out, snaps) == IF out = <<>> THEN snaps ELSE Append(snaps, Snap(entries', saved'))

WriteLands ==
    /\ writes # <<>>
    /\ storage' = [Head(writes) EXCEPT !.early = FALSE]
    /\ writes' = Tail(writes)
    /\ UNCHANGED <<pageVars, conn, log, stale, status, emitted, told, skip, faults>>

-----------------------------------------------------------------------------
(***************************************************************************)
(* #flush: with an open session and no replay running, put the unsent      *)
(* entries on the wire, oldest first, up to maxInFlight, skipping those    *)
(* whose retryAt lies ahead.  `before` and `after` are the frames the      *)
(* handler sends around it; touch() persists when something was sent.      *)
(***************************************************************************)
Flush(wanted, busy, before, after, snaps) ==
    LET ready == SelectSeq(entries', LAMBDA c : c \notin busy \cup backoff')
        room  == Most(0, MaxInFlight - Cardinality(busy))
        out   == IF wanted /\ st' = "open" /\ replay' = 0
                 THEN SubSeq(ready, 1, Least(room, Len(ready))) ELSE <<>>
    IN  /\ inFlight' = busy \cup Range(out)
        /\ toServer' = toServer \o before
                       \o [i \in DOMAIN out |-> Text(out[i])] \o after
        /\ Persist(Touch(out, snaps))

\* Seeded fault: the watermark is the highest seq seen.
AdvanceToTop(w, S) ==
    CHOOSE k \in {w} \cup S : \A x \in {w} \cup S : x <= k

\* #markSeen: the watermark is the highest contiguous seq seen.
Advance(w, S) ==
    CHOOSE k \in w..(w + Cardinality(S)) : (w + 1)..k \subseteq S /\ k + 1 \notin S

MarkSeen(s) ==
    LET S == IF s <= watermark THEN seen ELSE seen \cup {s}
    IN  /\ watermark' = Advance(watermark, S)
        /\ seen' = {x \in S : x > watermark'}
        /\ saved' = IF watermark' # watermark THEN watermark' ELSE saved

MarkSaves == IF watermark' # watermark THEN SaveState(entries) ELSE <<>>

\* #checkGap, after everything else in its handler.
CheckGap(s) ==
    gap' = IF gap # 0 \/ replay' # 0 \/ inFlight' # {} \/ s <= watermark'
           THEN gap ELSE s

\* #settle: the entry leaves the outbox and its promise resolves.
Settle(c, s) ==
    /\ ownIds' = ownIds \cup {s}
    /\ backoff' = backoff \ {c}
    /\ entries' = Without(entries, c)
    /\ status' = IF c \in Range(entries) THEN [status EXCEPT ![c] = "sent"] ELSE status
    /\ told' = IF c \in Range(entries) THEN told \cup {s} ELSE told

-----------------------------------------------------------------------------
\* Pages: client.conversation(), then start() or resume().

Fresh ==
    /\ st' = "off" /\ seen' = {} /\ ownIds' = {} /\ replay' = 0
    /\ inFlight' = {} /\ backoff' = {} /\ entries' = <<>> /\ saved' = -1
    /\ gap' = 0 /\ sync' = -1 /\ emitted' = <<>>

\* start(): no conversation id yet, hence no storage key.
Start ==
    /\ Fresh
    /\ page' = "up" /\ key' = FALSE /\ loading' = None
    /\ watermark' = 0 /\ skip' = 0

\* resume(w): the store starts reading; w = -1 stands for no argument.
Resume(w) ==
    /\ Fresh
    /\ page' = "loading" /\ key' = TRUE
    /\ loading' = Stored
    /\ watermark' = w
    /\ skip' = IF w = -1 THEN Stored.skip ELSE w

\* The read of resume() arrived: merge it and take its watermark.
Loaded ==
    /\ page = "loading"
    /\ page' = "up" /\ loading' = None
    /\ entries' = Merge(loading, entries)
    /\ saved' = loading.wm
    /\ watermark' = IF watermark # -1 THEN watermark
                    ELSE Most(0, loading.wm)
    /\ UNCHANGED <<st, seen, ownIds, replay, inFlight, backoff, key, gap,
                   sync, store, conn, log, stale, app, faults>>

Fault == faults < MaxFaults /\ faults' = faults + 1

Hangup ==
    /\ toServer' = <<>> /\ toClient' = <<>> /\ feed' = 0 /\ own' = {} /\ limited' = {}
    /\ \E n \in 0..Len(toServer) :
          stale' = stale \cup {toServer[i].cid : i \in
                       {j \in 1..n : toServer[j].type = "text"}}

\* The page goes away, whether disconnected, reloaded or crashed, and the next
\* one opens: memory and unfinished writes are gone.
Reload ==
    /\ Fault
    /\ Start \/ (\E w \in ResumeAt \cup {-1} : Resume(w))
    /\ writes' = <<>>
    /\ status' = [c \in Cids |->
                    IF status[c] = "pending" /\ c \notin Range(Stored.out)
                    THEN "lost" ELSE status[c]]
    /\ Hangup
    /\ UNCHANGED <<storage, log, told>>

-----------------------------------------------------------------------------
(***************************************************************************)
(* The server's connection process.  `feed` is the highest seq it has      *)
(* delivered; `own` the turns of this connection that must not come back   *)
(* (echo rule).  A replay reads up to ReplayMax activities after n, then   *)
(* continues live after the head.                                          *)
(***************************************************************************)
Deliver(lo, hi) ==
    LET due == SelectSeq([i \in 1..(hi - lo) |-> lo + i], LAMBDA s : s \notin own)
    IN  [i \in DOMAIN due |-> Activity(due[i])]

Replay(n) ==
    LET head == Len(log)
        hi   == Least(n + ReplayMax, head)
    IN  Deliver(n, hi) \o (IF hi < head THEN <<Truncated(hi, head)>> ELSE <<>>)

\* #connect with the watermark; start_session answers welcome and the replay.
Connect ==
    /\ page = "up" /\ st = "off"
    /\ st' = "hello"
    /\ own' = {} /\ feed' = Len(log) /\ toServer' = <<>>
    /\ LET n == IF key THEN watermark ELSE 0 IN
       \/ /\ n > Len(log)
          /\ toClient' = <<Welcome(Len(log)), BadWatermark>>
          /\ UNCHANGED faults
       \/ /\ n <= Len(log)
          /\ toClient' = <<Welcome(Len(log))>> \o Replay(n)
          /\ UNCHANGED faults
       \/ /\ n < Len(log) /\ Fault
          /\ toClient' = <<Welcome(Len(log)), Unavailable(n)>>
    /\ UNCHANGED <<page, watermark, seen, ownIds, replay, inFlight, backoff,
                   entries, saved, key, loading, gap, sync, store, limited, log, stale, app>>

Posts ==
    /\ Len(SelectSeq(log, LAMBDA c : c = None)) < MaxBot
    /\ log' = Append(log, None)
    /\ UNCHANGED <<pageVars, store, conn, stale, app, faults>>

\* A broadcast reaches the process: the gap below it first (Feed.live).
Live(s) ==
    /\ st # "off" /\ s \in (feed + 1)..Len(log)
    /\ \/ /\ toClient' = toClient \o Deliver(feed, s)
          /\ feed' = s /\ own' = {x \in own : x > s}
          /\ UNCHANGED faults
       \/ /\ s > feed + 1 /\ Fault
          /\ toClient' = Append(toClient, Unavailable(feed))
          /\ UNCHANGED <<feed, own>>
    /\ UNCHANGED <<pageVars, store, toServer, limited, log, stale, app>>

Beat ==
    /\ st = "open" /\ toClient = <<>> /\ toServer = <<>> /\ feed > watermark
    /\ toClient' = <<Heartbeat(feed)>>
    /\ UNCHANGED <<pageVars, store, toServer, feed, own, limited, log, stale, app, faults>>

Seq_(c) == CHOOSE i \in DOMAIN log : log[i] = c

\* send_message: the rate limit, whose error names no clientId; then the clientId's
\* first activity; then storing, which may fail for now or for good.
HandleText ==
    /\ st # "off" /\ toServer # <<>> /\ Head(toServer).type = "text"
    /\ toServer' = Tail(toServer)
    /\ LET c == Head(toServer).cid IN
       \/ /\ Fault
          /\ toClient' = Append(toClient, RateLimited)
          /\ limited' = limited \cup {c}
          /\ UNCHANGED <<log, own>>
       \/ /\ c \in Range(log)
          /\ toClient' = Append(toClient, Ack(c, Seq_(c)))
          /\ UNCHANGED <<log, own, limited, faults>>
       \/ /\ c \notin Range(log) /\ Fault
          /\ toClient' = Append(toClient, Error("internal", c))
          /\ UNCHANGED <<log, own, limited>>
       \/ /\ c \notin Range(log) /\ c \in Refused
          /\ toClient' = Append(toClient, Error("invalid_message", c))
          /\ UNCHANGED <<log, own, limited, faults>>
       \/ /\ c \notin Range(log) /\ c \notin Refused
          /\ log' = Append(log, c)
          /\ own' = own \cup {Len(log')}
          /\ toClient' = Append(toClient, Ack(c, Len(log')))
          /\ UNCHANGED <<limited, faults>>
    /\ UNCHANGED <<pageVars, store, feed, stale, app>>

HandleSync ==
    /\ st # "off" /\ toServer # <<>> /\ Head(toServer).type = "sync"
    /\ toServer' = Tail(toServer)
    /\ LET n == Head(toServer).from IN
       \/ /\ n > Len(log)
          /\ toClient' = Append(toClient, BadWatermark)
          /\ UNCHANGED <<feed, own, faults>>
       \/ /\ n <= Len(log)
          /\ toClient' = toClient \o Replay(n)
          /\ feed' = Most(feed, Len(log)) /\ own' = {}
          /\ UNCHANGED faults
       \/ /\ n < Len(log) /\ Fault
          /\ toClient' = Append(toClient, Unavailable(n))
          /\ feed' = Most(feed, Len(log)) /\ own' = {}
    /\ UNCHANGED <<pageVars, store, limited, log, stale, app>>

\* A send buffered on a dead connection is stored after all, unanswered.
LateStore ==
    \E c \in stale :
        /\ stale' = stale \ {c}
        /\ log' = IF c \in Range(log) \cup Refused THEN log ELSE Append(log, c)
        /\ UNCHANGED <<pageVars, store, conn, app, faults>>

-----------------------------------------------------------------------------
\* The page's frame handlers (#onFrame); each takes the oldest frame.

Take ==
    /\ page = "up" /\ st # "off" /\ toClient # <<>>
    /\ toClient' = Tail(toClient)
    /\ UNCHANGED <<page, storage, feed, own, limited, log, stale, faults>>

Receive(type)      == Take /\ Head(toClient).type = type
ReceiveError(code) == Receive("error") /\ Head(toClient).code = code

\* #onWelcome.  With a key the outbox is attached already and flushes at once;
\* without one attach() starts to read what is stored for the conversation.
OnWelcome ==
    /\ Receive("welcome")
    /\ st' = "open"
    /\ replay' = IF Head(toClient).head > watermark THEN Head(toClient).head ELSE 0
    /\ saved' = watermark
    /\ key' = TRUE
    /\ loading' = IF key THEN loading ELSE Stored
    /\ UNCHANGED <<watermark, seen, ownIds, backoff, entries, gap, sync, status, emitted,
                   told, skip>>
    /\ Flush(key, inFlight, <<>>, <<>>, IF key THEN SaveState(entries) ELSE <<>>)

\* attach() finished reading: merge, persist, save the state, flush.
Attached ==
    /\ page = "up" /\ loading # None
    /\ loading' = None
    /\ entries' = Merge(loading, entries)
    /\ saved' = watermark
    /\ UNCHANGED <<page, st, watermark, seen, ownIds, replay, backoff, key, gap,
                   sync, storage, toClient, feed, own, limited, log, stale, app, faults>>
    /\ Flush(TRUE, inFlight, <<>>, <<>>,
             LET first == IF loading.wm = -1 THEN Snap(entries', saved)
                          ELSE [Snap(entries', loading.wm) EXCEPT !.skip = loading.skip]
             IN  <<first, Snap(entries', watermark)>>)

\* Seeded fault: only the seqs remembered above the watermark count as received.
ReceivedAbove(s) == s \in seen

\* A replay overlaps what was delivered live.
Received(s) == s <= watermark \/ s \in seen

\* #onPersistent: emit a frame once; a replayed own turn settles its send.
OnActivity ==
    /\ Take /\ IsPersistent(Head(toClient))
    /\ LET s     == Head(toClient).seq
           c     == log[s]
           mine  == ~Received(s) /\ c # None /\ Get(c)
           shown == ~Received(s) /\ ~mine /\ s \notin ownIds
           done  == replay \in 1..s
       IN  /\ MarkSeen(s)
           /\ IF mine THEN Settle(c, s)
              ELSE /\ told' = IF shown THEN told \cup {s} ELSE told
                   /\ UNCHANGED <<ownIds, backoff, entries, status>>
           /\ emitted' = IF shown THEN Append(emitted, s) ELSE emitted
           /\ replay' = IF done THEN 0 ELSE replay
           /\ UNCHANGED <<st, key, loading, sync, skip>>
           /\ Flush(done, IF mine THEN inFlight \ {c} ELSE inFlight, <<>>, <<>>,
                    MarkSaves \o (IF mine THEN <<Snap(entries', saved')>> ELSE <<>>))
           /\ CheckGap(s)

OnAck ==
    /\ Receive("ack")
    /\ LET c == Head(toClient).cid
           s == Head(toClient).seq
       IN  /\ MarkSeen(s)
           /\ Settle(c, s)
           /\ UNCHANGED <<st, replay, key, loading, gap, sync, emitted, skip>>
           /\ Flush(TRUE, inFlight \ {c}, <<>>, <<>>,
                    MarkSaves \o (IF c \in Range(entries) THEN <<Snap(entries', saved')>>
                                  ELSE <<>>))

\* #onError with the clientId of an outbox entry: retry it later, or fail it.
\* Without an entry (it was discarded) nothing happens.
OnSendError ==
    /\ Receive("error") /\ Head(toClient).cid # None
    /\ LET c     == Head(toClient).cid
           known == Get(c)
           again == known /\ Head(toClient).code \in RETRYABLE_SEND_ERRORS
           fails == known /\ ~again
       IN  /\ backoff' = IF again THEN backoff \cup {c} ELSE backoff \ {c}
           /\ entries' = IF fails THEN Without(entries, c) ELSE entries
           /\ status' = IF fails THEN [status EXCEPT ![c] = "failed"] ELSE status
           /\ UNCHANGED <<st, watermark, seen, ownIds, replay, saved, key,
                          loading, gap, sync, emitted, told, skip>>
           /\ Flush(fails, IF known THEN inFlight \ {c} ELSE inFlight, <<>>, <<>>,
                    IF fails THEN <<Snap(entries', saved)>> ELSE <<>>)

\* Seeded fault: no sync is asked for.
OnReplayUnavailableForgets ==
    /\ ReceiveError("replay_unavailable")
    /\ replay' = 0
    /\ UNCHANGED <<st, watermark, seen, ownIds, backoff, entries, saved, key,
                   loading, gap, sync, status, emitted, told, skip>>
    /\ Flush(replay # 0, inFlight, <<>>, <<>>, <<>>)

\* The replay failed on the server: ask for it again after a while.
OnReplayUnavailable ==
    /\ ReceiveError("replay_unavailable")
    /\ replay' = 0
    /\ sync' = Head(toClient).from
    /\ UNCHANGED <<st, watermark, seen, ownIds, backoff, entries, saved, key,
                   loading, gap, status, emitted, told, skip>>
    /\ Flush(replay # 0, inFlight, <<>>, <<>>, <<>>)

\* An error that names no send of ours is only reported.
OnRateLimited ==
    /\ ReceiveError("rate_limited")
    /\ UNCHANGED <<st, watermark, seen, ownIds, replay, inFlight, backoff, entries, saved, key,
                   loading, gap, sync, writes, toServer, app>>

\* The watermark is above the server's head: start over from 0.
OnInvalidWatermark ==
    /\ ReceiveError("invalid_watermark")
    /\ watermark' = 0 /\ seen' = {} /\ saved' = 0 /\ skip' = 0
    /\ replay' = 0
    /\ UNCHANGED <<st, ownIds, backoff, entries, key, loading, gap, sync, status,
                   emitted, told>>
    /\ Flush(replay # 0, inFlight, <<>>, <<Sync(0)>>, SaveState(entries))

OnReplayTruncated ==
    /\ Receive("replayTruncated")
    /\ replay' = Head(toClient).head
    /\ UNCHANGED <<st, watermark, seen, ownIds, backoff, entries, saved, key, loading, gap,
                   sync, status, emitted, told, skip>>
    /\ Flush(FALSE, inFlight, <<Sync(Least(watermark, Head(toClient).at))>>, <<>>, <<>>)

OnHeartbeat ==
    /\ Receive("heartbeat")
    /\ UNCHANGED <<st, watermark, seen, ownIds, replay, inFlight, backoff,
                   entries, saved, key, loading, sync, writes, toServer, status, emitted,
                   told, skip>>
    /\ CheckGap(Head(toClient).head)

-----------------------------------------------------------------------------
\* The application and the timers.

Send(c) ==
    /\ status[c] = "none"
    /\ status' = [status EXCEPT ![c] = "pending"]
    /\ entries' = Add(c)
    /\ UNCHANGED <<page, st, watermark, seen, ownIds, replay, backoff, saved,
                   key, loading, gap, sync, storage, toClient, feed, own, limited, log, stale,
                   emitted, told, skip, faults>>
    /\ Flush(TRUE, inFlight, <<>>, <<>>, <<Snap(entries', saved)>>)

\* discardOutbox(): what is in flight stays in #inFlight.
Discard ==
    /\ page = "up" /\ entries # <<>>
    /\ Fault
    /\ status' = [c \in Cids |-> IF c \in Range(entries) THEN "discarded" ELSE status[c]]
    /\ entries' = <<>>
    /\ UNCHANGED <<page, st, watermark, seen, ownIds, replay, inFlight, backoff,
                   saved, key, loading, gap, sync, storage, conn, log, stale, emitted,
                   told, skip>>
    /\ Persist([i \in DOMAIN entries |-> Snap(SubSeq(entries, i + 1, Len(entries)), saved)])

Timer ==
    /\ page = "up"
    /\ UNCHANGED <<page, st, watermark, seen, ownIds, entries, saved, key, loading,
                   storage, toClient, feed, own, limited, log, stale, app, faults>>

\* replayWaitMs without the target: give up waiting and resend.
ReplayTimeout ==
    /\ Timer /\ replay # 0
    /\ replay' = 0
    /\ UNCHANGED <<backoff, gap, sync>>
    /\ Flush(TRUE, inFlight, <<>>, <<>>, <<>>)

RetryDue ==
    /\ Timer /\ backoff # {} /\ st = "open" /\ replay = 0
    /\ \E D \in SUBSET backoff \ {{}} : backoff' = backoff \ D
    /\ UNCHANGED <<replay, gap, sync>>
    /\ Flush(TRUE, inFlight, <<>>, <<>>, <<>>)

GapTimeout ==
    /\ Timer /\ gap > 0
    /\ gap' = 0
    /\ UNCHANGED <<replay, backoff, sync>>
    /\ Flush(FALSE, inFlight, IF gap > watermark /\ inFlight = {} /\ st = "open"
                              THEN <<Sync(watermark)>> ELSE <<>>, <<>>, <<>>)

SyncTimeout ==
    /\ Timer /\ sync # -1
    /\ sync' = -1
    /\ UNCHANGED <<replay, backoff, gap>>
    /\ Flush(FALSE, inFlight, IF st = "open" THEN <<Sync(Least(sync, watermark))>>
                              ELSE <<>>, <<>>, <<>>)

\* Seeded fault: #inFlight survives the connection.
DropKeepsInFlight ==
    /\ page = "up" /\ st # "off"
    /\ Fault
    /\ st' = "off" /\ replay' = 0
    /\ gap' = IF gap = 0 THEN 0 ELSE -1
    /\ sync' = -1
    /\ Hangup
    /\ UNCHANGED <<page, watermark, seen, ownIds, inFlight, backoff, entries, saved, key,
                   loading, store, log, app>>

\* The connection drops; #onClose clears the gap timer but keeps its handle.
Drop ==
    /\ page = "up" /\ st # "off"
    /\ Fault
    /\ st' = "off" /\ inFlight' = {} /\ replay' = 0
    /\ gap' = IF gap = 0 THEN 0 ELSE -1
    /\ sync' = -1
    /\ Hangup
    /\ UNCHANGED <<page, watermark, seen, ownIds, backoff, entries, saved, key,
                   loading, store, log, app>>

-----------------------------------------------------------------------------
Init ==
    /\ page = "loading" /\ key = TRUE /\ st = "off"
    /\ loading = Nothing
    /\ watermark \in ResumeAt \cup {-1} /\ skip = Most(0, watermark)
    /\ seen = {} /\ ownIds = {} /\ replay = 0
    /\ inFlight = {} /\ backoff = {} /\ entries = <<>> /\ saved = -1
    /\ gap = 0 /\ sync = -1
    /\ storage = None /\ writes = <<>>
    /\ toServer = <<>> /\ toClient = <<>> /\ feed = 0 /\ own = {} /\ limited = {}
    /\ log = <<>> /\ stale = {}
    /\ status = [c \in Cids |-> "none"]
    /\ emitted = <<>> /\ told = {}
    /\ faults = 0

Server  == Posts \/ (\E s \in 1..Len(log) : Live(s)) \/ Beat \/ HandleText \/ HandleSync
           \/ LateStore
Handler == OnWelcome \/ OnActivity \/ OnAck \/ OnSendError \/ OnReplayUnavailable
           \/ OnRateLimited \/ OnInvalidWatermark \/ OnReplayTruncated \/ OnHeartbeat
Timers  == ReplayTimeout \/ RetryDue \/ GapTimeout \/ SyncTimeout
Next ==
    \/ Loaded \/ Connect \/ Attached \/ WriteLands
    \/ Server \/ Handler \/ Timers
    \/ \E c \in Cids : Send(c)
    \/ Discard \/ Reload \/ Drop

Spec == Init /\ [][Next]_vars

\* What the runtime and the server's scheduler owe: as long as a frame, a timer,
\* a broadcast or a storage operation is due, some step of them is taken, and
\* #scheduleReconnect connects.  Posts, sends, faults and heartbeats are not owed.
Progress ==
    \/ Loaded \/ Connect \/ Attached \/ WriteLands \/ Timers
    \/ HandleText \/ HandleSync \/ (\E s \in 1..Len(log) : Live(s))

Fairness == WF_vars(Progress) /\ WF_vars(Handler)

FairSpec == Spec /\ Fairness

-----------------------------------------------------------------------------
\* Properties.

\* conversation.ts:166 "Every persistent frame is emitted once": whatever the
\* replays, syncs, acks and live frames a page receives, no activity is emitted
\* to it twice.
EmittedOnce ==
    Cardinality(Range(emitted)) = Len(emitted)

\* conversation.ts:166-168 "nothing committed meanwhile is missed": every seq at
\* or below the watermark, and every one remembered above it, was shown to the
\* application of this page or an earlier one, as an activity or as the result of
\* its own send; except what it asked resume() to skip or discarded itself.
NothingSkipped ==
    \A s \in ((1..watermark) \cup seen) \cap (1..Len(log)) :
        \/ s \in told \/ s <= skip
        \/ log[s] # None /\ status[log[s]] \in {"discarded", "lost"}

\* The outbox in memory holds every send whose promise is open, once, and a page
\* that has not read its storage yet finds the rest there.
PendingIsHeld ==
    /\ \A c \in Cids : status[c] = "pending" =>
          \/ c \in Range(entries)
          \/ loading # None /\ c \in Range(loading.out)
          \/ ~key /\ c \in Range(Stored.out)
    /\ Cardinality(Range(entries)) = Len(entries)

\* outbox.ts:4-5 "Every send is written to the outbox before it is put on the wire
\* and removed when its ack (or a non-retryable error) arrives": a stored send
\* leaves the storage only after it was settled, or through a snapshot taken while
\* the page was still reading the storage (send() before resume() or attach() has
\* merged what is stored there).
DroppedOnlyByEarlyWrite ==
    [][\A c \in Cids :
          /\ c \in Range(Stored.out) /\ c \notin Range(Stored'.out)
          /\ status[c] = "pending"
          => Head(writes).early]_vars

\* An entry of #inFlight is on its way to the server or its answer is on its way
\* back, so that a full #inFlight always empties; unless the server's rate limit
\* turned it away, in an error that does not say which send it answers, or the
\* application discarded the send and the server refused it (#onError finds no
\* entry and frees nothing).
InFlightIsAnswered ==
    st = "open" => \A c \in inFlight :
        \/ \E i \in DOMAIN toServer : toServer[i] = Text(c)
        \/ \E i \in DOMAIN toClient : /\ toClient[i].type \in {"ack", "error"}
                                      /\ toClient[i].cid = c
        \/ status[c] = "discarded" \/ c \in limited

\* client-ts README.md:107 "Retryable send errors (`rate_limited`, ...) are retried
\* with the same clientId": once the client handled the error, a send the rate
\* limit turned away is no longer in flight.
LimitedIsRetried ==
    st = "open" /\ RateLimited \notin Range(toClient) => limited \cap inFlight = {}

\* However often the connection drops or the page is reloaded, in the end every
\* send is settled, unless a discarded or rate-limited one keeps the slot it waits
\* for, and every activity has reached the application.
Settles ==
    <>[](/\ \A c \in Cids : status[c] = "pending" =>
               \E d \in inFlight : status[d] = "discarded" \/ d \in limited
         /\ \A s \in DOMAIN log :
               \/ s \in told \/ s <= skip
               \/ log[s] # None /\ status[log[s]] \in {"discarded", "lost"})
=============================================================================
