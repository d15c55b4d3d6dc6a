--------------------------- MODULE SseTransport ----------------------------
(***************************************************************************)
(* The Server-Sent Events binding (transport/sse.ts): frames arrive on a   *)
(* stream, sends are POST requests.  Their answers carry no seq, so the    *)
(* transport pairs each with its frame on the stream, whichever comes      *)
(* first.  The stream's process is event_stream_controller.ex.             *)
(***************************************************************************)
EXTENDS Binding, ApiErrors

CONSTANTS RecentMax \* 500 in the code

ASSUME SseAssumption == RecentMax \in Nat \ {0}

VARIABLES
    post,      \* per clientId: "none", "asked", "stored" (the answer is on its way),
               \* "refused" (an error is), "done", "failed"
    recent,    \* #recent: the last activities of the stream, oldest first
    awaiting,  \* #awaiting: clientIds whose frame has not arrived
    liveT,     \* the liveness timer
    sIn,       \* the stream: activities and error codes
    fed,       \* the last activity the stream's process wrote
    evicted    \* sends answered after their frame had left #recent

sse == <<post, recent, awaiting, liveT, sIn, fed, evicted>>

Sse == binding = "sse"

\* The error events that end the stream, and the code the client closes with.
EndCode(e) ==
    CASE e = "token_expired" -> 4401 [] e = "channel_inactive" -> 4403
      [] e = "unavailable" -> 1012
Errors == {"token_expired", "channel_inactive", "unavailable"}

Frame(s)  == [t |-> "frame", seq |-> s]
Error_(e) == [t |-> "error", error |-> e]

SConnect ==
    /\ Sse /\ net = "none"
    /\ net' = "asked"
    /\ UNCHANGED <<binding, dead, opened, closed, connectT, code, calls, shown, acked,
                   posted, log, sse>>

EmitWelcome(c) == Append(c, "welcome")

\* #run, the response: 200 starts the stream, with a welcome made here; any other
\* status, or a failed request, ends the attempt.
SAccepted ==
    /\ Sse /\ net = "asked" /\ ~dead
    /\ net' = "open" /\ opened' = TRUE /\ liveT' = TRUE
    /\ calls' = EmitWelcome(Append(calls, "open"))
    /\ UNCHANGED <<binding, dead, closed, connectT, code, shown, acked, posted, log, post,
                   recent, awaiting, sIn, fed, evicted>>

RefusalCode(status) ==
    CASE status = 0 -> 1006 [] status = 401 -> 4401 [] status = 403 -> 4403
      [] status = 404 -> 1008 [] OTHER -> 1013

SRefused ==
    /\ Sse /\ net = "asked"
    /\ \E a \in Failures : Finish(RefusalCode(a.status))
    /\ UNCHANGED <<binding, dead, opened, shown, acked, posted, log, sse>>

\* The stream's process writes the next activity, or an error and the end.
SFeed ==
    /\ Sse /\ net = "open" /\ ~dead
    /\ sIn # <<>> => Last(sIn).t = "frame"
    /\ \/ fed < Len(log) /\ fed' = fed + 1 /\ sIn' = Append(sIn, Frame(fed'))
       \/ \E e \in Errors : sIn' = Append(sIn, Error_(e)) /\ UNCHANGED fed
    /\ UNCHANGED <<base, post, recent, awaiting, liveT, evicted>>

\* Seeded fault: a frame nobody waits for is forgotten.
RememberNothing(r, s) == r

\* #recent is bounded: the oldest entry makes room.
Remember(r, s) == IF Len(r) = RecentMax THEN Append(Tail(r), s) ELSE Append(r, s)

\* #event with a persistent frame: a send that waits for it is acknowledged first.
SEvent ==
    /\ Sse /\ net = "open" /\ sIn # <<>> /\ Head(sIn).t = "frame"
    /\ sIn' = Tail(sIn)
    /\ LET s == Head(sIn).seq
           c == log[s]
       IN  /\ recent' = Remember(recent, s)
           /\ shown' = shown \cup {<<s, s>>}
           /\ awaiting' = awaiting \ {c}
           /\ acked' = IF c \in awaiting THEN [acked EXCEPT ![c] = @ + 1] ELSE acked
    /\ OnFrame
    /\ UNCHANGED <<binding, net, dead, opened, closed, connectT, code, posted, log, post,
                   liveT, fed, evicted>>

\* #event with an error that ends the stream: the frame, then the close.
SError ==
    /\ Sse /\ net = "open" /\ sIn # <<>> /\ Head(sIn).t = "error"
    /\ sIn' = Tail(sIn)
    /\ closed' = TRUE /\ connectT' = FALSE /\ net' = "gone"
    /\ code' = EndCode(Head(sIn).error)
    /\ calls' = (IF Last(calls) = "frame" THEN calls ELSE Append(calls, "frame"))
                \o <<"closeOpened">>
    /\ liveT' = FALSE
    /\ UNCHANGED <<binding, dead, opened, shown, acked, posted, log, post, recent, awaiting,
                   fed, evicted>>

\* The reader ends or fails.
SEnds ==
    /\ Sse /\ net = "open" /\ ~dead
    /\ Finish(1006) /\ liveT' = FALSE
    /\ UNCHANGED <<binding, dead, opened, shown, acked, posted, log, post, recent, awaiting,
                   sIn, fed, evicted>>

\* send(text): #post.
SSend(c) ==
    /\ Sse /\ opened /\ ~closed /\ post[c] = "none"
    /\ post' = [post EXCEPT ![c] = "asked"]
    /\ posted' = posted \cup {c}
    /\ UNCHANGED <<binding, net, dead, opened, closed, connectT, code, calls, shown, acked,
                   log, recent, awaiting, liveT, sIn, fed, evicted>>

\* The server stores the turn once (X-Idempotency-Key), or refuses it; or the
\* request fails on the network, stored or not, and nothing is reported.
SStore(c) ==
    /\ Sse /\ post[c] = "asked"
    /\ \/ /\ post' \in {[post EXCEPT ![c] = s] : s \in {"stored", "failed"}}
          /\ log' = IF Committed(c) THEN log ELSE Append(log, c)
       \/ /\ post' \in {[post EXCEPT ![c] = s] : s \in {"refused", "failed"}}
          /\ UNCHANGED log
    /\ UNCHANGED <<binding, net, dead, opened, closed, connectT, code, calls, shown, acked,
                   posted, recent, awaiting, liveT, sIn, fed, evicted>>

\* The answer of the POST: its frame came already, or the send waits for it.
\* After close() the request is aborted and nothing comes of it.
SAnswered(c) ==
    /\ Sse /\ post[c] = "stored" /\ ~closed
    /\ post' = [post EXCEPT ![c] = "done"]
    /\ IF PlaceOf(c) \in Range(recent)
       THEN /\ acked' = [acked EXCEPT ![c] = @ + 1] /\ OnFrame
            /\ UNCHANGED <<awaiting, evicted>>
       ELSE /\ awaiting' = awaiting \cup {c}
            /\ evicted' = IF Cardinality({p \in shown : p[1] > PlaceOf(c)}) >= RecentMax
                          THEN evicted \cup {c} ELSE evicted
            /\ UNCHANGED <<acked, calls>>
    /\ UNCHANGED <<binding, net, dead, opened, closed, connectT, code, shown, posted, log,
                   recent, liveT, sIn, fed>>

\* The POST was refused: an error frame with the clientId.
SPostRefused(c) ==
    /\ Sse /\ post[c] = "refused" /\ ~closed
    /\ post' = [post EXCEPT ![c] = "failed"]
    /\ OnFrame
    /\ UNCHANGED <<binding, net, dead, opened, closed, connectT, code, shown, acked, posted,
                   log, recent, awaiting, liveT, sIn, fed, evicted>>

\* send(sync): reconnecting resumes from the watermark.
SSync ==
    /\ Sse /\ opened /\ ~closed
    /\ Finish(4000) /\ liveT' = FALSE
    /\ UNCHANGED <<binding, dead, opened, shown, acked, posted, log, post, recent, awaiting,
                   sIn, fed, evicted>>

SSilent ==
    /\ Sse /\ liveT /\ sIn = <<>>
    /\ Finish(4000) /\ liveT' = FALSE
    /\ UNCHANGED <<binding, dead, opened, shown, acked, posted, log, post, recent, awaiting,
                   sIn, fed, evicted>>

SClose ==
    /\ Sse /\ net # "none"
    /\ Finish(1000) /\ liveT' = FALSE
    /\ UNCHANGED <<binding, dead, opened, shown, acked, posted, log, post, recent, awaiting,
                   sIn, fed, evicted>>

SInit ==
    /\ post = [c \in Cids |-> "none"] /\ recent = <<>> /\ awaiting = {} /\ liveT = FALSE
    /\ sIn = <<>> /\ fed = 0 /\ evicted = {}

SNext ==
    \/ SConnect \/ SAccepted \/ SRefused \/ SFeed \/ SEvent \/ SError \/ SEnds \/ SSync
    \/ SSilent \/ SClose
    \/ \E c \in Cids : SSend(c) \/ SStore(c) \/ SAnswered(c) \/ SPostRefused(c)

-----------------------------------------------------------------------------
\* Properties of the binding.

\* sse.ts:12-14 "the ack is emitted when the turn arrives on the stream": whichever
\* of the answer and the frame comes first, a send whose answer and frame both
\* arrived is acknowledged, once, and no send before both; unless its frame had
\* left #recent when the answer came.
AckOnceBothArrived ==
    \A c \in Cids : Sse /\ ~closed =>
        acked[c] = IF /\ post[c] = "done" /\ <<PlaceOf(c), PlaceOf(c)>> \in shown
                      /\ c \notin evicted
                   THEN 1 ELSE 0
=============================================================================
