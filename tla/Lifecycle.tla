----------------------------- MODULE Lifecycle -----------------------------
(***************************************************************************)
(* How a client session (packages/client-ts) is opened, reconnected,       *)
(* authorised and closed: start(), resume(), disconnect(), #connect,       *)
(* #onClose, #scheduleReconnect, #close and the token refresh of           *)
(* conversation.ts, with the TokenManager of token.ts.  Frames and the     *)
(* outbox are the subject of Session.tla, the wire of the bindings that of *)
(* Transport.tla.                                                          *)
(*                                                                         *)
(* A token is what the client and the server think of it: "good"; "near"   *)
(* its expiry, so that get() asks the provider again; "expired"; "refused" *)
(* by the server though the client takes it for good.  Times are abstract: *)
(* an armed timer may fire at any moment.                                  *)
(***************************************************************************)
EXTENDS Integers, Sequences, ApiErrors

CONSTANTS
    TransportOption,   \* the `transport` option, a list; <<>> when it is not given
    FallbackAfter,     \* fallbackAfterAttempts
    ReconnectOption,   \* the `reconnect` option: fields enabled, maxAttempts, if given
    MaxAuthRejections  \* MAX_AUTH_REJECTIONS, 3 in the code

ASSUME LifecycleAssumption ==
    /\ TransportOption \in Seq({"native", "phoenix", "sse"})
    /\ FallbackAfter \in Nat \ {0}
    /\ DOMAIN ReconnectOption \subseteq {"enabled", "maxAttempts"}
    /\ MaxAuthRejections \in Nat

VARIABLES
    stage,      \* "new", "loading" (resume() reads the store), "started"
    st,         \* #state
    stopped, welcomed,
    ready,      \* the promise of start() or resume()
    hasId,      \* #conversationId is known
    idx, failures, attempt, authRej,
    calls,      \* #connect calls that wait: [idx, step, current]
    armed,      \* #reconnectTimer
    transport,  \* #transport is set
    socks,      \* connections open on the network
    link,       \* the current connection: "none", "dialing", "opened", "live",
                \* "expiring" (the server said token_expired)
    used,       \* its token: "cur", or "old" once the manager has a newer one
    authSent,   \* an auth frame is unanswered
    cur, pend,  \* TokenManager: the token, and whether the provider was asked
    scoped,     \* the manager holds a token of this conversation
    refreshT,   \* #refreshTimer
    refreshing, \* a #refresh waits for the manager
    stray,      \* a #refresh waits for the manager that was replaced
    rejected,   \* the current token is one the server closed 4401 on
    failed,     \* the provider's last answer was a failure
    early,      \* disconnect() was called before #open
    authRefused \* the server did not accept the last auth frame

api    == <<stage, ready, early>>
policy == <<idx, failures, attempt, authRej>>
wire   == <<transport, socks, link, used, authSent, authRefused>>
token  == <<cur, pend, scoped, rejected, failed>>
timers == <<armed, refreshT>>
vars   == <<api, st, stopped, welcomed, hasId, policy, calls, wire, token, timers,
            refreshing, stray>>

-----------------------------------------------------------------------------
\* What the session asks of a transport: whether it takes auth frames, needs a
\* conversation id, and (Phoenix) a token restricted to the conversation.
nativeTransport  == [auth |-> TRUE,  needsId |-> FALSE, scoped |-> FALSE]
sseTransport     == [auth |-> FALSE, needsId |-> TRUE,  scoped |-> FALSE]
phoenixTransport == [auth |-> FALSE, needsId |-> TRUE,  scoped |-> TRUE]

resolveTransport(option) ==
    CASE option = "native"  -> nativeTransport
      [] option = "phoenix" -> phoenixTransport
      [] option = "sse"     -> sseTransport

\* The fallback list.
resolveTransports(option) ==
    LET list == IF option = <<>> THEN <<"native", "sse">> ELSE option
    IN  [i \in 1..Len(list) |-> resolveTransport(list[i])]

Infinity == -1

resolveReconnect(o) ==
    [enabled     |-> IF "enabled" \in DOMAIN o THEN o.enabled ELSE TRUE,
     maxAttempts |-> IF "maxAttempts" \in DOMAIN o THEN o.maxAttempts ELSE Infinity]

Transports == resolveTransports(TransportOption)
Reconnect  == resolveReconnect(ReconnectOption)

\* deferred(): the first of resolve and reject settles the promise.
Resolve(promise) == IF promise = "open" THEN "resolved" ELSE promise
Reject(promise)  == IF promise = "open" THEN "rejected" ELSE promise

\* #close and disconnect(): no more reconnects; the open promise rejects.
Shut ==
    /\ stopped' = TRUE /\ st' = "closed" /\ armed' = FALSE
    /\ ready' = Reject(ready)

\* #scheduleReconnect after an attempt that did (not) open.
ScheduleReconnect(opened) ==
    /\ attempt' = IF Reconnect.enabled THEN attempt + 1 ELSE attempt
    /\ IF ~Reconnect.enabled \/ (Reconnect.maxAttempts # Infinity /\ attempt' > Reconnect.maxAttempts)
       THEN Shut /\ UNCHANGED <<idx, failures>>
       ELSE LET f    == IF opened THEN failures ELSE failures + 1
                falls == ~opened /\ f >= FallbackAfter /\ idx < Len(Transports)
            IN  /\ idx' = IF falls THEN idx + 1 ELSE idx
                /\ failures' = IF falls THEN 0 ELSE f
                /\ st' = "reconnecting" /\ armed' = TRUE
                /\ UNCHANGED <<stopped, ready>>

\* transport.connect with the manager's current token.
Dial ==
    /\ transport' = TRUE /\ socks' = socks + 1 /\ link' = "dialing"
    /\ used' = "cur" /\ authSent' = FALSE /\ authRefused' = FALSE

\* #ensureConversationToken asks REST for a conversation, or for a token of it.
NeedsRest(i) ==
    Transports[i].needsId /\ (~hasId \/ (Transports[i].scoped /\ ~scoped))

RestRequest == IF hasId THEN "getConversation" ELSE "createConversation"

Call(i, step) == [idx |-> i, step |-> step, current |-> TRUE]

\* #connect goes on with a token: to the REST request, or to the wire.
Continue(i, step, others) ==
    IF step = "base" /\ NeedsRest(i)
    THEN calls' = others \cup {Call(i, RestRequest)} /\ UNCHANGED wire
    ELSE calls' = others /\ Dial

\* #connect up to its first await; get() returns a token that is not near its
\* expiry and otherwise asks the provider (one request at a time).
Connect ==
    /\ st' = IF st = "reconnecting" \/ welcomed THEN "reconnecting" ELSE "connecting"
    /\ LET step      == IF Transports[idx].needsId THEN "base" ELSE "token"
           overtaken == {[c EXCEPT !.current = FALSE] : c \in calls}
       IN  IF cur \in {"good", "refused"}
           THEN Continue(idx, step, overtaken) /\ UNCHANGED pend
           ELSE /\ calls' = overtaken \cup {Call(idx, step)}
                /\ pend' = TRUE
                /\ UNCHANGED wire

Start ==
    /\ stage = "new"
    /\ stage' = "started" /\ ready' = "open"
    /\ hasId' = FALSE
    /\ IF stopped THEN UNCHANGED <<st, calls, pend, wire>> ELSE Connect
    /\ UNCHANGED <<early, stopped, welcomed, policy, cur, scoped, rejected,
                   failed, timers, refreshing, stray>>

\* resume(): the store is read before anything else happens.
Resume ==
    /\ stage = "new"
    /\ stage' = "loading" /\ hasId' = TRUE
    /\ UNCHANGED <<st, stopped, ready, early, welcomed, policy, calls, wire, token,
                   timers, refreshing, stray>>

Loaded ==
    /\ stage = "loading"
    /\ stage' = "started" /\ ready' = "open"
    /\ IF stopped THEN UNCHANGED <<st, calls, pend, wire>> ELSE Connect
    /\ UNCHANGED <<early, stopped, welcomed, hasId, policy, cur, scoped, rejected,
                   failed, timers, refreshing, stray>>

ReconnectDue ==
    /\ armed /\ armed' = FALSE
    /\ Connect
    /\ UNCHANGED <<api, stopped, welcomed, hasId, policy, cur, scoped, rejected,
                   failed, refreshT, refreshing, stray>>

\* Seeded fault: only a newer call is noticed.
ValidWhenStopped(c) == c.current

\* A waiting call that a newer one or the end of the session overtook returns.
Valid(c) == c.current /\ ~stopped

\* The REST request of #ensureConversationToken succeeded: the session goes on
\* with a manager of conversation tokens.
RestAnswers ==
    \E c \in calls :
        /\ c.step \in {"getConversation", "createConversation"}
        /\ hasId' = TRUE /\ scoped' = TRUE
        /\ cur' = "good" /\ pend' = FALSE /\ rejected' = FALSE /\ failed' = FALSE
        /\ refreshing' = FALSE /\ stray' = (stray \/ refreshing)
        /\ calls' = calls \ {c}
        /\ IF Valid(c) THEN Dial ELSE UNCHANGED wire
        /\ UNCHANGED <<api, st, stopped, welcomed, policy, timers>>

\* The codes on which #connect gives up.
Denied(a) == RequestError(a) \in {"unauthorized", "forbidden", "not_found"}

\* It failed.
RestFails ==
    \E c \in calls, a \in Failures :
        /\ c.step \in {"getConversation", "createConversation"}
        /\ calls' = calls \ {c}
        /\ IF ~Valid(c)
           THEN UNCHANGED <<policy, st, stopped, ready, timers>>
           ELSE /\ IF Denied(a) THEN Shut /\ UNCHANGED policy
                   ELSE ScheduleReconnect(FALSE) /\ UNCHANGED authRej
                /\ refreshT' = (refreshT /\ ~stopped')
        /\ UNCHANGED <<stage, early, welcomed, hasId, wire, token, refreshing, stray>>

-----------------------------------------------------------------------------
(***************************************************************************)
(* The provider answers.  Everyone who waits for the manager continues in  *)
(* the same turn of the event loop: the #connect call, and a #refresh,     *)
(* which sends the token on an open connection that takes auth frames and  *)
(* otherwise only arms the next refresh.                                   *)
(***************************************************************************)
Waiting == {c \in calls : c.step \in {"base", "token"}}

SendsAuth == refreshing /\ st = "open" /\ transport /\ Transports[idx].auth

ProviderAnswers ==
    /\ pend /\ pend' = FALSE
    /\ cur' \in {"good", "refused"}
    /\ rejected' = FALSE /\ failed' = FALSE
    /\ refreshing' = FALSE
    /\ refreshT' = (refreshT \/ (refreshing /\ ~SendsAuth))
    /\ IF \E c \in Waiting : Valid(c)
       THEN \E c \in Waiting : Valid(c) /\ Continue(c.idx, c.step, calls \ Waiting)
       ELSE /\ calls' = calls \ Waiting
            /\ authSent' = (authSent \/ SendsAuth)
            /\ used' = IF transport THEN "old" ELSE used
            /\ UNCHANGED <<transport, socks, link, authRefused>>
    /\ UNCHANGED <<api, st, stopped, welcomed, hasId, policy, scoped, armed, stray>>

\* It fails, as a request of its own or otherwise.
\* A #refresh tries again in 10 s; when the #connect call ends the session in
\* the same turn, that timer is set before or after the timers are cleared.
ProviderFails ==
    /\ pend /\ pend' = FALSE
    /\ failed' = TRUE
    /\ refreshing' = FALSE
    /\ calls' = calls \ Waiting
    /\ \E a \in Failures :
          IF \E c \in Waiting : Valid(c)
          THEN IF Denied(a) THEN Shut /\ UNCHANGED policy
               ELSE ScheduleReconnect(FALSE) /\ UNCHANGED authRej
          ELSE UNCHANGED <<policy, st, stopped, ready, armed>>
    /\ \/ refreshT' = (refreshT \/ refreshing)
       \/ ~stopped /\ stopped' /\ refreshT' = FALSE
    /\ UNCHANGED <<stage, early, welcomed, hasId, wire, cur, scoped, rejected, stray>>

\* The replaced manager's provider answers or fails: only the timer is left.
StrayAnswers ==
    /\ stray /\ stray' = FALSE
    /\ refreshT' = TRUE
    /\ UNCHANGED <<api, st, stopped, welcomed, hasId, policy, calls, wire, token,
                   armed, refreshing>>

RefreshDue ==
    /\ refreshT /\ refreshT' = FALSE
    /\ refreshing' = TRUE /\ pend' = TRUE
    /\ UNCHANGED <<api, st, stopped, welcomed, hasId, policy, calls, wire, cur, scoped,
                   rejected, failed, armed, stray>>

\* Time passes for the current token.
Ages ==
    /\ \/ cur = "good" /\ cur' = "near"
       \/ cur = "near" /\ cur' = "expired"
    /\ UNCHANGED <<api, st, stopped, welcomed, hasId, policy, calls, wire, pend, scoped,
                   rejected, failed, timers, refreshing, stray>>

-----------------------------------------------------------------------------
\* The connection.

\* Seeded fault: the attempts are forgotten before the welcome.
OpensResets ==
    /\ link = "dialing" /\ link' = "opened"
    /\ attempt' = 0
    /\ UNCHANGED <<api, st, stopped, welcomed, hasId, idx, failures, authRej, calls, transport,
                   socks, used, authSent, authRefused, token, timers, refreshing, stray>>

Opens ==
    /\ link = "dialing" /\ link' = "opened"
    /\ UNCHANGED <<api, st, stopped, welcomed, hasId, policy, calls, transport, socks, used,
                   authSent, authRefused, token, timers, refreshing, stray>>

\* The server takes the token: #onWelcome, as far as the lifecycle goes.  The
\* expiry it reports is set on the manager's token, whichever that is by now.
Welcome ==
    /\ link = "opened" /\ (used = "old" \/ cur \in {"good", "near"})
    /\ link' = "live" /\ st' = "open" /\ welcomed' = TRUE /\ hasId' = TRUE
    /\ attempt' = 0 /\ failures' = 0 /\ authRej' = 0
    /\ ready' = Resolve(ready)
    /\ refreshT' = TRUE
    /\ cur' \in IF used = "old" /\ cur = "good" THEN {"good", "near"} ELSE {cur}
    /\ UNCHANGED <<stage, early, stopped, idx, calls, transport, socks, used, authSent,
                   authRefused, pend, scoped, rejected, failed, armed, refreshing, stray>>

\* Seeded fault: the next refresh is not scheduled.
TokenRefreshedOnce ==
    /\ authSent /\ link = "live" /\ cur \in {"good", "near"}
    /\ authSent' = FALSE /\ used' = "cur" /\ authRefused' = FALSE
    /\ UNCHANGED <<api, st, stopped, welcomed, hasId, policy, calls, transport, socks, link,
                   token, timers, refreshing, stray>>

\* tokenRefreshed: the session runs on the manager's token.
TokenRefreshed ==
    /\ authSent /\ link = "live" /\ cur \in {"good", "near"}
    /\ authSent' = FALSE /\ used' = "cur" /\ authRefused' = FALSE
    /\ refreshT' = TRUE
    /\ UNCHANGED <<api, st, stopped, welcomed, hasId, policy, calls, transport, socks, link,
                   token, armed, refreshing, stray>>

\* An error answers auth (another identity, or a token that is no longer good);
\* #onError does nothing about it.
AuthRefused ==
    /\ authSent /\ link = "live"
    /\ authSent' = FALSE /\ authRefused' = TRUE
    /\ UNCHANGED <<api, st, stopped, welcomed, hasId, policy, calls, transport, socks, link,
                   used, token, timers, refreshing, stray>>

\* Seeded fault: the rejected token is kept.
RenewNothing == UNCHANGED pend

\* The provider is asked for a token in the place of a rejected one.
Renew == pend' = TRUE

\* The connection's token ran out: an error frame, on which the client asks for
\* a token, then close 4401.
TokenExpired ==
    /\ link = "live" /\ (used = "old" \/ cur \in {"expired", "refused"})
    /\ link' = "expiring"
    /\ Renew
    /\ UNCHANGED <<api, st, stopped, welcomed, hasId, policy, calls, transport, socks, used,
                   authSent, authRefused, cur, scoped, rejected, failed, timers,
                   refreshing, stray>>

Hangup ==
    /\ transport /\ transport' = FALSE /\ socks' = socks - 1 /\ link' = "none"
    /\ authSent' = FALSE
    /\ UNCHANGED <<used, authRefused>>

\* Without a handshake (SSE) the answer to the request itself may refuse.
Asked == link = "opened" \/ (link = "dialing" /\ Transports[idx].needsId)

\* #onClose on close 4401.
ClosedUnauthorized ==
    /\ \/ Asked /\ (used = "old" \/ cur \in {"expired", "refused"})
       \/ link = "expiring"
    /\ Hangup
    /\ authRej' = authRej + 1
    /\ rejected' = (rejected \/ used = "cur")
    /\ refreshT' = FALSE
    /\ IF authRej' > MaxAuthRejections
       THEN Shut /\ UNCHANGED <<idx, failures, attempt, pend>>
       ELSE ScheduleReconnect(link # "dialing") /\ Renew
    /\ UNCHANGED <<stage, early, welcomed, hasId, calls, cur, scoped, failed, refreshing,
                   stray>>

\* The close codes of the protocol, those that end the session, and the code of a
\* connection that was lost without one.
CloseCode ==
    [normal |-> 1000, internalError |-> 1011, tooBig |-> 1009, restart |-> 1012,
     tryAgainLater |-> 1013, conversationNotFound |-> 1008, unsupportedProtocol |-> 4400,
     unauthorized |-> 4401, forbidden |-> 4403, idleTimeout |-> 4408, slowConsumer |-> 4503]
FATAL_CLOSE_CODES ==
    {CloseCode.unsupportedProtocol, CloseCode.forbidden, CloseCode.conversationNotFound, 4404}
Lost == 1006
RetriedCloseCodes ==
    ({CloseCode[n] : n \in DOMAIN CloseCode} \cup {Lost})
        \ (FATAL_CLOSE_CODES \cup {CloseCode.unauthorized})

\* Only a server that was asked closes with a code of its own.
Says(c) == c # Lost => Asked \/ link = "live"

\* #onClose on a fatal code: unsupported protocol, channel inactive, not found.
ClosedFatally ==
    /\ \E c \in FATAL_CLOSE_CODES : Says(c)
    /\ Hangup /\ Shut
    /\ refreshT' = FALSE
    /\ UNCHANGED <<stage, early, welcomed, hasId, policy, calls, token, refreshing, stray>>

\* #onClose on any other close, of a connection that did or did not open.
Drops ==
    /\ \E c \in RetriedCloseCodes : Says(c)
    /\ Hangup
    /\ refreshT' = FALSE
    /\ ScheduleReconnect(link # "dialing")
    /\ UNCHANGED <<stage, early, welcomed, hasId, authRej, calls, token, refreshing, stray>>

Disconnect ==
    /\ ~stopped
    /\ Shut
    /\ refreshT' = FALSE
    /\ early' = (stage # "started")
    /\ IF transport THEN Hangup ELSE UNCHANGED wire
    /\ UNCHANGED <<stage, welcomed, hasId, policy, calls, token, refreshing, stray>>

-----------------------------------------------------------------------------
\* client.conversation(id): the client fetched a token when it was created.
Init ==
    /\ stage = "new" /\ st = "idle" /\ stopped = FALSE /\ welcomed = FALSE
    /\ ready = "none" /\ hasId = FALSE
    /\ idx = 1 /\ failures = 0 /\ attempt = 0 /\ authRej = 0
    /\ calls = {} /\ armed = FALSE
    /\ transport = FALSE /\ socks = 0 /\ link = "none" /\ used = "cur" /\ authSent = FALSE
    /\ cur \in {"good", "near", "expired", "refused"} /\ pend = FALSE /\ scoped \in BOOLEAN
    /\ refreshT = FALSE /\ refreshing = FALSE /\ stray = FALSE
    /\ rejected = FALSE /\ failed = FALSE /\ early = FALSE /\ authRefused = FALSE

Answers == ProviderAnswers \/ ProviderFails \/ StrayAnswers \/ RestAnswers \/ RestFails
Timers  == ReconnectDue \/ RefreshDue
Network == Opens \/ Welcome \/ ClosedUnauthorized \/ ClosedFatally \/ Drops
Next ==
    \/ Start \/ Resume \/ Loaded \/ Disconnect
    \/ Answers \/ Timers \/ Network
    \/ Ages \/ TokenRefreshed \/ AuthRefused \/ TokenExpired

Spec == Init /\ [][Next]_vars

\* The store is read, an armed timer fires, a request is answered or fails, and an
\* attempt ends in a welcome or a close (connectTimeoutMs); an open session is
\* owed nothing.
FairSpec ==
    /\ Spec
    /\ WF_vars(Loaded) /\ WF_vars(ReconnectDue) /\ WF_vars(RefreshDue)
    /\ WF_vars(ProviderAnswers \/ ProviderFails) /\ WF_vars(StrayAnswers)
    /\ WF_vars(RestAnswers \/ RestFails)
    /\ WF_vars(link # "live" /\ Network)

-----------------------------------------------------------------------------
\* Properties.

\* A session that was opened and not closed is never forgotten and never
\* connected twice: exactly one of a #connect call, a transport and an armed
\* reconnect timer is there; the network holds the transport's connection and no
\* other.  A closed one has none of them (disconnect() during an await of
\* #connect, a late close, a late token).
OneAttempt ==
    LET live == {c \in calls : Valid(c)} IN
    /\ socks = IF transport THEN 1 ELSE 0
    /\ stopped => ~transport /\ ~armed
    /\ stage = "started" /\ ~stopped =>
          \/ live # {} /\ ~transport /\ ~armed
          \/ live = {} /\ transport /\ ~armed
          \/ live = {} /\ ~transport /\ armed
    /\ \A c, d \in live : c = d

\* conversation.ts:266-267 "Resolves on the first welcome; rejects when the session
\* closes for good before that": a closed session leaves nobody waiting for start()
\* or resume(), unless disconnect() was called before #open created the promise.
ReadySettled ==
    stopped /\ ready = "open" => early

\* While the session is open somebody will renew its token: the refresh timer, a
\* #refresh that waits, or an auth frame that is unanswered; unless the server
\* refused the auth frame, after which the session runs into close 4401.
RefreshOwed ==
    st = "open" => refreshT \/ refreshing \/ stray \/ authSent \/ authRefused
                   \/ link = "expiring"

\* conversation.ts:520 "never with the same credential": a token the server closed
\* 4401 on is presented again only while the provider has not answered, or after
\* it failed.
RejectedIsReplaced ==
    [][~transport /\ transport' /\ rejected' => pend \/ failed]_vars

\* Every loss of the connection ends in an open session or in a closed one.
Reconnects ==
    st \in {"connecting", "reconnecting"} ~> st \in {"open", "closed"}
=============================================================================
