-------------------------- MODULE NativeTransport --------------------------
(***************************************************************************)
(* The native WebSocket binding (transport/native.ts) and, as far as it    *)
(* answers it, the endpoint: hello, welcome, pings and the close codes.    *)
(* The frames themselves are the subject of Session.tla.                   *)
(***************************************************************************)
EXTENDS Binding

VARIABLES
    nIn, nOut, \* frames on their way to the client and to the server
    ready      \* the endpoint's phase is :ready

native == <<nIn, nOut, ready>>

Native == binding = "native"

\* The bindings that speak to the endpoint's WebSocket.
Endpoint == binding \in {"native", "agent"}

\* connect(): the constructor may throw, which ends the attempt a turn later.
NConnect ==
    /\ Native /\ net = "none"
    /\ \/ net' = "asked" /\ connectT' = TRUE
       \/ net' = "failed" /\ UNCHANGED connectT
    /\ UNCHANGED <<binding, dead, opened, closed, code, calls, shown, acked, posted, log,
                   native>>

NConnectFailed ==
    /\ Native /\ net = "failed"
    /\ Finish(1006)
    /\ UNCHANGED <<binding, dead, opened, shown, acked, posted, log, native>>

\* socket.onopen: hello goes out first.
NOpen ==
    /\ Native /\ net = "asked" /\ ~dead
    /\ net' = "open" /\ opened' = TRUE
    /\ calls' = Append(calls, "open")
    /\ nOut' = <<"hello">>
    /\ UNCHANGED <<binding, dead, closed, connectT, code, shown, acked, posted, log, nIn, ready>>

\* The endpoint: welcome or a refusal to hello, an ack to a text, a heartbeat to
\* a ping, and live frames at any time after the welcome.
NServer ==
    /\ Endpoint /\ net = "open" /\ ~dead /\ nOut # <<>>
    /\ nOut' = Tail(nOut)
    /\ LET m == Head(nOut) IN
       \/ /\ m = "hello" /\ UNCHANGED log
          /\ \/ nIn' = <<"welcome">> /\ ready' = TRUE
             \/ nIn' = <<"error">> /\ UNCHANGED ready
       \/ /\ m = "ping" /\ UNCHANGED <<log, ready>>
          /\ nIn' = Append(nIn, IF ready THEN "heartbeat" ELSE "error")
       \/ /\ m \in Cids
          /\ nIn' = Append(nIn, m)
          /\ log' = IF Committed(m) THEN log ELSE Append(log, m)
          /\ UNCHANGED ready
    /\ UNCHANGED <<binding, net, dead, opened, closed, connectT, code, calls, shown, acked,
                   posted>>

\* socket.onmessage.
NReceive ==
    /\ Native /\ net = "open" /\ nIn # <<>>
    /\ nIn' = Tail(nIn)
    /\ LET m == Head(nIn) IN
       \/ /\ m = "welcome" /\ connectT' = FALSE
          /\ calls' = Append(calls, "welcome") /\ UNCHANGED acked
       \/ m = "error" /\ UNCHANGED <<connectT, calls, acked>>
       \/ m = "heartbeat" /\ OnFrame /\ UNCHANGED <<connectT, acked>>
       \/ /\ m \in Cids /\ OnFrame
          /\ acked' = [acked EXCEPT ![m] = @ + 1] /\ UNCHANGED connectT
    /\ UNCHANGED <<binding, net, dead, opened, closed, code, shown, posted, log, nOut,
                   ready>>

NSend(c) ==
    /\ Native /\ net = "open" /\ ~closed /\ Len(calls) >= 2 /\ c \notin posted
    /\ nOut' = Append(nOut, c)
    /\ posted' = posted \cup {c}
    /\ UNCHANGED <<binding, net, dead, opened, closed, connectT, code, calls, shown, acked,
                   log, nIn, ready>>

NConnectTimeout ==
    /\ Native /\ connectT
    /\ Finish(4000)
    /\ UNCHANGED <<binding, dead, opened, shown, acked, posted, log, native>>

\* #tick: a server that stayed silent past idleTimeoutMs and the grace is given
\* up; a client that stayed silent for half of it pings.  One ping is on the wire
\* at a time: more of them change nothing.
NTick ==
    /\ Native /\ net = "open"
    /\ \/ nIn = <<>> /\ Finish(4000) /\ UNCHANGED nOut
       \/ /\ nOut \o nIn = <<>> /\ ~dead
          /\ nOut' = <<"ping">>
          /\ UNCHANGED <<closed, connectT, code, calls, net>>
    /\ UNCHANGED <<binding, dead, opened, shown, acked, posted, log, nIn, ready>>

\* socket.onclose, whatever the server's code.
NClosed ==
    /\ Native /\ net \in {"asked", "open"} /\ ~dead
    /\ \E c \in {1006, 4401} : Finish(c)
    /\ UNCHANGED <<binding, dead, opened, shown, acked, posted, log, native>>

NClose ==
    /\ Native /\ net # "none"
    /\ Finish(1000)
    /\ UNCHANGED <<binding, dead, opened, shown, acked, posted, log, native>>

NInit == nIn = <<>> /\ nOut = <<>> /\ ready = FALSE

NTimers == NConnectTimeout \/ (dead /\ NTick)

NNext ==
    \/ NConnect \/ NConnectFailed \/ NOpen \/ NServer \/ NReceive \/ NClosed \/ NClose
    \/ NConnectTimeout \/ NTick \/ (\E c \in Cids : NSend(c))
=============================================================================
