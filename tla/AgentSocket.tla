---------------------------- MODULE AgentSocket ----------------------------
(***************************************************************************)
(* One connection attempt of the agent SDK (agent-ts/src/socket.ts) to the *)
(* endpoint of NativeTransport.tla: hello, pings, the connect timer and    *)
(* the close codes.  A text stands for any message the agent sends.        *)
(***************************************************************************)
EXTENDS NativeTransport

Agent == binding = "agent"

\* connect(): the constructor may throw, which ends the attempt a turn later.
AConnect ==
    /\ Agent /\ net = "none"
    /\ \/ net' = "asked" /\ connectT' = TRUE
       \/ net' = "failed" /\ UNCHANGED connectT
    /\ UNCHANGED <<binding, dead, opened, closed, code, calls, shown, acked, posted, log,
                   native>>

AConnectFailed ==
    /\ Agent /\ net = "failed"
    /\ Finish(1006)
    /\ UNCHANGED <<binding, dead, opened, shown, acked, posted, log, native>>

\* socket.onopen.
AOpen ==
    /\ Agent /\ net = "asked" /\ ~dead
    /\ net' = "open" /\ opened' = TRUE
    /\ nOut' = <<"hello">>
    /\ calls' = Append(calls, "open")
    /\ UNCHANGED <<binding, dead, closed, connectT, code, shown, acked, posted, log, nIn, ready>>

\* socket.onmessage: every message goes to the agent; the welcome ends the wait.
AReceive ==
    /\ Agent /\ net = "open" /\ nIn # <<>>
    /\ nIn' = Tail(nIn)
    /\ LET m == Head(nIn) IN
       /\ connectT' = (connectT /\ m # "welcome")
       /\ acked' = [c \in Cids |-> IF c = m THEN acked[c] + 1 ELSE acked[c]]
       /\ CASE m = "welcome" -> calls' = Append(calls, "welcome")
            [] m = "error"   -> UNCHANGED calls
            [] OTHER         -> OnFrame
    /\ UNCHANGED <<binding, net, dead, opened, closed, code, shown, posted, log, nOut, ready>>

\* send(): false unless the socket is open.
ASend(c) ==
    /\ Agent /\ net = "open" /\ ~closed /\ Len(calls) >= 2 /\ c \notin posted
    /\ nOut' = Append(nOut, c)
    /\ posted' = posted \cup {c}
    /\ UNCHANGED <<binding, net, dead, opened, closed, connectT, code, calls, shown, acked,
                   log, nIn, ready>>

AConnectTimeout ==
    /\ Agent /\ connectT
    /\ Finish(4000)
    /\ UNCHANGED <<binding, dead, opened, shown, acked, posted, log, native>>

\* #tick: the server's silence ends the attempt, the agent's own makes it ping.
ATick ==
    /\ Agent /\ net = "open"
    /\ \/ nIn = <<>> /\ Finish(4000) /\ UNCHANGED nOut
       \/ /\ nOut \o nIn = <<>> /\ ~dead
          /\ nOut' = <<"ping">>
          /\ UNCHANGED <<closed, connectT, code, calls, net>>
    /\ UNCHANGED <<binding, dead, opened, shown, acked, posted, log, nIn, ready>>

\* socket.onclose, and close() by the agent: #finish reports the first of them.
AClosed ==
    /\ Agent /\ net \in {"asked", "open"} /\ ~dead
    /\ \E c \in {1006, 4401} : Finish(c)
    /\ UNCHANGED <<binding, dead, opened, shown, acked, posted, log, native>>

AClose ==
    /\ Agent /\ net # "none"
    /\ Finish(1000)
    /\ UNCHANGED <<binding, dead, opened, shown, acked, posted, log, native>>

ATimers == AConnectTimeout \/ (dead /\ ATick)

ANext ==
    \/ AConnect \/ AConnectFailed \/ AOpen \/ AReceive \/ AClosed \/ AClose
    \/ AConnectTimeout \/ ATick \/ (\E c \in Cids : ASend(c))
=============================================================================
