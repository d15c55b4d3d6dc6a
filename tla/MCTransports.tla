---- MODULE MCTransports ----
(***************************************************************************)
(* One connection attempt over any of the bindings.                        *)
(***************************************************************************)
EXTENDS AgentSocket, PhoenixTransport, SseTransport

vars == <<base, native, phoenix, sse>>

Init == BaseInit /\ NInit /\ PInit /\ SInit

Next ==
    \/ (NNext \/ ANext) /\ UNCHANGED <<phoenix, sse>>
    \/ PNext /\ UNCHANGED <<native, sse>>
    \/ SNext /\ UNCHANGED <<native, phoenix>>
    \/ (Posts \/ Dies) /\ UNCHANGED <<native, phoenix, sse>>

Spec == Init /\ [][Next]_vars

\* Timers fire, what has arrived is handled, and the platform settles a request.
FairSpec ==
    /\ Spec
    /\ WF_vars((NTimers \/ ATimers) /\ UNCHANGED <<phoenix, sse>>)
    /\ WF_vars((NReceive \/ AReceive) /\ UNCHANGED <<phoenix, sse>>)
    /\ WF_vars(PTimers /\ UNCHANGED <<native, sse>>)
    /\ WF_vars(PHandler /\ UNCHANGED <<native, sse>>)
    /\ WF_vars(((dead /\ SSilent) \/ SEvent \/ SError \/ SRefused) /\ UNCHANGED <<native, phoenix>>)

Contract == INSTANCE Transport

\* types.ts:66-73 and socket.ts:40-44: every binding makes the calls the session
\* or the agent relies on, in order: onOpen, the welcome, then frames, and onClose
\* exactly once, saying truly whether the connection was ever established.
ImplementsTransport == Contract!Spec

\* A peer that is gone without a word is noticed: by the tick, the heartbeat, the
\* liveness or the connect timer, whatever the attempt was waiting for.
DeadIsNoticed == dead ~> closed
====
