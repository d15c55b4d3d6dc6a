------------------------------- MODULE Reply --------------------------------
(***************************************************************************)
(* What a turn's handler sends (agent-ts/src/reply.ts): messages, one      *)
(* stream of deltas flushed in chunks, the typing indicator, and end(),    *)
(* which runs after the handler returned and waits at every send.  The     *)
(* frames go through the queue of AgentSends.                              *)
(***************************************************************************)
EXTENDS AgentSends

CONSTANTS
    Modes,      \* stream modes: "genui", "text", "genui+text"
    MaxOps      \* what a handler does before it returns

ASSUME ReplyAssumption == MaxOps \in Nat

VARIABLES
    mode,
    run,        \* a turn's reply, with `run` frames; or agent.reply(), without
    phase,      \* "none", "run", then the steps of end(), then "over"
    await,      \* the frame end() waits for, or <<>>
    texts,      \* reply.text() calls
    written,    \* deltas written
    taken,      \* deltas that left the buffer
    flushT,     \* StreamImpl #timer
    flushes,    \* links of the #flushing chain that have not run
    chunk,      \* the chunk the chain waits for, or <<>>
    genuiOpen,
    typingOn,
    typingP,    \* typing(true) waits for its frame
    typingT     \* the interval that refreshes the indicator

reply == <<mode, run, phase, await, texts, written, taken, flushT, flushes, chunk, genuiOpen,
           typingOn, typingP, typingT>>

Frame(type, from, to) == [type |-> type, from |-> from, to |-> to]
Run(s)      == Frame("run", s, s)        \* 0 started, 1 how the run ended
Text(k)     == Frame("text", k, k)
\* Seeded fault: the buffer is not emptied by a flush.
ChunkFromStart == Frame("genui", 1, written)
StreamText  == Frame("streamText", 1, written)
Chunk       == Frame("genui", taken + 1, written)
StreamDone  == Frame("stream_done", 0, 0)
Typing(on)  == Frame("typing", on, on)
ToolCall(k) == Frame("tool_call", k, k)
Ui(k)       == Frame("ui", k, k)         \* a genui frame of its own

\* How many frames of a type the handler asked to send.
Sent(type) == Cardinality({f \in DOMAIN outcome : f.type = type})

Settled(f) == f = <<>> \/ (f \in DOMAIN outcome /\ outcome[f] # "pending")

\* What a send leaves alone.
Rest == UNCHANGED <<conn, retrying, paused, back, received, faults, marks>>

\* The indicator is no longer refreshed.
StopTypingTimer == typingT' = FALSE

\* A turn reached the agent: `run started`.  A proactive reply needs no connection.
ReplyBegins ==
    /\ phase = "none" /\ running /\ (run => link = "open")
    /\ phase' = "run"
    /\ IF run THEN Enqueue(Run(0)) /\ Rest ELSE UNCHANGED agent
    /\ UNCHANGED <<mode, run, await, texts, written, taken, flushT, flushes, chunk, genuiOpen,
                   typingOn, typingP, typingT>>

\* The handler is running and does one more thing.
More ==
    /\ phase = "run"
    /\ texts + written + Sent("typing") + Sent("tool_call") + Sent("ui") < MaxOps

\* message(): also hides the indicator.
HandlerText ==
    /\ More
    /\ texts' = texts + 1
    /\ StopTypingTimer /\ typingOn' = FALSE
    /\ Enqueue(Text(texts')) /\ Rest
    /\ UNCHANGED <<mode, run, phase, await, written, taken, flushT, flushes, chunk, genuiOpen,
                   typingP>>

\* toolCall(): the tool runs, then it is done.
HandlerCallsTool ==
    /\ More
    /\ Enqueue(ToolCall(Sent("tool_call"))) /\ Rest
    /\ UNCHANGED reply

\* ui(): a chunk that does not wait for the stream's.
HandlerShowsUi ==
    /\ More
    /\ genuiOpen' = TRUE
    /\ Enqueue(Ui(Sent("ui"))) /\ Rest
    /\ UNCHANGED <<mode, run, phase, await, texts, written, taken, flushT, flushes, chunk,
                   typingOn, typingP, typingT>>

HandlerWrites ==
    /\ More
    /\ written' = written + 1
    /\ flushT' = (mode # "text")
    /\ UNCHANGED <<agent, mode, run, phase, await, texts, taken, flushes, chunk, genuiOpen,
                   typingOn, typingP, typingT>>

\* typing(true): the interval starts when the frame is written.
HandlerTypes ==
    /\ More /\ Typing(1) \notin DOMAIN outcome
    /\ StopTypingTimer /\ typingOn' = TRUE /\ typingP' = TRUE
    /\ Enqueue(Typing(1)) /\ Rest
    /\ UNCHANGED <<mode, run, phase, await, texts, written, taken, flushT, flushes, chunk,
                   genuiOpen>>

TypingSent ==
    /\ typingP /\ Settled(Typing(1))
    /\ typingP' = FALSE
    /\ typingT' = (outcome[Typing(1)] = "resolved")
    /\ UNCHANGED <<agent, mode, run, phase, await, texts, written, taken, flushT, flushes, chunk,
                   genuiOpen, typingOn>>

FlushDue ==
    /\ flushT
    /\ flushT' = FALSE /\ flushes' = flushes + 1
    /\ UNCHANGED <<agent, mode, run, phase, await, texts, written, taken, chunk, genuiOpen,
                   typingOn, typingP, typingT>>

\* A link of the chain: what was written until now goes out as one chunk.
Flush ==
    /\ flushes > 0 /\ Settled(chunk)
    /\ flushes' = flushes - 1
    /\ IF mode = "text" \/ taken = written
       THEN UNCHANGED <<agent, chunk, taken, genuiOpen>>
       ELSE /\ chunk' = Chunk /\ taken' = written /\ genuiOpen' = TRUE
            /\ Enqueue(Chunk) /\ Rest
    /\ UNCHANGED <<mode, run, phase, await, texts, written, flushT, typingOn, typingP, typingT>>

-----------------------------------------------------------------------------
\* end(): #finish.

HandlerReturns ==
    /\ phase = "run"
    /\ phase' = "streams" /\ StopTypingTimer
    /\ flushT' = FALSE /\ flushes' = IF written > 0 THEN flushes + 1 ELSE flushes
    /\ UNCHANGED <<agent, mode, run, await, texts, written, taken, chunk, genuiOpen, typingOn,
                   typingP>>

\* StreamImpl #end after its last flush.
EndStream ==
    /\ phase = "streams" /\ flushes = 0 /\ Settled(chunk)
    /\ phase' = "typing"
    /\ IF mode # "genui" /\ written > 0
       THEN /\ await' = StreamText /\ typingOn' = FALSE /\ StopTypingTimer
            /\ Enqueue(StreamText) /\ Rest
       ELSE UNCHANGED <<agent, await, typingOn, typingT>>
    /\ UNCHANGED <<mode, run, texts, written, taken, flushT, flushes, chunk, genuiOpen, typingP>>

\* The steps of #finish that follow, each once the previous send is settled.
EndTyping ==
    /\ phase = "typing" /\ Settled(await)
    /\ phase' = "genui" /\ typingOn' = FALSE
    /\ IF typingOn THEN await' = Typing(0) /\ Enqueue(Typing(0)) /\ Rest
                   ELSE UNCHANGED <<agent, await>>
    /\ UNCHANGED <<mode, run, texts, written, taken, flushT, flushes, chunk, genuiOpen, typingP,
                   typingT>>

EndGenui ==
    /\ phase = "genui" /\ Settled(await)
    /\ phase' = "ending" /\ genuiOpen' = FALSE
    /\ IF genuiOpen THEN await' = StreamDone /\ Enqueue(StreamDone) /\ Rest
                    ELSE UNCHANGED <<agent, await>>
    /\ UNCHANGED <<mode, run, texts, written, taken, flushT, flushes, chunk, typingOn, typingP,
                   typingT>>

EndRun ==
    /\ phase = "ending" /\ Settled(await)
    /\ phase' = "over"
    /\ IF run THEN await' = Run(1) /\ Enqueue(Run(1)) /\ Rest
              ELSE UNCHANGED <<agent, await>>
    /\ UNCHANGED <<mode, run, texts, written, taken, flushT, flushes, chunk, genuiOpen, typingOn,
                   typingP, typingT>>

ReplyInit ==
    /\ mode \in Modes /\ run \in BOOLEAN /\ phase = "none" /\ await = <<>> /\ texts = 0 /\ written = 0
    /\ taken = 0 /\ flushT = FALSE /\ flushes = 0 /\ chunk = <<>> /\ genuiOpen = FALSE
    /\ typingOn = FALSE /\ typingP = FALSE /\ typingT = FALSE

Handler ==
    \/ ReplyBegins \/ HandlerText \/ HandlerCallsTool \/ HandlerShowsUi
    \/ HandlerWrites \/ HandlerTypes \/ HandlerReturns

Ends == EndStream \/ EndTyping \/ EndGenui \/ EndRun

Continues == TypingSent \/ FlushDue \/ Flush \/ Ends

Init == AgentInit /\ ReplyInit
Next == (AgentNext /\ UNCHANGED reply) \/ Handler \/ Continues

vars == <<agent, reply>>
Spec == Init /\ [][Next]_vars

\* Timers fire (a deadline too), handlers return and continuations run.
FairSpec ==
    /\ Spec
    /\ WF_vars(Tick(TRUE, 0) /\ UNCHANGED reply)
    /\ WF_vars((\E f \in retrying : RetryDue(f)) /\ UNCHANGED reply)
    /\ WF_vars(HandlerReturns \/ Continues)

-----------------------------------------------------------------------------
\* Properties.

Genui == SelectSeq(received, LAMBDA f : f.type \in {"genui", "ui", "stream_done"})

\* reply.ts:396 "Chain flushes so chunks keep their order" and end(): whatever
\* happens to the connection, the chunks the server gets are in the order of the
\* deltas and stream_done comes after every chunk; and a run reported ended lost no
\* delta, unless a connection was lost or a send was rejected.
StreamInOrder ==
    /\ \A i, j \in DOMAIN Genui : i < j =>
           /\ Genui[i].type # "stream_done"
           /\ Genui[i].type = "genui" /\ Genui[j].type = "genui" => Genui[i].to < Genui[j].from
    /\ /\ Run(1) \in Range(received) /\ ~dropped
       /\ \A f \in DOMAIN outcome : outcome[f] # "rejected"
       => /\ mode # "text" =>
               \A d \in 1..written : \E i \in DOMAIN Genui :
                   Genui[i].type = "genui" /\ Genui[i].from <= d /\ d <= Genui[i].to
          /\ mode # "genui" /\ written > 0 => StreamText \in Range(received)

\* agent.ts #tick and end(): every send settles and the turn comes to its end,
\* save for sends nothing will settle and the end() that waits for one of them.
SendsSettle ==
    <>[](/\ Pending \subseteq abandoned
         /\ phase \in {"none", "over"} \/ await \in abandoned \/ chunk \in abandoned)
=============================================================================
