-------------------------- MODULE AgentTurnsProofs --------------------------
(***************************************************************************)
(* For any conversations and any limits: the agent's turn slots are counted *)
(* and handed over exactly, and stop() aborts every running turn.          *)
(***************************************************************************)
EXTENDS AgentTurns, FiniteSetTheorems, TLAPS

States == {"none", "wait", "run", "asking", "history", "ending"}

Busy    == {c \in Convs : Running(c) \/ turn[c] = "ending"}
Waiting == {c \in Convs : turn[c] = "wait"}

IsMap(f) == f = [c \in Convs |-> f[c]]

Types ==
    /\ IsMap(until)
    /\ turn \in [Convs -> States] /\ aborted \in [Convs -> BOOLEAN]
    /\ active \in Nat /\ waiters \in Seq(Convs) /\ stopping \in BOOLEAN

\* Nobody waits twice, and a collector belongs to a turn that reads the history.
Orderly ==
    /\ \A i, j \in 1..Len(waiters) : waiters[i] = waiters[j] => i = j
    /\ \A c \in Convs : until[c] # 0 => turn[c] = "history"

IInv == Types /\ Orderly /\ SlotsExact /\ StopAborts

LEMMA InitIInv == Init => IInv
<1> SUFFICES ASSUME Init PROVE IInv
  OBVIOUS
<1>1. /\ turn = [c \in Convs |-> "none"] /\ aborted = [c \in Convs |-> FALSE]
      /\ until = [c \in Convs |-> 0] /\ active = 0 /\ waiters = <<>> /\ stopping = FALSE
  BY DEF Init
<1>2. Types
  <2>1. turn \in [Convs -> States]
    BY <1>1 DEF States
  <2>2. aborted \in [Convs -> BOOLEAN] /\ stopping \in BOOLEAN
    BY <1>1, Zenon
  <2>3. IsMap(until)
    BY <1>1 DEF IsMap
  <2>4. active \in Nat /\ waiters \in Seq(Convs)
    BY <1>1
  <2> QED BY <2>1, <2>2, <2>3, <2>4 DEF Types
<1>3. Orderly /\ StopAborts
  BY <1>1 DEF Orderly, StopAborts
<1>4. SlotsExact
  <2>1. {c \in Convs : Running(c) \/ turn[c] = "ending"} = {}
    BY <1>1 DEF Running
  <2>2. {c \in Convs : turn[c] = "wait"} = {}
    BY <1>1
  <2>3. Range(waiters) = {}
    BY <1>1 DEF Range
  <2>4. Cardinality({}) = 0
    BY FS_EmptySet
  <2>5. 0 <= MaxConcurrent
    BY TurnsAssumption
  <2> QED BY <1>1, <2>1, <2>2, <2>3, <2>4, <2>5 DEF SlotsExact
<1> QED BY <1>2, <1>3, <1>4 DEF IInv

\* A step after which the same turns hold a slot and the same turns wait.
LEMMA SameSlots ==
  ASSUME IInv, turn' \in [Convs -> States], aborted' \in [Convs -> BOOLEAN],
         stopping' \in BOOLEAN, UNCHANGED <<active, waiters>>,
         Busy' = Busy, Waiting' = Waiting, IsMap(until'),
         \A c \in Convs : until'[c] # 0 => turn'[c] = "history",
         StopAborts'
  PROVE  IInv'
<1>1. Types' /\ Orderly'
  BY DEF IInv, Types, Orderly
<1>2. SlotsExact'
  BY DEF IInv, SlotsExact, Busy, Waiting
<1> QED BY <1>1, <1>2 DEF IInv


LEMMA Aside ==
  ASSUME IInv, UNCHANGED <<turn, aborted, active, waiters, until, stopping, lateStart>>
  PROVE  IInv'
BY DEF IInv, Types, IsMap, Orderly, SlotsExact, StopAborts, Running

\* One running turn goes from one state that holds a slot to another.
LEMMA Moves ==
  ASSUME IInv, NEW c \in Convs, NEW s \in {"run", "asking", "history", "ending"},
         c \in Busy, turn' = [turn EXCEPT ![c] = s],
         aborted' \in [Convs -> BOOLEAN], \A d \in Convs : aborted[d] => aborted'[d],
         UNCHANGED <<active, waiters, stopping, lateStart>>, IsMap(until'),
         \A d \in Convs : until'[d] # 0 => until[d] # 0 \/ (d = c /\ s = "history"),
         until'[c] # 0 => s = "history",
         stopping => Running(c)
  PROVE  IInv'
<1>1. turn' \in [Convs -> States] /\ \A d \in Convs : turn'[d] = IF d = c THEN s ELSE turn[d]
  BY DEF IInv, Types, States
<1>2. Busy' = Busy
  BY <1>1 DEF Busy, Running
<1>3. Waiting' = Waiting
  BY <1>1 DEF Busy, Waiting, Running
<1>4. \A d \in Convs : until'[d] # 0 => turn'[d] = "history"
  BY <1>1 DEF IInv, Orderly
<1>5. StopAborts'
  <2>1. \A d \in Convs : Running(d)' => Running(d) \/ d = c
    BY <1>1 DEF Running
  <2> QED BY <2>1 DEF IInv, StopAborts
<1> QED BY <1>1, <1>2, <1>3, <1>4, <1>5, SameSlots DEF IInv, Types

\* A frame changes no turn, or is the last of a history().
LEMMA HistoryStep ==
  ASSUME IInv, NEW c,
         UNCHANGED <<aborted, active, waiters, stopping, lateStart>>,
         \/ UNCHANGED <<until, turn>>
         \/ until[c] # 0 /\ HistoryDone(c)
  PROVE  IInv'
<1>1. /\ UNCHANGED <<aborted, active, waiters, stopping, lateStart>>
      /\ \/ UNCHANGED <<until, turn>>
         \/ /\ until[c] # 0 /\ until' = [until EXCEPT ![c] = 0]
            /\ turn' = [turn EXCEPT ![c] = "run"]
  BY DEF HistoryDone
<1>2. CASE UNCHANGED <<until, turn>>
  BY <1>1, <1>2, Aside
<1>3. CASE until[c] # 0 /\ until' = [until EXCEPT ![c] = 0] /\ turn' = [turn EXCEPT ![c] = "run"]
  <2>1. CASE c \in Convs
    <3>1. turn[c] = "history"
      BY <1>3, <2>1 DEF IInv, Orderly
    <3>2. IsMap(until') /\ until'[c] = 0 /\ \A d \in Convs : until'[d] # 0 => until[d] # 0
      BY <1>3, <2>1 DEF IInv, Types, IsMap
    <3>3. c \in Busy /\ Running(c)
      BY <2>1, <3>1 DEF Busy, Running
    <3>4. aborted' \in [Convs -> BOOLEAN] /\ \A d \in Convs : aborted[d] => aborted'[d]
      BY <1>1 DEF IInv, Types
    <3> QED BY <1>1, <1>3, <2>1, <3>2, <3>3, <3>4, Moves
  <2>2. CASE c \notin Convs
    <3>1. turn' = turn /\ until' = until
      BY <1>3, <2>2 DEF IInv, Types, IsMap
    <3> QED BY <1>1, <3>1, Aside
  <2> QED BY <2>1, <2>2
<1> QED BY <1>1, <1>2, <1>3

LEMMA OnFrameStep ==
  ASSUME IInv, OnFrame
  PROVE  IInv'
BY HistoryStep DEF OnFrame, Comes

LEMMA TruncatedStep ==
  ASSUME IInv, OnReplayTruncated
  PROVE  IInv'
BY HistoryStep DEF OnReplayTruncated, Comes

LEMMA OnResumeStep ==
  ASSUME IInv, OnResume
  PROVE  IInv'
<1> DEFINE c == Head(inbox).conv
<1>1. /\ UNCHANGED <<aborted, active, waiters, until, stopping, lateStart>>
      /\ \/ turn' = turn
         \/ turn[c] = "asking" /\ turn' = [turn EXCEPT ![c] = "run"]
  BY DEF OnResume, Comes
<1>2. CASE turn' = turn
  BY <1>1, <1>2, Aside
<1>3. CASE turn[c] = "asking" /\ turn' = [turn EXCEPT ![c] = "run"] /\ c \in Convs
  BY <1>1, <1>3, Moves DEF Busy, Running, IInv, Types, Orderly
<1>4. CASE turn' = [turn EXCEPT ![c] = "run"] /\ c \notin Convs
  <2>1. turn' = turn
    BY <1>4 DEF IInv, Types
  <2> QED BY <1>1, <2>1, Aside
<1> QED BY <1>1, <1>2, <1>3, <1>4


LEMMA OnAbortStep ==
  ASSUME IInv, OnAbort
  PROVE  IInv'
<1> DEFINE c == Head(inbox).conv
<1>1. UNCHANGED <<active, waiters, until, stopping, lateStart>>
  BY DEF OnAbort, Comes
<1>2. CASE UNCHANGED <<aborted, turn>>
  BY <1>1, <1>2, Aside
<1>3. CASE /\ Running(c)
           /\ aborted' = [aborted EXCEPT ![c] = TRUE]
           /\ turn' = IF turn[c] = "asking" THEN [turn EXCEPT ![c] = "run"] ELSE turn
  <2>1. CASE c \in Convs
    <3>1. aborted' \in [Convs -> BOOLEAN] /\ \A d \in Convs : aborted[d] => aborted'[d]
      BY <1>3 DEF IInv, Types
    <3>2. PICK s \in {"run", "history"} : turn' = [turn EXCEPT ![c] = s] /\ (s = "run" => turn[c] # "history")
                                        /\ (s = "history" => turn[c] = "history")
      BY <1>3, <2>1 DEF Running, IInv, Types
    <3>3. c \in Busy
      BY <1>3, <2>1 DEF Busy
    <3>4. IsMap(until') /\ \A d \in Convs : until'[d] # 0 => turn[d] = "history"
      BY <1>1 DEF IInv, Types, Orderly, IsMap
    <3> QED BY <1>1, <1>3, <2>1, <3>1, <3>2, <3>3, <3>4, Moves
  <2>2. CASE c \notin Convs
    <3>1. turn' = turn /\ aborted' = aborted
      BY <1>3, <2>2 DEF IInv, Types
    <3> QED BY <1>1, <3>1, Aside
  <2> QED BY <2>1, <2>2
<1> QED BY <1>2, <1>3 DEF OnAbort

\* What the handler and its timeouts do while the turn keeps its slot.
LEMMA HandlerSteps ==
  ASSUME IInv, NEW c \in Convs,
         HandlerAsks(c) \/ AskTimeout(c) \/ HandlerReadsHistory(c) \/ HistoryTimeout(c)
         \/ HandlerReturns(c)
  PROVE  IInv'
<1>1. /\ UNCHANGED <<aborted, active, waiters, stopping, lateStart>>
      /\ turn[c] \in {"run", "asking", "history"}
  BY DEF HandlerAsks, WaitForAnswer, AskTimeout, HandlerReadsHistory, HistoryTimeout, HandlerReturns, Still, HistoryDone, ghosts
<1>2. c \in Busy /\ Running(c)
  BY <1>1 DEF Busy, Running
<1>3. aborted' \in [Convs -> BOOLEAN] /\ \A d \in Convs : aborted[d] => aborted'[d]
  BY <1>1 DEF IInv, Types
<1>4. IsMap(until) /\ \A d \in Convs : until[d] # 0 => turn[d] = "history"
  BY DEF IInv, Types, Orderly
<1>5. CASE HandlerAsks(c) \/ AskTimeout(c) \/ HandlerReturns(c)
  <2>1. PICK s \in {"asking", "run", "ending"} : turn' = [turn EXCEPT ![c] = s]
    BY <1>5 DEF HandlerAsks, WaitForAnswer, AskTimeout, HandlerReturns
  <2>2. until' = until /\ turn[c] # "history"
    BY <1>5 DEF HandlerAsks, WaitForAnswer, AskTimeout, HandlerReturns
  <2> QED BY <1>1, <1>2, <1>3, <1>4, <2>1, <2>2, Moves
<1>6. CASE HandlerReadsHistory(c)
  <2>1. turn' = [turn EXCEPT ![c] = "history"] /\ until' = [until EXCEPT ![c] = high[c]]
    BY <1>6 DEF HandlerReadsHistory
  <2>2. IsMap(until') /\ \A d \in Convs : until'[d] # 0 => until[d] # 0 \/ d = c
    BY <1>4, <2>1 DEF IsMap
  <2> QED BY <1>1, <1>2, <1>3, <2>1, <2>2, Moves
<1>7. CASE HistoryTimeout(c)
  <2>1. turn' = [turn EXCEPT ![c] = "run"] /\ until' = [until EXCEPT ![c] = 0]
    BY <1>7 DEF HistoryTimeout, HistoryDone
  <2>2. IsMap(until') /\ until'[c] = 0 /\ \A d \in Convs : until'[d] # 0 => until[d] # 0
    BY <1>4, <2>1 DEF IsMap
  <2> QED BY <1>1, <1>2, <1>3, <2>1, <2>2, Moves
<1> QED BY <1>5, <1>6, <1>7

LEMMA StopStep ==
  ASSUME IInv, Stop
  PROVE  IInv'
<1>1. /\ stopping' = TRUE /\ UNCHANGED <<active, waiters, lateStart>>
      /\ aborted' = [c \in Convs |-> aborted[c] \/ Running(c)]
      /\ turn' = [c \in Convs |-> IF turn[c] \in {"asking", "history"} THEN "run" ELSE turn[c]]
      /\ until' = [c \in Convs |-> 0]
  BY DEF Stop
<1>2. turn' \in [Convs -> States]
  BY <1>1 DEF IInv, Types, States
<1>3. aborted' \in [Convs -> BOOLEAN]
  BY <1>1
<1>4. Busy' = Busy /\ Waiting' = Waiting
  BY <1>1 DEF Busy, Waiting, Running
<1>5. IsMap(until') /\ \A c \in Convs : until'[c] = 0
  BY <1>1 DEF IsMap
<1>6. StopAborts'
  <2>1. \A c \in Convs : Running(c)' => Running(c)
    BY <1>1 DEF Running
  <2>2. \A c \in Convs : Running(c) => aborted'[c]
    BY <1>1
  <2> QED BY <2>1, <2>2 DEF StopAborts
<1> QED BY <1>1, <1>2, <1>3, <1>4, <1>5, <1>6, SameSlots


-----------------------------------------------------------------------------
LEMMA BusyFinite == IsFiniteSet(Busy) /\ Cardinality(Busy) \in Nat
<1>1. Busy \in SUBSET Convs
  BY DEF Busy
<1> QED BY <1>1, FS_Subset, FS_CardinalityType, TurnsAssumption

LEMMA TurnStartsStep ==
  ASSUME IInv, NEW c \in Convs, TurnStarts(c)
  PROVE  IInv'
<1>1. /\ UNCHANGED <<until, stopping, lateStart>> /\ turn[c] = "none"
      /\ aborted' = [aborted EXCEPT ![c] = FALSE]
  BY DEF TurnStarts, Still, ghosts
<1>2. /\ aborted' \in [Convs -> BOOLEAN]
      /\ \A d \in Convs : d # c => aborted'[d] = aborted[d]
      /\ IsMap(until') /\ until'[c] = 0
  BY <1>1 DEF IInv, Types, Orderly
<1>3. CASE UNCHANGED <<turn, active, waiters>>
  <2>1. StopAborts'
    BY <1>1, <1>2, <1>3 DEF IInv, StopAborts, Running
  <2> QED BY <1>1, <1>2, <1>3, <2>1, SameSlots DEF IInv, Types, Orderly, Busy, Waiting, Running
<1>4. CASE /\ ~stopping /\ active < MaxConcurrent
           /\ active' = active + 1 /\ turn' = [turn EXCEPT ![c] = "run"] /\ UNCHANGED waiters
  <2>1. turn' \in [Convs -> States] /\ \A d \in Convs : turn'[d] = IF d = c THEN "run" ELSE turn[d]
    BY <1>4 DEF IInv, Types, States
  <2>2. Busy' = Busy \cup {c} /\ c \notin Busy
    BY <1>1, <2>1 DEF Busy, Running
  <2>3. Waiting' = Waiting
    BY <1>1, <2>1 DEF Waiting
  <2>4. Cardinality(Busy') = Cardinality(Busy) + 1
    BY <2>2, BusyFinite, FS_AddElement
  <2>5. SlotsExact'
    BY <1>4, <2>3, <2>4, TurnsAssumption DEF IInv, Types, SlotsExact, Busy, Waiting
  <2>6. Types' /\ Orderly'
    BY <1>1, <1>2, <1>4, <2>1 DEF IInv, Types, Orderly
  <2> QED BY <1>1, <1>4, <2>5, <2>6 DEF IInv, StopAborts
<1>5. CASE /\ ~stopping /\ ~(active < MaxConcurrent) /\ UNCHANGED active
           /\ turn' = [turn EXCEPT ![c] = "wait"] /\ waiters' = Append(waiters, c)
  <2>1. turn' \in [Convs -> States] /\ \A d \in Convs : turn'[d] = IF d = c THEN "wait" ELSE turn[d]
    BY <1>5 DEF IInv, Types, States
  <2>2. Busy' = Busy /\ Waiting' = Waiting \cup {c} /\ c \notin Waiting
    BY <1>1, <2>1 DEF Busy, Waiting, Running
  <2>3. /\ waiters \in Seq(Convs) /\ Waiting = Range(waiters)
        /\ \A i, j \in 1..Len(waiters) : waiters[i] = waiters[j] => i = j
    BY DEF IInv, Types, Orderly, SlotsExact, Waiting
  <2>4. /\ waiters' \in Seq(Convs) /\ Len(waiters') = Len(waiters) + 1
        /\ waiters'[Len(waiters) + 1] = c
        /\ \A i \in 1..Len(waiters) : waiters'[i] = waiters[i] /\ waiters[i] # c
    BY <1>5, <2>2, <2>3 DEF Range
  <2>5. Range(waiters') = Waiting'
    <3>1. Range(waiters') = {waiters'[i] : i \in 1..(Len(waiters) + 1)}
      BY <2>4 DEF Range
    <3>2. Range(waiters) = {waiters[i] : i \in 1..Len(waiters)}
      BY <2>3 DEF Range
    <3> QED BY <2>2, <2>3, <2>4, <3>1, <3>2
  <2>6. \A i, j \in 1..Len(waiters') : waiters'[i] = waiters'[j] => i = j
    BY <2>3, <2>4
  <2>7. active = MaxConcurrent
    BY <1>5, TurnsAssumption DEF IInv, Types, SlotsExact
  <2>8. SlotsExact'
    BY <1>5, <2>2, <2>5, <2>7 DEF IInv, SlotsExact, Busy, Waiting
  <2>9. Types' /\ Orderly'
    BY <1>1, <1>2, <1>5, <2>1, <2>4, <2>6 DEF IInv, Types, Orderly
  <2> QED BY <1>1, <1>5, <2>8, <2>9 DEF IInv, StopAborts
<1> QED BY <1>3, <1>4, <1>5 DEF TurnStarts, Acquire

LEMMA TurnEndsStep ==
  ASSUME IInv, NEW c \in Convs, TurnEnds(c)
  PROVE  IInv'
<1>1. UNCHANGED <<until, stopping, aborted>> /\ turn[c] = "ending" /\ until[c] = 0
  BY DEF TurnEnds, Still, IInv, Orderly
<1>2. c \in Busy
  BY <1>1 DEF Busy
<1>3. CASE /\ waiters = <<>> /\ active' = active - 1 /\ turn' = [turn EXCEPT ![c] = "none"]
           /\ UNCHANGED <<waiters, lateStart>>
  <2>1. turn' \in [Convs -> States] /\ \A d \in Convs : turn'[d] = IF d = c THEN "none" ELSE turn[d]
    BY <1>3 DEF IInv, Types, States
  <2>2. Busy' = Busy \ {c} /\ Waiting' = Waiting
    BY <1>1, <2>1 DEF Busy, Waiting, Running
  <2>3. Cardinality(Busy') = Cardinality(Busy) - 1 /\ Cardinality(Busy') \in Nat
    <3>1. IsFiniteSet(Busy')
      BY <2>2, BusyFinite, FS_RemoveElement
    <3> QED BY <1>2, <2>2, <3>1, BusyFinite, FS_RemoveElement, FS_CardinalityType
  <2>4. active = Cardinality(Busy)
    BY DEF IInv, SlotsExact, Busy
  <2>5. SlotsExact' /\ active' \in Nat
    BY <1>3, <2>2, <2>3, <2>4, TurnsAssumption DEF IInv, Types, SlotsExact, Busy, Waiting
  <2>6. Types' /\ Orderly'
    BY <1>1, <1>3, <2>1, <2>5 DEF IInv, Types, Orderly
  <2>7. StopAborts'
    <3>1. \A d \in Convs : Running(d)' => Running(d)
      BY <2>1 DEF Running
    <3> QED BY <1>1, <1>3, <3>1 DEF IInv, StopAborts
  <2> QED BY <2>5, <2>6, <2>7 DEF IInv
<1>4. CASE /\ waiters # <<>> /\ turn' = [turn EXCEPT ![c] = "none", ![Head(waiters)] = "run"]
           /\ waiters' = Tail(waiters) /\ UNCHANGED active
           /\ lateStart' = IF stopping THEN lateStart \cup {Head(waiters)} ELSE lateStart
  <2> DEFINE w == Head(waiters)
  <2>1. /\ waiters \in Seq(Convs) /\ Waiting = Range(waiters)
        /\ \A i, j \in 1..Len(waiters) : waiters[i] = waiters[j] => i = j
    BY DEF IInv, Types, Orderly, SlotsExact, Waiting
  <2>2. /\ w = waiters[1] /\ w \in Convs /\ Len(waiters) \in Nat /\ Len(waiters) >= 1
        /\ waiters' \in Seq(Convs) /\ Len(waiters') = Len(waiters) - 1
        /\ \A i \in 1..Len(waiters') : waiters'[i] = waiters[i + 1]
    BY <1>4, <2>1
  <2>3. turn[w] = "wait" /\ w # c
    <3>1. w \in Range(waiters)
      BY <2>1, <2>2 DEF Range
    <3> QED BY <1>1, <2>1, <3>1 DEF Waiting
  <2>4. /\ turn' \in [Convs -> States]
        /\ \A d \in Convs : turn'[d] = IF d = c THEN "none" ELSE IF d = w THEN "run" ELSE turn[d]
    BY <1>4, <2>2, <2>3 DEF IInv, Types, States
  <2>5. Busy' = (Busy \ {c}) \cup {w} /\ w \notin Busy
    BY <2>2, <2>3, <2>4 DEF Busy, Running
  <2>6. Cardinality(Busy') = Cardinality(Busy)
    <3>1. /\ IsFiniteSet(Busy \ {c}) /\ Cardinality(Busy \ {c}) = Cardinality(Busy) - 1
      BY <1>2, BusyFinite, FS_RemoveElement
    <3>2. Cardinality((Busy \ {c}) \cup {w}) = Cardinality(Busy \ {c}) + 1
      BY <2>5, <3>1, FS_AddElement
    <3> QED BY <2>5, <3>1, <3>2, BusyFinite
  <2>7. Waiting' = Range(waiters')
    <3>1. Range(waiters) = {waiters[i] : i \in 1..Len(waiters)}
      BY <2>1 DEF Range
    <3>2. Range(waiters') = {waiters'[i] : i \in 1..(Len(waiters) - 1)}
      BY <2>2 DEF Range
    <3>3. Waiting' = Waiting \ {w}
      BY <1>1, <2>2, <2>4 DEF Waiting
    <3>4. ASSUME NEW d \in Range(waiters') PROVE d \in Waiting \ {w}
      <4>1. PICK i \in 1..(Len(waiters) - 1) : d = waiters[i + 1]
        BY <2>2, <3>2
      <4> QED BY <2>1, <2>2, <3>1, <4>1
    <3>5. ASSUME NEW d \in Waiting \ {w} PROVE d \in Range(waiters')
      <4>1. PICK i \in 1..Len(waiters) : d = waiters[i] /\ i # 1
        BY <2>1, <2>2, <3>1
      <4>2. i - 1 \in 1..(Len(waiters) - 1) /\ waiters'[i - 1] = d
        BY <2>2, <4>1
      <4> QED BY <3>2, <4>2
    <3> QED BY <3>3, <3>4, <3>5
  <2>8. \A i, j \in 1..Len(waiters') : waiters'[i] = waiters'[j] => i = j
    BY <2>1, <2>2
  <2>9. SlotsExact'
    BY <1>4, <2>6, <2>7 DEF IInv, SlotsExact, Busy, Waiting
  <2>10. Types' /\ Orderly'
    <3>1. Types'
      BY <1>1, <1>4, <2>2, <2>4 DEF IInv, Types
    <3>2. \A d \in Convs : until'[d] # 0 => turn'[d] = "history"
      BY <1>1, <2>3, <2>4 DEF IInv, Orderly
    <3> QED BY <2>8, <3>1, <3>2 DEF Orderly
  <2>11. StopAborts'
    <3>1. \A d \in Convs : Running(d)' => Running(d) \/ d = w
      BY <2>4 DEF Running
    <3> QED BY <1>1, <1>4, <3>1 DEF IInv, StopAborts
  <2> QED BY <2>9, <2>10, <2>11 DEF IInv
<1> QED BY <1>3, <1>4 DEF TurnEnds, Release


LEMMA StepIInv == IInv /\ [Next]_vars => IInv'
<1> SUFFICES ASSUME IInv, [Next]_vars PROVE IInv'
  OBVIOUS
<1>1. CASE UNCHANGED vars
  BY <1>1, Aside DEF vars, turns, ghosts
<1>2. CASE Drop \/ Reconnect \/ OnAck \/ OnReplayUnavailable \/ Stopped
  BY <1>2, Aside DEF Drop, Reconnect, OnAck, OnReplayUnavailable, Stopped, Comes, turns, ghosts
<1>3. CASE OnFrame \/ OnReplayTruncated \/ OnResume \/ OnAbort \/ Stop
  BY <1>3, OnFrameStep, TruncatedStep, OnResumeStep, OnAbortStep, StopStep
<1>4. ASSUME NEW c \in Convs,
             UserSays(c) \/ Push(c) \/ ServesSync(c) \/ UserAborts(c) \/ UserAnswers(c)
             \/ ResyncDue(c) \/ HandlerReplies(c)
      PROVE  IInv'
  BY <1>4, Aside DEF UserSays, Push, ServesSync, UserAborts, UserAnswers, ResyncDue, HandlerReplies, Still,
                     turns, ghosts
<1>5. ASSUME NEW c \in Convs,
             TurnStarts(c) \/ HandlerAsks(c) \/ AskTimeout(c) \/ HandlerReadsHistory(c)
             \/ HistoryTimeout(c) \/ HandlerReturns(c) \/ TurnEnds(c)
      PROVE  IInv'
  BY <1>5, TurnStartsStep, HandlerSteps, TurnEndsStep
<1> QED BY <1>1, <1>2, <1>3, <1>4, <1>5 DEF Next, Receive

-----------------------------------------------------------------------------
\* #acquire and #release count the slots of running turns exactly, never give out
\* more than maxConcurrentTurns, and let a turn wait only while all are in use.
THEOREM SlotsAreExact == Spec => []SlotsExact
<1>1. IInv => SlotsExact
  BY DEF IInv
<1> QED BY <1>1, InitIInv, StepIInv, PTL DEF Spec

\* After stop() every running turn was aborted, save those that got their slot from a
\* turn that ended later.
THEOREM StopAbortsTurns == Spec => []StopAborts
<1>1. IInv => StopAborts
  BY DEF IInv
<1> QED BY <1>1, InitIInv, StepIInv, PTL DEF Spec
=============================================================================
