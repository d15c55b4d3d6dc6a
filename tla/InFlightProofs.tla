----------------------------- MODULE InFlightProofs -----------------------------
(***************************************************************************)
(* Proofs about the in-flight cap, for every set of processes, every cap   *)
(* and any number of restarts of the server.                               *)
(***************************************************************************)
EXTENDS InFlight, FiniteSetTheorems, TLAPS

-----------------------------------------------------------------------------
(* The inductive invariant *)

Running == {p \in Procs : pc[p] = "running"}

\* A process is in one stage: what is in the mailbox about it agrees with it.
Stages ==
  /\ \A p \in calls : p \notin slots /\ pc[p] \in {"asking", "gone"}
  /\ \A p \in casts : pc[p] \in {"leaving", "gone"}
  /\ \A p \in downs : pc[p] = "gone"
  /\ \A p \in slots : pc[p] # "new"

\* The server never hands out more than Cap slots.
Capped == count <= Cap

\* Running deliveries without a slot are those a restart forgot.
Forgotten == Cardinality(Running \ slots) <= Cap * restarts

\* Types, with the counter tied to the slots.
Counted == TypeOK /\ SlotsCounted

IInv == Counted /\ Stages /\ SlotIsWatched /\ Capped /\ Forgotten

-----------------------------------------------------------------------------
(* Facts about the sets of processes *)

\* Any set of processes is finite, and adding or removing one changes its
\* cardinality by at most one.
LEMMA ProcSets ==
  ASSUME NEW S, S \subseteq Procs
  PROVE  /\ IsFiniteSet(S)
         /\ Cardinality(S) \in Nat
         /\ \A p : p \notin S => Cardinality(S \union {p}) = Cardinality(S) + 1
         /\ \A p : p \in S => Cardinality(S \ {p}) = Cardinality(S) - 1
         /\ \A T : T \subseteq S => Cardinality(T) <= Cardinality(S)
<1>1. IsFiniteSet(S)
  BY FS_Subset, InFlightAssumption
<1>2. Cardinality(S) \in Nat
  BY <1>1, FS_CardinalityType
<1>3. \A p : p \notin S => Cardinality(S \union {p}) = Cardinality(S) + 1
  BY <1>1, FS_AddElement
<1>4. \A p : p \in S => Cardinality(S \ {p}) = Cardinality(S) - 1
  BY <1>1, FS_RemoveElement
<1>5. \A T : T \subseteq S => Cardinality(T) <= Cardinality(S)
  BY <1>1, FS_Subset
<1> QED
  BY <1>1, <1>2, <1>3, <1>4, <1>5

\* A set of processes is no larger than what it has inside and outside
\* another one.
LEMMA SplitCardinality ==
  ASSUME NEW S, S \subseteq Procs, NEW T, T \subseteq Procs
  PROVE  Cardinality(S) <= Cardinality(T) + Cardinality(S \ T)
<1>1. /\ IsFiniteSet(T) /\ IsFiniteSet(S \ T)
      /\ Cardinality(T) \in Nat /\ Cardinality(S \ T) \in Nat
      /\ Cardinality(S) \in Nat /\ Cardinality(T \union S) \in Nat
      /\ Cardinality(T \intersect (S \ T)) \in Nat
  <2>1. IsFiniteSet(T) /\ Cardinality(T) \in Nat
    BY ProcSets
  <2>2. IsFiniteSet(S \ T) /\ Cardinality(S \ T) \in Nat
    BY ProcSets, S \ T \subseteq Procs
  <2>3. Cardinality(S) \in Nat
    BY ProcSets
  <2>4. Cardinality(T \union S) \in Nat
    BY ProcSets, T \union S \subseteq Procs
  <2>5. Cardinality(T \intersect (S \ T)) \in Nat
    BY ProcSets, T \intersect (S \ T) \subseteq Procs
  <2> QED
    BY <2>1, <2>2, <2>3, <2>4, <2>5
<1>2. Cardinality(T \union (S \ T))
        = Cardinality(T) + Cardinality(S \ T) - Cardinality(T \intersect (S \ T))
  BY <1>1, FS_Union
<1>3. T \union (S \ T) = T \union S
  OBVIOUS
<1>4. Cardinality(S) <= Cardinality(T \union S)
  BY ProcSets, T \union S \subseteq Procs, S \subseteq T \union S
<1>5. Cardinality(T \union S)
        = Cardinality(T) + Cardinality(S \ T) - Cardinality(T \intersect (S \ T))
  BY <1>2, <1>3
<1> QED
  BY <1>1, <1>4, <1>5

-----------------------------------------------------------------------------
(* One lemma per conjunct of the invariant *)

LEMMA TypeStep ==
  ASSUME Counted, Stages, [Next]_vars
  PROVE  Counted'
<1> USE DEF Counted, TypeOK, SlotsCounted
<1>1. ASSUME NEW p \in Procs, Acquire(p) PROVE Counted'
  BY <1>1 DEF Acquire
<1>2. ASSUME NEW p \in Procs, Release(p) PROVE Counted'
  BY <1>2 DEF Release
<1>3. ASSUME NEW p \in Procs, Exit(p) PROVE Counted'
  BY <1>3 DEF Exit
<1>4. ASSUME NEW p \in Procs, Grant(p) PROVE Counted'
  <2>1. p \notin slots
    BY <1>4 DEF Grant, Stages
  <2>2. Cardinality(slots \union {p}) = Cardinality(slots) + 1
    BY <2>1, ProcSets
  <2> QED
    BY <1>4, <2>2 DEF Grant
<1>5. ASSUME NEW p \in Procs, Refuse(p) PROVE Counted'
  BY <1>5 DEF Refuse
<1>6. ASSUME NEW p \in Procs, Free(p)
      PROVE  /\ slots' \subseteq Procs /\ demoted' \in BOOLEAN
             /\ count' = Cardinality(slots') /\ count' \in Nat
  <2>1. p \in slots => Cardinality(slots \ {p}) = Cardinality(slots) - 1
    BY ProcSets
  <2>2. p \notin slots => slots \ {p} = slots
    OBVIOUS
  <2>3. slots' \subseteq Procs /\ count' = Cardinality(slots')
    BY <1>6, <2>1, <2>2 DEF Free
  <2>4. demoted' = (demoted /\ (p \in slots => count' > 0))
    BY <1>6 DEF Free
  <2>5. demoted' \in BOOLEAN
    BY <2>4, Zenon
  <2>6. count' \in Nat
    BY <2>3, ProcSets
  <2> QED
    BY <2>3, <2>5, <2>6
<1>7. ASSUME NEW p \in Procs, HandleRelease(p) PROVE Counted'
  BY <1>6, <1>7 DEF HandleRelease
<1>8. ASSUME NEW p \in Procs, HandleDown(p) PROVE Counted'
  BY <1>6, <1>8 DEF HandleDown
<1>9. ASSUME WindowEnds PROVE Counted'
  BY <1>9 DEF WindowEnds
<1>10. ASSUME Restart PROVE Counted'
  <2>1. count' = Cardinality(slots') /\ count' \in Nat
    BY <1>10, FS_EmptySet DEF Restart
  <2>2. pc' \in [Procs -> {"new", "asking", "running", "leaving", "gone"}]
    BY <1>10 DEF Restart
  <2>3. restarts' \in Nat
    BY <1>10 DEF Restart
  <2>4. demoted' \in BOOLEAN
    BY <1>10 DEF Restart
  <2>5. /\ calls' \subseteq Procs /\ casts' \subseteq Procs /\ downs' \subseteq Procs
        /\ monitored' \subseteq Procs /\ slots' \subseteq Procs
    BY <1>10 DEF Restart
  <2> QED
    BY <2>1, <2>2, <2>3, <2>4, <2>5
<1>11. ASSUME UNCHANGED vars PROVE Counted'
  BY <1>11 DEF vars
<1> QED
  BY <1>1, <1>2, <1>3, <1>4, <1>5, <1>7, <1>8, <1>9, <1>10, <1>11 DEF Next

LEMMA StagesStep ==
  ASSUME Counted, Stages, [Next]_vars
  PROVE  Stages'
<1> USE DEF Counted, TypeOK, SlotsCounted, Stages
<1>1. ASSUME NEW p \in Procs, Acquire(p) PROVE Stages'
  BY <1>1 DEF Acquire
<1>2. ASSUME NEW p \in Procs, Release(p) PROVE Stages'
  BY <1>2 DEF Release
<1>3. ASSUME NEW p \in Procs, Exit(p) PROVE Stages'
  BY <1>3 DEF Exit
<1>4. ASSUME NEW p \in Procs, Grant(p) PROVE Stages'
  BY <1>4 DEF Grant
<1>5. ASSUME NEW p \in Procs, Refuse(p) PROVE Stages'
  BY <1>5 DEF Refuse
<1>7. ASSUME NEW p \in Procs, HandleRelease(p) PROVE Stages'
  BY <1>7 DEF HandleRelease, Free
<1>8. ASSUME NEW p \in Procs, HandleDown(p) PROVE Stages'
  BY <1>8 DEF HandleDown, Free
<1>9. ASSUME WindowEnds PROVE Stages'
  BY <1>9 DEF WindowEnds
<1>10. ASSUME Restart PROVE Stages'
  BY <1>10 DEF Restart
<1>11. ASSUME UNCHANGED vars PROVE Stages'
  BY <1>11 DEF vars
<1> QED
  BY <1>1, <1>2, <1>3, <1>4, <1>5, <1>7, <1>8, <1>9, <1>10, <1>11 DEF Next

LEMMA WatchedStep ==
  ASSUME Counted, Stages, SlotIsWatched, [Next]_vars
  PROVE  SlotIsWatched'
<1> USE DEF Counted, TypeOK, SlotsCounted, Stages, SlotIsWatched
<1>1. ASSUME NEW p \in Procs, Acquire(p) PROVE SlotIsWatched'
  BY <1>1 DEF Acquire
<1>2. ASSUME NEW p \in Procs, Release(p) PROVE SlotIsWatched'
  BY <1>2 DEF Release
<1>3. ASSUME NEW p \in Procs, Exit(p) PROVE SlotIsWatched'
  BY <1>3 DEF Exit
<1>4. ASSUME NEW p \in Procs, Grant(p) PROVE SlotIsWatched'
  BY <1>4 DEF Grant
<1>5. ASSUME NEW p \in Procs, Refuse(p) PROVE SlotIsWatched'
  BY <1>5 DEF Refuse
<1>7. ASSUME NEW p \in Procs, HandleRelease(p) PROVE SlotIsWatched'
  BY <1>7 DEF HandleRelease, Free
<1>8. ASSUME NEW p \in Procs, HandleDown(p) PROVE SlotIsWatched'
  BY <1>8 DEF HandleDown, Free
<1>9. ASSUME WindowEnds PROVE SlotIsWatched'
  BY <1>9 DEF WindowEnds
<1>10. ASSUME Restart PROVE SlotIsWatched'
  BY <1>10 DEF Restart
<1>11. ASSUME UNCHANGED vars PROVE SlotIsWatched'
  BY <1>11 DEF vars
<1> QED
  BY <1>1, <1>2, <1>3, <1>4, <1>5, <1>7, <1>8, <1>9, <1>10, <1>11 DEF Next

LEMMA CappedStep ==
  ASSUME Counted, Capped, [Next]_vars
  PROVE  Capped'
<1>1. count \in Nat /\ Cap \in Nat
  BY ProcSets, InFlightAssumption DEF Counted, TypeOK, SlotsCounted
<1>2. ASSUME NEW p \in Procs, Grant(p) PROVE Capped'
  BY <1>1, <1>2 DEF Grant, Full, Capped
<1>3. ASSUME NEW p \in Procs, Free(p) PROVE Capped'
  BY <1>1, <1>3 DEF Free, Capped
<1>4. ASSUME Restart PROVE Capped'
  BY <1>1, <1>4 DEF Restart, Capped
<1>5. ASSUME UNCHANGED count PROVE Capped'
  BY <1>5 DEF Capped
<1> QED
  BY <1>2, <1>3, <1>4, <1>5
     DEF Next, vars, Acquire, Release, Exit, Refuse, HandleRelease, HandleDown, WindowEnds

\* Only a restart makes running deliveries without a slot: a grant gives one,
\* and a slot is freed only after its process stopped running.
LEMMA ForgottenStep ==
  ASSUME Counted, Stages, Capped, Forgotten, [Next]_vars
  PROVE  Forgotten'
<1>1. /\ Running \subseteq Procs /\ slots \subseteq Procs
      /\ Cap \in Nat /\ restarts \in Nat /\ Cap * restarts \in Nat
      /\ Cardinality(Running \ slots) \in Nat
  <2>1. Running \ slots \subseteq Procs
    BY DEF Running
  <2>2. Cardinality(Running \ slots) \in Nat
    BY <2>1, ProcSets
  <2> QED
    BY <2>2, InFlightAssumption DEF Counted, TypeOK, SlotsCounted, Running
<1>2. ASSUME Running' \ slots' \subseteq Running \ slots, UNCHANGED restarts
      PROVE  Forgotten'
  <2>1. Cardinality(Running' \ slots') <= Cardinality(Running \ slots)
    BY <1>1, <1>2, ProcSets, Running \ slots \subseteq Procs
  <2>2. Cardinality(Running' \ slots') \in Nat
    BY <1>1, <1>2, ProcSets, Running' \ slots' \subseteq Procs
  <2> QED
    BY <1>1, <1>2, <2>1, <2>2 DEF Forgotten
<1>3. ASSUME NEW p \in Procs,
             Acquire(p) \/ Release(p) \/ Exit(p) \/ Refuse(p)
      PROVE  Running' \ slots' \subseteq Running \ slots /\ UNCHANGED restarts
  BY <1>3 DEF Acquire, Release, Exit, Refuse, Running, Counted, TypeOK, SlotsCounted
<1>4. ASSUME NEW p \in Procs, Grant(p)
      PROVE  Running' \ slots' \subseteq Running \ slots /\ UNCHANGED restarts
  BY <1>4 DEF Grant, Running, Counted, TypeOK, SlotsCounted
<1>5. ASSUME NEW p \in Procs, HandleRelease(p)
      PROVE  Running' \ slots' \subseteq Running \ slots /\ UNCHANGED restarts
  BY <1>5 DEF HandleRelease, Free, Running, Counted, TypeOK, SlotsCounted, Stages
<1>6. ASSUME NEW p \in Procs, HandleDown(p)
      PROVE  Running' \ slots' \subseteq Running \ slots /\ UNCHANGED restarts
  BY <1>6 DEF HandleDown, Free, Running, Counted, TypeOK, SlotsCounted, Stages
<1>7. ASSUME WindowEnds \/ UNCHANGED vars
      PROVE  Running' \ slots' \subseteq Running \ slots /\ UNCHANGED restarts
  BY <1>7 DEF WindowEnds, vars, Running
<1>8. ASSUME Restart PROVE Forgotten'
  <2>1. Running' \ slots' = Running
    BY <1>8 DEF Restart, Running, Counted, TypeOK, SlotsCounted
  <2>2. Cardinality(Running) <= Cardinality(slots) + Cardinality(Running \ slots)
    BY <1>1, SplitCardinality
  <2>3. Cardinality(slots) <= Cap
    BY DEF Counted, TypeOK, SlotsCounted, Capped
  <2>4. Cardinality(slots) \in Nat /\ Cardinality(Running) \in Nat
    BY <1>1, ProcSets
  <2>5. Cardinality(Running) <= Cap + Cap * restarts
    BY <1>1, <2>2, <2>3, <2>4 DEF Forgotten
  <2>6. Cap + Cap * restarts = Cap * (restarts + 1)
    BY <1>1
  <2> QED
    BY <1>8, <2>1, <2>5, <2>6 DEF Forgotten, Restart
<1> QED
  BY <1>2, <1>3, <1>4, <1>5, <1>6, <1>7, <1>8 DEF Next

-----------------------------------------------------------------------------
(* Theorems *)

LEMMA Initially ==
  ASSUME Init
  PROVE  IInv
<1>1. Counted
  BY FS_EmptySet DEF Init, Counted, TypeOK, SlotsCounted
<1>2. Stages /\ SlotIsWatched
  BY DEF Init, Stages, SlotIsWatched
<1>3. Capped
  BY InFlightAssumption DEF Init, Capped
<1>4. Forgotten
  <2>1. Running \ slots = {}
    BY DEF Init, Running
  <2> QED
    BY <2>1, FS_EmptySet, InFlightAssumption DEF Init, Forgotten
<1> QED
  BY <1>1, <1>2, <1>3, <1>4 DEF IInv

\* The inductive invariant holds throughout.
THEOREM Invariant == Spec => []IInv
<1>1. IInv /\ [Next]_vars => IInv'
  BY TypeStep, StagesStep, WatchedStep, CappedStep, ForgottenStep DEF IInv
<1> QED
  BY Initially, <1>1, PTL DEF Spec

\* Type correctness.
THEOREM Typing == Spec => []TypeOK
BY Invariant, PTL DEF IInv, Counted

\* The counter of a channel counts its slots: no sequence of releases, deaths
\* and late DOWN messages frees a slot twice.
THEOREM CountsSlots == Spec => []SlotsCounted
BY Invariant, PTL DEF IInv, Counted

\* A killed job process cannot leak its slot: whenever it dies, a monitor, a
\* release or a DOWN message is there to free it.
THEOREM NoLeak == Spec => []SlotIsWatched
BY Invariant, PTL DEF IInv

\* A node runs at most Cap deliveries of the channel for each life of the
\* server.
THEOREM CapIsKept == Spec => []CapHolds
<1>1. IInv => CapHolds
  <2> SUFFICES ASSUME IInv PROVE CapHolds
    OBVIOUS
  <2> USE DEF IInv
  <2>1. Running \subseteq Procs /\ slots \subseteq Procs
    BY DEF Running, Counted, TypeOK, SlotsCounted
  <2>2. Cardinality(Running) <= Cardinality(slots) + Cardinality(Running \ slots)
    BY <2>1, SplitCardinality
  <2>3. /\ Cardinality(slots) \in Nat /\ Cardinality(Running) \in Nat
        /\ Cardinality(Running \ slots) \in Nat
    BY <2>1, ProcSets, Running \ slots \subseteq Procs
  <2>4. Cap \in Nat /\ restarts \in Nat /\ Cap * restarts \in Nat
    BY InFlightAssumption DEF Counted, TypeOK, SlotsCounted
  <2>5. Cardinality(slots) <= Cap /\ Cardinality(Running \ slots) <= Cap * restarts
    BY DEF Counted, TypeOK, SlotsCounted, Capped, Forgotten
  <2>6. Cardinality(Running) <= Cap + Cap * restarts
    BY <2>2, <2>3, <2>4, <2>5
  <2>7. Cap + Cap * restarts = Cap * (1 + restarts)
    BY <2>4
  <2> QED
    BY <2>6, <2>7 DEF CapHolds, Running
<1> QED
  BY Invariant, <1>1, PTL
=============================================================================
