-------------------------------- MODULE InFlight --------------------------------
(***************************************************************************)
(* Converger.Channels.InFlight: the GenServer that caps the deliveries of  *)
(* one channel running at once on a node, and the job processes that call  *)
(* it, run, release their slot, or are killed at any point.                *)
(*                                                                         *)
(* A process takes part once: it is its own slot reference.  Messages from *)
(* different processes arrive in any order, and one process has at most    *)
(* one call, one cast and one DOWN in the server's mailbox.                *)
(***************************************************************************)
EXTENDS Integers, FiniteSets

CONSTANTS
  Procs,        \* job processes
  Cap,          \* in_flight_cap/1 of the channel's queue
  MaxRestarts   \* bound: times the supervisor restarts the server

ASSUME InFlightAssumption ==
  IsFiniteSet(Procs) /\ Cap \in Nat \ {0} /\ MaxRestarts \in Nat

VARIABLES
  pc,        \* each process: "new", "asking", "running", "leaving" or "gone"
  calls,     \* processes whose acquire call is in the mailbox
  casts,     \* processes whose release cast is in the mailbox
  downs,     \* processes whose DOWN message is in the mailbox
  monitored, \* processes the server monitors
  count,     \* state.counts of the channel
  slots,     \* state.slots of the channel
  demoted,   \* state.demoted_at is within demote_ms
  restarts

vars == <<pc, calls, casts, downs, monitored, count, slots, demoted, restarts>>

Init ==
  /\ pc = [p \in Procs |-> "new"]
  /\ calls = {} /\ casts = {} /\ downs = {} /\ monitored = {}
  /\ count = 0 /\ slots = {} /\ demoted = FALSE /\ restarts = 0

-----------------------------------------------------------------------------
(* Job processes *)

\* acquire/3.
Acquire(p) ==
  /\ pc[p] = "new"
  /\ pc' = [pc EXCEPT ![p] = "asking"]
  /\ calls' = calls \union {p}
  /\ UNCHANGED <<casts, downs, monitored, count, slots, demoted, restarts>>

\* The worker's `after` clause: release/2.
Release(p) ==
  /\ pc[p] = "running"
  /\ pc' = [pc EXCEPT ![p] = "leaving"]
  /\ casts' = casts \union {p}
  /\ UNCHANGED <<calls, downs, monitored, count, slots, demoted, restarts>>

\* The process exits: its work is done, it is killed, or its call timed out.
Exit(p) ==
  /\ pc[p] \in {"asking", "running", "leaving"}
  /\ pc' = [pc EXCEPT ![p] = "gone"]
  /\ downs' = IF p \in monitored THEN downs \union {p} ELSE downs
  /\ monitored' = monitored \ {p}
  /\ UNCHANGED <<calls, casts, count, slots, demoted, restarts>>

-----------------------------------------------------------------------------
(* The server *)

\* handle_call: the channel is at its cap.
Full == count >= Cap

\* Seeded fault: the caller is not monitored.
GrantUnmonitored(p) ==
  /\ p \in calls /\ ~Full
  /\ calls' = calls \ {p}
  /\ count' = count + 1 /\ slots' = slots \union {p}
  /\ pc' = IF pc[p] = "asking" THEN [pc EXCEPT ![p] = "running"] ELSE pc
  /\ UNCHANGED <<casts, downs, monitored, demoted, restarts>>

\* handle_call({:acquire, ...}) under the cap; monitoring a process that is
\* gone sends its DOWN at once.
Grant(p) ==
  /\ p \in calls /\ ~Full
  /\ calls' = calls \ {p}
  /\ count' = count + 1 /\ slots' = slots \union {p}
  /\ IF pc[p] = "asking"
       THEN /\ pc' = [pc EXCEPT ![p] = "running"]
            /\ monitored' = monitored \union {p}
            /\ UNCHANGED downs
       ELSE /\ downs' = downs \union {p}
            /\ UNCHANGED <<pc, monitored>>
  /\ UNCHANGED <<casts, demoted, restarts>>

\* handle_call({:acquire, ...}) at the cap: {:full, demote?}.
Refuse(p) ==
  /\ p \in calls /\ Full
  /\ calls' = calls \ {p}
  /\ demoted' = TRUE
  /\ pc' = IF pc[p] = "asking" THEN [pc EXCEPT ![p] = "leaving"] ELSE pc
  /\ UNCHANGED <<casts, downs, monitored, count, slots, restarts>>

\* free/2.
Free(p) ==
  /\ slots' = slots \ {p}
  /\ count' = IF p \in slots THEN count - 1 ELSE count
  /\ demoted' = (demoted /\ (p \in slots => count' > 0))

\* handle_cast({:release, ref}): demonitor with flush, then free/2.
HandleRelease(p) ==
  /\ p \in casts
  /\ casts' = casts \ {p}
  /\ monitored' = monitored \ {p} /\ downs' = downs \ {p}
  /\ Free(p)
  /\ UNCHANGED <<pc, calls, restarts>>

\* handle_info({:DOWN, ...}).
HandleDown(p) ==
  /\ p \in downs
  /\ downs' = downs \ {p}
  /\ Free(p)
  /\ UNCHANGED <<pc, calls, casts, monitored, restarts>>

\* demote_ms passes.
WindowEnds ==
  /\ demoted
  /\ demoted' = FALSE
  /\ UNCHANGED <<pc, calls, casts, downs, monitored, count, slots, restarts>>

\* The server dies and is restarted with an empty state: callers that wait
\* exit, running deliveries go on.
Restart ==
  /\ restarts < MaxRestarts
  /\ restarts' = restarts + 1
  /\ pc' = [p \in Procs |-> IF pc[p] = "asking" THEN "gone" ELSE pc[p]]
  /\ calls' = {} /\ casts' = {} /\ downs' = {} /\ monitored' = {}
  /\ count' = 0 /\ slots' = {} /\ demoted' = FALSE

Next ==
  \/ \E p \in Procs :
       \/ Acquire(p) \/ Release(p) \/ Exit(p)
       \/ Grant(p) \/ Refuse(p) \/ HandleRelease(p) \/ HandleDown(p)
  \/ WindowEnds \/ Restart

Spec == Init /\ [][Next]_vars

\* The server handles its mailbox; a process that was let in or sent away
\* exits in the end.
FairSpec ==
  /\ Spec
  /\ \A p \in Procs :
       /\ WF_vars(Grant(p)) /\ WF_vars(Refuse(p))
       /\ WF_vars(HandleRelease(p)) /\ WF_vars(HandleDown(p))
       /\ WF_vars(Exit(p))

-----------------------------------------------------------------------------
(* Properties *)

TypeOK ==
  /\ pc \in [Procs -> {"new", "asking", "running", "leaving", "gone"}]
  /\ calls \subseteq Procs /\ casts \subseteq Procs /\ downs \subseteq Procs
  /\ monitored \subseteq Procs /\ slots \subseteq Procs
  /\ demoted \in BOOLEAN /\ restarts \in Nat
  /\ count \in Nat

\* The counter that decides about the cap counts the slots that are held: no
\* order of releases, deaths and late DOWN messages frees a slot twice
\* (free/2 pops the reference, and release demonitors with flush).
SlotsCounted == count = Cardinality(slots)

\* "A killed job cannot leak a slot": whenever and however a process dies, a
\* slot it holds is watched by a monitor or about to be freed by a message.
SlotIsWatched ==
  \A p \in slots : p \in casts \union downs \/ (p \in monitored /\ pc[p] # "gone")

\* A node runs at most max_in_flight deliveries of the channel, however calls,
\* releases, deaths and restarts of the server interleave: a restart forgets
\* the running ones and lets Cap more in.
CapHolds == Cardinality({p \in Procs : pc[p] = "running"}) <= Cap * (1 + restarts)

\* Every slot is given back.
SlotsComeBack == \A p \in Procs : p \in slots ~> p \notin slots
=============================================================================
