--------------------------- MODULE ActivityLogProofs ---------------------------
(***************************************************************************)
(* Proofs about ActivityLog for every set of processes, requests and keys, *)
(* every partition size and window, and every bound.                       *)
(*                                                                         *)
(* The argument is that of the comments on insert_with_seq/2: a process    *)
(* between next_seq/2 and its commit holds the row lock, nothing it read   *)
(* under the lock can change before it commits, and so the row it commits  *)
(* extends the log.                                                        *)
(***************************************************************************)
EXTENDS ActivityLog, TLAPS

\* Exactly the process between its next_seq/2 and its commit or rollback
\* holds the row lock.
LockHeld == \A p \in Procs : lockedBy = p <=> pc[p] \in {"locked", "inserted"}

\* x may be appended to the committed log as it is now.
Extends(x) ==
  /\ x \in Row
  /\ x.seq = lastSeq + 1
  /\ status = "active" \/ (status = "closed" /\ x.type \in Lifecycle)
  /\ \A y \in rows : x.key # NoKey => y.key # x.key
  /\ x.type \in {"messageUpdate", "messageDelete"} => x.target \notin deleted

\* What an open transaction knows stays true until it ends.
Pending ==
  \A p \in Procs :
    /\ pc[p] = "locked" => Accepts(req[p])
    /\ pc[p] = "inserted" => Extends(tx[p])
    /\ pc[p] = "committed" => tx[p] \in Row /\ tx[p].seq \in 1 .. lastSeq

\* A purge job exists only for a deleted conversation.
PurgeAfterDelete == purge => status = "deleted"

\* Every row ever committed has one of the numbers given out so far.
Numbered == \A x \in rows : x.seq \in 1 .. lastSeq

IInv ==
  /\ TypeOK /\ LockHeld /\ Pending /\ PurgeAfterDelete /\ Numbered
  /\ SeqGapFree /\ KeyUnique /\ DeleteIsFinal
  /\ OutboxComplete /\ BroadcastCommitted /\ NoOrphans

-----------------------------------------------------------------------------
\* The empty, unlocked conversation satisfies the invariant.
LEMMA InitIInv == Init => IInv
<1> SUFFICES ASSUME Init PROVE IInv
  OBVIOUS
<1> USE LogAssumption DEF Init
<1>1. TypeOK
  BY DEF TypeOK, Request, NoRequest, Event, Lifecycle, ReferenceTypes
<1>2. LockHeld /\ Pending /\ PurgeAfterDelete /\ Numbered
  BY DEF LockHeld, Pending, PurgeAfterDelete, Numbered
<1>3. SeqGapFree /\ KeyUnique /\ DeleteIsFinal
  BY DEF SeqGapFree, KeyUnique, DeleteIsFinal
<1>4. OutboxComplete /\ BroadcastCommitted /\ NoOrphans
  BY DEF OutboxComplete, BroadcastCommitted, NoOrphans
<1> QED
  BY <1>1, <1>2, <1>3, <1>4 DEF IInv

\* A request of a caller, and a lifecycle event, are well-formed.
LEMMA RequestTypes ==
  /\ Requests \subseteq Request
  /\ \A to : EventOf(to) \in Request /\ EventOf(to).type \in Lifecycle
  /\ NoRequest \in Request
BY LogAssumption DEF Request, EventOf, Event, NoRequest, Lifecycle, ReferenceTypes

\* The log is unchanged by p's step, and so is everything said about the log
\* and about the other processes.
LEMMA LogUnchanged ==
  ASSUME IInv, UNCHANGED log
  PROVE  /\ PurgeAfterDelete' /\ Numbered' /\ SeqGapFree' /\ KeyUnique'
         /\ DeleteIsFinal' /\ OutboxComplete' /\ NoOrphans'
         /\ \A x : Extends(x) => Extends(x)'
         /\ \A r : Accepts(r) => Accepts(r)'
BY DEF IInv, log, PurgeAfterDelete, Numbered, SeqGapFree, KeyUnique, DeleteIsFinal,
       OutboxComplete, NoOrphans, Extends, Accepts

\* A step that leaves the committed log alone preserves the invariant when it
\* keeps the types, the lock discipline and what open transactions know.
LEMMA LocalStep ==
  ASSUME IInv, UNCHANGED log, TypeOK', LockHeld', Pending', BroadcastCommitted'
  PROVE  IInv'
BY LogUnchanged DEF IInv

\* The optimistic fetch of create_activity/2.
LEMMA FetchStep ==
  ASSUME IInv, NEW p \in Procs, NEW r \in Requests, Fetch(p, r)
  PROVE  IInv'
<1>1. UNCHANGED log /\ UNCHANGED broadcast
  BY DEF Fetch
<1>2. TypeOK'
  <2>1. CASE Existing(r) # {}
    <3>1. \A x \in Existing(r) : x.seq \in Nat /\ r.key \in Keys
      BY RequestTypes DEF Existing, IInv, TypeOK, Row, Request
    <3> QED
      BY <2>1, <3>1, <1>1 DEF Fetch, IInv, TypeOK, log, proc, Ack
  <2>2. CASE Existing(r) = {}
    BY <2>2, <1>1, RequestTypes DEF Fetch, IInv, TypeOK, log, proc, Goto
  <2> QED BY <2>1, <2>2
<1>3. LockHeld' /\ Pending'
  BY <1>1, LogUnchanged DEF Fetch, IInv, TypeOK, LockHeld, Pending, Goto, proc, log
<1>4. BroadcastCommitted'
  BY <1>1 DEF IInv, BroadcastCommitted, log
<1> QED BY <1>1, <1>2, <1>3, <1>4, LocalStep

\* next_seq/2 takes the free lock of a conversation that accepts the request.
LEMMA NextSeqStep ==
  ASSUME IInv, NEW p \in Procs, NextSeq(p)
  PROVE  IInv'
<1>1. UNCHANGED log /\ UNCHANGED broadcast
  BY DEF NextSeq
<1>2. TypeOK'
  BY <1>1 DEF NextSeq, IInv, TypeOK, log, Goto
<1>3. LockHeld'
  BY LogAssumption DEF NextSeq, IInv, TypeOK, LockHeld, Goto
<1>4. Pending'
  BY <1>1, LogUnchanged DEF NextSeq, IInv, TypeOK, LockHeld, Pending, Goto, log
<1>5. BroadcastCommitted'
  BY <1>1 DEF IInv, BroadcastCommitted, log
<1> QED BY <1>1, <1>2, <1>3, <1>4, <1>5, LocalStep

\* A call that ends without a commit: its lock is released, if it held one.
LEMMA LeaveStep ==
  ASSUME IInv, NEW p \in Procs, Leave(p), UNCHANGED log,
         lockedBy' = IF lockedBy = p THEN Nobody ELSE lockedBy,
         acked' \subseteq Keys \X Nat, broadcast' \subseteq 1 .. lastSeq, UNCHANGED clock
  PROVE  IInv'
<1>1. TypeOK'
  BY RequestTypes DEF Leave, IInv, TypeOK, log, Goto
<1>2. LockHeld'
  BY LogAssumption DEF Leave, IInv, TypeOK, LockHeld, Goto
<1>3. Pending'
  BY LogUnchanged DEF Leave, IInv, TypeOK, Pending, Goto, log
<1>4. BroadcastCommitted'
  BY DEF IInv, BroadcastCommitted, log
<1> QED BY <1>1, <1>2, <1>3, <1>4, LocalStep

\* An answer with an existing row is well-formed.
LEMMA AckExisting ==
  ASSUME IInv, NEW p \in Procs, NEW x \in Existing(req[p]), Ack(req[p].key, x.seq)
  PROVE  acked' \subseteq Keys \X Nat
BY DEF IInv, TypeOK, Existing, Ack, Row, Request

\* Repo.insert under the lock: the row extends the log, because the lookup and
\* the reference check ran under the same lock.
LEMMA InsertStep ==
  ASSUME IInv, NEW p \in Procs, Insert(p)
  PROVE  IInv'
<1>1. UNCHANGED log /\ UNCHANGED <<broadcast, lockedBy, req, at, acked, clock>>
  BY DEF Insert
<1>2. Extends(tx'[p])
  <2> DEFINE x == tx'[p]
  <2>1. x = [seq |-> lastSeq + 1, type |-> req[p].type, sender |-> req[p].sender,
             key |-> req[p].key, target |-> req[p].target,
             month |-> Partition(clock), at |-> at[p]]
    BY DEF Insert, IInv, TypeOK
  <2>2. Partition(clock) \in Nat
    BY LogAssumption DEF Partition, IInv, TypeOK
  <2>3. x \in Row
    BY <2>1, <2>2 DEF IInv, TypeOK, Row, Request
  <2>4. status = "active" \/ (status = "closed" /\ x.type \in Lifecycle)
    BY <2>1 DEF Insert, IInv, Pending, Accepts
  <2>5. \A y \in rows : x.key # NoKey => y.key # x.key
    BY <2>1 DEF Insert, Existing
  <2>6. ASSUME x.type \in {"messageUpdate", "messageDelete"} PROVE x.target \notin deleted
    <3>1. ~ReferenceError(req[p])
      BY DEF Insert
    <3>2. CASE req[p].target = 0
      BY <3>2, <2>1, <2>6 DEF IInv, TypeOK, Request, ReferenceTypes
    <3>3. CASE req[p].target # 0
      BY <3>1, <3>3, <2>1, <2>6 DEF ReferenceError, ReferenceTypes
    <3> QED BY <3>2, <3>3
  <2>7. x.seq = lastSeq + 1
    BY <2>1
  <2> QED BY <2>3, <2>4, <2>5, <2>6, <2>7 DEF Extends
<1>3. TypeOK'
  BY <1>1, <1>2 DEF Insert, IInv, TypeOK, log, Goto, Extends
<1>4. LockHeld'
  BY <1>1 DEF Insert, IInv, TypeOK, LockHeld, Goto
<1>5. Pending'
  BY <1>1, <1>2, LogUnchanged DEF Insert, IInv, TypeOK, Pending, Goto, log
<1>6. BroadcastCommitted'
  BY <1>1 DEF IInv, BroadcastCommitted, log
<1> QED BY <1>1, <1>3, <1>4, <1>5, <1>6, LocalStep

\* The commit: the inserted row, which extends the log, joins it.
LEMMA CommitStep ==
  ASSUME IInv, NEW p \in Procs, Commit(p)
  PROVE  IInv'
<1> DEFINE x == tx[p]
<1>1. /\ pc[p] = "inserted" /\ Extends(x) /\ x \in Row
      /\ rows' = rows \union {x} /\ lastSeq' = lastSeq + 1 /\ x.seq = lastSeq + 1
      /\ outbox' = outbox \union {x.seq}
      /\ UNCHANGED <<status, purge, broadcast, tx>>
  BY DEF Commit, IInv, Pending, Extends
<1>2. status # "deleted" /\ ~purge
  BY <1>1 DEF Extends, IInv, PurgeAfterDelete
<1>3. lastSeq \in Nat /\ \A y \in rows : y \in Row /\ y.seq \in 1 .. lastSeq
  BY DEF IInv, TypeOK, Numbered
<1>4. TypeOK'
  BY <1>1 DEF Commit, IInv, TypeOK, Goto, Row
<1>5. LockHeld'
  BY <1>1, LogAssumption DEF Commit, IInv, TypeOK, LockHeld, Goto
<1>6. Pending'
  <2> SUFFICES ASSUME NEW q \in Procs
               PROVE  /\ pc'[q] = "locked" => Accepts(req[q])'
                      /\ pc'[q] = "inserted" => Extends(tx[q])'
                      /\ pc'[q] = "committed" => tx'[q] \in Row /\ tx'[q].seq \in 1 .. lastSeq'
    BY DEF Pending
  <2>1. pc'[q] \notin {"locked", "inserted"}
    BY <1>1 DEF Commit, IInv, TypeOK, LockHeld, Goto
  <2>2. ASSUME pc'[q] = "committed" PROVE tx'[q] \in Row /\ tx'[q].seq \in 1 .. lastSeq'
    BY <2>2, <1>1, <1>3 DEF Commit, IInv, TypeOK, Pending, Goto
  <2> QED BY <2>1, <2>2
<1>7. Numbered' /\ PurgeAfterDelete'
  BY <1>1, <1>2, <1>3 DEF Numbered, PurgeAfterDelete
<1>8. SeqGapFree'
  <2>1. {y.seq : y \in rows} = 1 .. lastSeq /\ \A y, z \in rows : y.seq = z.seq => y = z
    BY <1>2 DEF IInv, SeqGapFree
  <2>2. {y.seq : y \in rows'} = 1 .. lastSeq'
    BY <2>1, <1>1, <1>3
  <2>3. \A y, z \in rows' : y.seq = z.seq => y = z
    BY <2>1, <1>1, <1>3
  <2> QED BY <2>2, <2>3 DEF SeqGapFree
<1>9. KeyUnique'
  BY <1>1 DEF IInv, KeyUnique, Extends
<1>10. DeleteIsFinal'
  <2>1. /\ \A d, y \in rows : (/\ d.type = "messageDelete" /\ y.target = d.target
                               /\ y.type \in {"messageUpdate", "messageDelete"})
                              => y.seq <= d.seq
        /\ deleted = {d.target : d \in {y \in rows : y.type = "messageDelete"}}
    BY DEF IInv, DeleteIsFinal
  <2>2. deleted' = {d.target : d \in {y \in rows' : y.type = "messageDelete"}}
    BY <2>1, <1>1 DEF Commit
  <2>3. ASSUME NEW d \in rows', NEW y \in rows', d.type = "messageDelete",
               y.target = d.target, y.type \in {"messageUpdate", "messageDelete"}
        PROVE  y.seq <= d.seq
    <3>1. CASE y = x /\ d \in rows
      BY <3>1, <2>1, <2>3, <1>1 DEF Extends
    <3>2. CASE y \in rows
      BY <3>2, <2>1, <2>3, <1>1, <1>3
    <3>3. CASE y = x /\ d = x
      BY <3>3, <1>1, <1>3
    <3> QED BY <3>1, <3>2, <3>3, <1>1
  <2> QED BY <2>2, <2>3 DEF DeleteIsFinal
<1>11. OutboxComplete' /\ BroadcastCommitted' /\ NoOrphans'
  BY <1>1, <1>2, <1>3 DEF IInv, OutboxComplete, BroadcastCommitted, NoOrphans
<1> QED BY <1>4, <1>5, <1>6, <1>7, <1>8, <1>9, <1>10, <1>11 DEF IInv

\* The broadcast and the answer after a commit.
LEMMA AfterCommitStep ==
  ASSUME IInv, NEW p \in Procs, AfterCommit(p)
  PROVE  IInv'
<1>1. tx[p] \in Row /\ tx[p].seq \in 1 .. lastSeq /\ tx[p].seq \in Nat
  BY DEF AfterCommit, IInv, Pending, TypeOK, Row
<1>2. lockedBy # p
  BY DEF AfterCommit, IInv, LockHeld
<1>3. acked' \subseteq Keys \X Nat
  BY <1>1 DEF AfterCommit, Ack, IInv, TypeOK, Request
<1>4. broadcast' \subseteq 1 .. lastSeq
  BY <1>1 DEF AfterCommit, IInv, BroadcastCommitted
<1> QED BY <1>2, <1>3, <1>4, LeaveStep DEF AfterCommit

\* A status change finds the row lock free, so no transaction is open.
LEMMA SetStatusStep ==
  ASSUME IInv, NEW p \in Procs, NEW to \in {"active", "closed"},
         status # "deleted", pc[p] \in {"idle", "expiring"}, SetStatus(p, to)
  PROVE  IInv'
<1>1. /\ status' = to /\ ~purge
      /\ UNCHANGED <<lastSeq, rows, edited, deleted, outbox, purge, lockedBy, at, tx,
                     broadcast, acked, clock>>
  BY DEF SetStatus, IInv, PurgeAfterDelete
<1>2. \A q \in Procs : pc[q] \notin {"locked", "inserted"}
  BY LogAssumption DEF SetStatus, IInv, LockHeld
<1>3. TypeOK'
  BY <1>1, RequestTypes DEF SetStatus, IInv, TypeOK, Goto
<1>4. LockHeld' /\ Pending'
  BY <1>1, <1>2 DEF SetStatus, IInv, TypeOK, LockHeld, Pending, Goto
<1>5. PurgeAfterDelete' /\ Numbered' /\ NoOrphans'
  BY <1>1 DEF IInv, PurgeAfterDelete, Numbered, NoOrphans
<1>6. SeqGapFree' /\ KeyUnique' /\ DeleteIsFinal' /\ OutboxComplete' /\ BroadcastCommitted'
  BY <1>1 DEF IInv, SeqGapFree, KeyUnique, DeleteIsFinal, OutboxComplete, BroadcastCommitted
<1> QED BY <1>3, <1>4, <1>5, <1>6 DEF IInv

\* Selecting an idle conversation records the threshold only.
LEMMA ExpireSelectStep ==
  ASSUME IInv, NEW p \in Procs, ExpireSelect(p)
  PROVE  IInv'
<1>1. UNCHANGED log /\ UNCHANGED broadcast
  BY DEF ExpireSelect
<1>2. TypeOK'
  BY <1>1, LogAssumption DEF ExpireSelect, IInv, TypeOK, log, Goto
<1>3. LockHeld' /\ Pending'
  BY <1>1, LogUnchanged DEF ExpireSelect, IInv, TypeOK, LockHeld, Pending, Goto, log
<1>4. BroadcastCommitted'
  BY <1>1 DEF IInv, BroadcastCommitted, log
<1> QED BY <1>1, <1>2, <1>3, <1>4, LocalStep

\* Deleting the conversation waits for the lock, and purging follows it.
LEMMA DeleteStep ==
  ASSUME IInv, DeleteConversation \/ Purge
  PROVE  IInv'
<1>1. CASE DeleteConversation
  <2>1. \A q \in Procs : pc[q] \notin {"locked", "inserted"}
    BY <1>1, LogAssumption DEF DeleteConversation, IInv, LockHeld
  <2>2. TypeOK' /\ LockHeld' /\ Pending'
    BY <1>1, <2>1 DEF DeleteConversation, IInv, TypeOK, LockHeld, Pending, proc
  <2>3. /\ PurgeAfterDelete' /\ Numbered' /\ SeqGapFree' /\ KeyUnique' /\ DeleteIsFinal'
        /\ OutboxComplete' /\ BroadcastCommitted' /\ NoOrphans'
    BY <1>1 DEF DeleteConversation, IInv, TypeOK, PurgeAfterDelete, Numbered, SeqGapFree,
                KeyUnique, DeleteIsFinal, OutboxComplete, BroadcastCommitted, NoOrphans
  <2> QED BY <2>2, <2>3 DEF IInv
<1>2. CASE Purge
  <2>1. status = "deleted" /\ status' = "deleted"
    BY <1>2 DEF Purge, IInv, PurgeAfterDelete
  <2>2. \A q \in Procs : pc[q] \notin {"locked", "inserted"}
    BY <2>1 DEF IInv, Pending, Accepts, Extends
  <2>3. TypeOK' /\ LockHeld' /\ Pending'
    BY <1>2, <2>2 DEF Purge, IInv, TypeOK, LockHeld, Pending, proc
  <2>4. /\ PurgeAfterDelete' /\ Numbered' /\ SeqGapFree' /\ KeyUnique' /\ DeleteIsFinal'
        /\ OutboxComplete' /\ BroadcastCommitted' /\ NoOrphans'
    BY <1>2, <2>1 DEF Purge, IInv, PurgeAfterDelete, Numbered, SeqGapFree,
                KeyUnique, DeleteIsFinal, OutboxComplete, BroadcastCommitted, NoOrphans
  <2> QED BY <2>3, <2>4 DEF IInv
<1> QED BY <1>1, <1>2

\* Time, and steps that change nothing.
LEMMA TickStep ==
  ASSUME IInv, Tick \/ UNCHANGED vars
  PROVE  IInv'
<1>1. UNCHANGED log /\ UNCHANGED <<proc, broadcast, acked>> /\ clock' \in Nat
  BY DEF Tick, vars, log, proc, IInv, TypeOK
<1>2. TypeOK' /\ LockHeld' /\ BroadcastCommitted'
  BY <1>1 DEF IInv, TypeOK, LockHeld, BroadcastCommitted, log, proc
<1>3. Pending'
  BY <1>1, LogUnchanged DEF IInv, Pending, log, proc
<1> QED BY <1>1, <1>2, <1>3, LocalStep

\* Every step of a process that ends its call without a commit.
LEMMA EndStep ==
  ASSUME IInv, NEW p \in Procs,
         Rejected(p) \/ Duplicate(p) \/ BadReference(p) \/ EnqueueFails(p)
           \/ ExpireNothing(p) \/ Crash(p)
  PROVE  IInv'
<1> USE DEF IInv, TypeOK, BroadcastCommitted
<1>1. CASE Rejected(p) \/ ExpireNothing(p)
  <2>1. lockedBy # p
    BY <1>1 DEF Rejected, ExpireNothing, LockHeld
  <2> QED BY <1>1, <2>1, LeaveStep DEF Rejected, ExpireNothing
<1>2. CASE Duplicate(p)
  <2>1. acked' \subseteq Keys \X Nat
    BY <1>2, AckExisting DEF Duplicate
  <2> QED BY <1>2, <2>1, LeaveStep DEF Duplicate, Rollback
<1>3. CASE BadReference(p) \/ EnqueueFails(p) \/ Crash(p)
  BY <1>3, LeaveStep DEF BadReference, EnqueueFails, Crash, Rollback
<1> QED BY <1>1, <1>2, <1>3

\* The induction step: every action of the specification.
LEMMA NextIInv == IInv /\ [Next]_vars => IInv'
<1> SUFFICES ASSUME IInv, [Next]_vars PROVE IInv'
  OBVIOUS
<1>1. ASSUME NEW p \in Procs, NEW r \in Requests, Fetch(p, r) PROVE IInv'
  BY <1>1, FetchStep
<1>2. ASSUME NEW p \in Procs, Step(p) PROVE IInv'
  <2>1. CASE NextSeq(p)
    BY <2>1, NextSeqStep
  <2>2. CASE Rejected(p) \/ Duplicate(p) \/ BadReference(p) \/ EnqueueFails(p) \/ ExpireNothing(p)
    BY <2>2, EndStep
  <2>3. CASE Insert(p)
    BY <2>3, InsertStep
  <2>4. CASE Commit(p)
    BY <2>4, CommitStep
  <2>5. CASE AfterCommit(p)
    BY <2>5, AfterCommitStep
  <2>6. CASE Expire(p)
    BY <2>6, SetStatusStep DEF Expire
  <2> QED BY <1>2, <2>1, <2>2, <2>3, <2>4, <2>5, <2>6 DEF Step
<1>3. ASSUME NEW p \in Procs, Close(p) \/ Reopen(p) PROVE IInv'
  BY <1>3, SetStatusStep DEF Close, Reopen
<1>4. ASSUME NEW p \in Procs, ExpireSelect(p) \/ Crash(p) PROVE IInv'
  BY <1>4, ExpireSelectStep, EndStep
<1>5. CASE DeleteConversation \/ Purge
  BY <1>5, DeleteStep
<1>6. CASE Tick \/ UNCHANGED vars
  BY <1>6, TickStep
<1> QED BY <1>1, <1>2, <1>3, <1>4, <1>5, <1>6 DEF Next

\* The inductive invariant holds in every reachable state.
THEOREM Invariant == Spec => []IInv
BY InitIInv, NextIInv, PTL DEF Spec

\* Whatever processes, requests, crashes and status changes there are, the
\* rows of a conversation are numbered 1 to last_seq without gap or repetition.
THEOREM GapFree == Spec => []SeqGapFree
<1>1. IInv => SeqGapFree
  BY DEF IInv
<1> QED BY <1>1, Invariant, PTL

\* An idempotency key names at most one row, across every monthly partition.
THEOREM KeysAreUnique == Spec => []KeyUnique
<1>1. IInv => KeyUnique
  BY DEF IInv
<1> QED BY <1>1, Invariant, PTL

\* No message is edited or deleted after its messageDelete.
THEOREM DeletesAreFinal == Spec => []DeleteIsFinal
<1>1. IInv => DeleteIsFinal
  BY DEF IInv
<1> QED BY <1>1, Invariant, PTL

\* A deleted and purged conversation has no rows, and never gets one again.
THEOREM NothingOrphaned == Spec => []NoOrphans
<1>1. IInv => NoOrphans
  BY DEF IInv
<1> QED BY <1>1, Invariant, PTL

\* Every committed row has its delivery jobs, and only committed rows are
\* broadcast.
THEOREM OutboxAndBroadcast == Spec => [](OutboxComplete /\ BroadcastCommitted)
<1>1. IInv => OutboxComplete /\ BroadcastCommitted
  BY DEF IInv
<1> QED BY <1>1, Invariant, PTL

-----------------------------------------------------------------------------
\* A step that touches neither the status, last_seq nor the rows is a stutter
\* of the abstract log.
LEMMA AbstractStep == IInv /\ [Next]_vars => [Abstract!Next]_(Abstract!vars)
<1> SUFFICES ASSUME IInv, [Next]_vars PROVE [Abstract!Next]_(Abstract!vars)
  OBVIOUS
<1> USE DEF Abstract!vars
<1>1. CASE UNCHANGED log
  BY <1>1 DEF log
<1>2. ASSUME NEW p \in Procs, Commit(p) PROVE Abstract!Append
  <2>1. Extends(tx[p]) /\ rows' = rows \union {tx[p]} /\ lastSeq' = lastSeq + 1
        /\ UNCHANGED status
    BY <1>2 DEF Commit, IInv, Pending, Extends
  <2>2. Abstract!Admissible(tx[p])
    BY <2>1 DEF Abstract!Admissible, Extends, IInv, DeleteIsFinal
  <2> QED BY <2>1, <2>2 DEF Abstract!Append
<1>3. ASSUME NEW p \in Procs, Close(p) \/ Reopen(p) \/ Expire(p)
      PROVE  Abstract!Close \/ Abstract!Reopen
  BY <1>3 DEF Close, Reopen, Expire, SetStatus, Abstract!Close, Abstract!Reopen
<1>4. CASE DeleteConversation
  BY <1>4 DEF DeleteConversation, Abstract!Delete, Abstract!Next
<1>5. CASE Purge
  BY <1>5 DEF Purge, Abstract!Purge, Abstract!Next, IInv, PurgeAfterDelete
<1>6. ASSUME NEW p \in Procs, NEW r \in Requests, Fetch(p, r) PROVE UNCHANGED log
  BY <1>6 DEF Fetch
<1>7. ASSUME NEW p \in Procs,
             NextSeq(p) \/ Rejected(p) \/ Duplicate(p) \/ BadReference(p) \/ Insert(p)
               \/ EnqueueFails(p) \/ AfterCommit(p) \/ ExpireNothing(p)
               \/ ExpireSelect(p) \/ Crash(p)
      PROVE  UNCHANGED log
  BY <1>7 DEF NextSeq, Rejected, Duplicate, BadReference, Insert, EnqueueFails,
              AfterCommit, ExpireNothing, ExpireSelect, Crash
<1>8. Tick \/ UNCHANGED vars => UNCHANGED log
  BY DEF Tick, vars, log
<1> QED
  BY <1>1, <1>2, <1>3, <1>4, <1>5, <1>6, <1>7, <1>8 DEF Next, Step, Abstract!Next

\* The implementation with its row lock, transactions and crashes implements
\* the one-step append-only log that readers are promised.
THEOREM Refinement == Spec => ImplementsConversationLog
<1>1. Init => Abstract!Init
  BY DEF Init, Abstract!Init
<1> QED
  BY <1>1, AbstractStep, Invariant, PTL DEF Spec, ImplementsConversationLog, Abstract!Spec

\* Only lifecycle events are committed to a conversation that is not active.
THEOREM ClosedIsClosed == Spec => ClosedAcceptsNothing
<1>1. IInv /\ [Next]_vars =>
        [\A x \in rows' \ rows : x.type \notin Lifecycle => status = "active"]_vars
  <2> SUFFICES ASSUME IInv, [Next]_vars, NEW x \in rows' \ rows, x.type \notin Lifecycle
               PROVE  status = "active"
    OBVIOUS
  <2>1. CASE UNCHANGED <<status, lastSeq, rows>>
    BY <2>1
  <2>2. CASE Abstract!Append
    <3>1. PICK e \in rows' : Abstract!Admissible(e) /\ rows' = rows \union {e}
      BY <2>2 DEF Abstract!Append
    <3> QED BY <3>1 DEF Abstract!Admissible
  <2>3. CASE Abstract!Close \/ Abstract!Reopen \/ Abstract!Delete \/ Abstract!Purge
    BY <2>3 DEF Abstract!Close, Abstract!Reopen, Abstract!Delete, Abstract!Purge
  <2> QED BY <2>1, <2>2, <2>3, AbstractStep DEF Abstract!Next, Abstract!vars
<1> QED BY <1>1, Invariant, PTL DEF Spec, ClosedAcceptsNothing

-----------------------------------------------------------------------------
\* Commits follow one another in the order of their updated_at: the statement that
\* takes the row lock stamps it, and nobody else writes until the lock is free.
Stamped ==
  /\ updatedAt <= clock
  /\ \A x \in rows : x.at <= updatedAt
  /\ \A p \in Procs :
       /\ pc[p] \in {"locked", "inserted"} => updatedAt <= at[p] /\ at[p] <= clock
       /\ pc[p] = "inserted" => tx[p].at = at[p]

\* A step of p that leaves the conversation's row and everybody else alone.
LEMMA StampedLocal ==
  ASSUME IInv, Stamped, UNCHANGED <<updatedAt, rows, clock>>, NEW p \in Procs,
         \A q \in Procs \ {p} : pc'[q] = pc[q] /\ at'[q] = at[q] /\ tx'[q] = tx[q],
         pc'[p] \in {"locked", "inserted"} => updatedAt <= at'[p] /\ at'[p] <= clock,
         pc'[p] = "inserted" => tx'[p].at = at'[p]
  PROVE  Stamped'
BY DEF Stamped

\* The steps that write the conversation's row find it unlocked, or hold its lock.
LEMMA StampedWrite ==
  ASSUME IInv, Stamped, NEW p \in Procs, Commit(p) \/ (\E to : SetStatus(p, to))
  PROVE  Stamped'
<1> USE DEF IInv, TypeOK
<1>1. CASE Commit(p)
  <2>1. \A q \in Procs \ {p} : pc[q] \notin {"locked", "inserted"}
    BY <1>1 DEF Commit, LockHeld
  <2>2. pc' = [pc EXCEPT ![p] = "committed"] /\ updatedAt' = at[p] /\ rows' = rows \union {tx[p]}
        /\ UNCHANGED <<at, tx, clock>> /\ tx[p].at = at[p] /\ updatedAt <= at[p]
        /\ at[p] <= clock /\ at[p] \in Nat
    BY <1>1 DEF Commit, Goto, Stamped
  <2>3. \A x \in rows' : x.at <= updatedAt'
    <3>1. \A x \in rows : x.at \in Nat /\ x.at <= updatedAt
      BY DEF Stamped, Row
    <3> QED BY <2>2, <3>1
  <2>4. \A q \in Procs : pc'[q] \notin {"locked", "inserted"}
    BY <2>1, <2>2
  <2>5. updatedAt' <= clock'
    BY <2>2
  <2> HIDE DEF IInv, TypeOK
  <2> QED BY <2>3, <2>4, <2>5 DEF Stamped
<1>2. CASE \E to : SetStatus(p, to)
  <2>1. \A q \in Procs : pc[q] \notin {"locked", "inserted"}
    BY <1>2, LogAssumption DEF SetStatus, LockHeld
  <2>2. pc' = [pc EXCEPT ![p] = "fetched"] /\ updatedAt' = clock /\ UNCHANGED <<rows, clock>>
    BY <1>2 DEF SetStatus, Goto
  <2>3. \A x \in rows' : x.at <= updatedAt'
    <3>1. \A x \in rows : x.at \in Nat /\ x.at <= updatedAt
      BY DEF Stamped, Row
    <3> QED BY <2>2, <3>1 DEF Stamped
  <2>4. \A q \in Procs : pc'[q] \notin {"locked", "inserted"}
    BY <2>1, <2>2
  <2>5. updatedAt' <= clock'
    BY <2>2
  <2> HIDE DEF IInv, TypeOK
  <2> QED BY <2>3, <2>4, <2>5 DEF Stamped
<1> QED BY <1>1, <1>2

\* Every step keeps the order of the stamps.
LEMMA StampedStep == IInv /\ Stamped /\ [Next]_vars => Stamped'
<1> SUFFICES ASSUME IInv, Stamped, [Next]_vars PROVE Stamped'
  OBVIOUS
<1> USE DEF IInv, TypeOK
<1>1. ASSUME NEW p \in Procs,
             (\E r \in Requests : Fetch(p, r)) \/ ExpireSelect(p) \/ AfterCommit(p)
      PROVE  Stamped'
  BY <1>1, StampedLocal DEF Fetch, ExpireSelect, AfterCommit, Leave, Goto, proc, log
<1>2. ASSUME NEW p \in Procs,
             Rejected(p) \/ Duplicate(p) \/ BadReference(p) \/ EnqueueFails(p)
               \/ ExpireNothing(p) \/ Crash(p)
      PROVE  Stamped'
  BY <1>2, StampedLocal
     DEF Rejected, Duplicate, BadReference, EnqueueFails, ExpireNothing, Crash, Rollback,
         Leave, Goto, log
<1>3. ASSUME NEW p \in Procs, NextSeq(p) PROVE Stamped'
  BY <1>3, StampedLocal DEF NextSeq, Goto, log, Stamped
<1>4. ASSUME NEW p \in Procs, Insert(p) PROVE Stamped'
  BY <1>4, StampedLocal DEF Insert, Goto, log, Stamped
<1>5. ASSUME NEW p \in Procs, Commit(p) \/ Expire(p) \/ Close(p) \/ Reopen(p) PROVE Stamped'
  BY <1>5, StampedWrite DEF Expire, Close, Reopen
<1>6. CASE DeleteConversation \/ Purge
  BY <1>6 DEF DeleteConversation, Purge, proc, Stamped
<1>7. CASE Tick \/ UNCHANGED vars
  <2>1. UNCHANGED <<updatedAt, rows, pc, at, tx>> /\ clock' >= clock /\ clock' \in Nat
    BY <1>7 DEF Tick, vars, log, proc
  <2> QED BY <2>1 DEF Stamped
<1> QED BY <1>1, <1>2, <1>3, <1>4, <1>5, <1>6, <1>7 DEF Next, Step

\* The expiration worker closes no conversation that has an activity at or after
\* its threshold, whatever was committed since it selected the conversation.
THEOREM ExpiryIsIdle == Spec => ExpiresOnlyIdle
<1> DEFINE Idle(p) == pc[p] = "expiring" /\ status = "active" /\ status' = "closed"
                      /\ pc'[p] = "fetched" => \A x \in rows : x.at < at[p]
<1>1. Init => Stamped
  BY DEF Init, Stamped
<1>2. IInv /\ Stamped /\ [Next]_vars => [\A p \in Procs : Idle(p)]_vars
  <2> SUFFICES ASSUME IInv, Stamped, Next, NEW p \in Procs, NEW x \in rows, pc[p] = "expiring",
                      status = "active", status' = "closed", pc'[p] = "fetched"
               PROVE  x.at < at[p]
    BY DEF Idle
  <2> USE DEF IInv, TypeOK
  <2>1. PICK q \in Procs : Close(q) \/ Reopen(q) \/ Expire(q)
    BY DEF Next, Step, Fetch, NextSeq, Rejected, Duplicate, BadReference, Insert, EnqueueFails,
           Commit, AfterCommit, ExpireNothing, ExpireSelect, Crash, DeleteConversation, Purge,
           Tick, log
  <2>2. q = p
    BY <2>1 DEF Close, Reopen, Expire, SetStatus, Goto
  <2>3. updatedAt < at[p]
    BY <2>1, <2>2 DEF Close, Reopen, Expire
  <2>4. x.at \in Nat /\ x.at <= updatedAt
    BY DEF Stamped, Row
  <2> QED BY <2>3, <2>4
<1> QED BY <1>1, <1>2, StampedStep, Invariant, PTL DEF Spec, ExpiresOnlyIdle, Idle
=============================================================================
