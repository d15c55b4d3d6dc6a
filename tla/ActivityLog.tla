------------------------------ MODULE ActivityLog ------------------------------
(***************************************************************************)
(* The log of one conversation: Converger.Activities.create_activity and   *)
(* the status changes of Converger.Conversations.                          *)
(*                                                                         *)
(* Every insert increments conversations.last_seq with one conditional     *)
(* UPDATE, which takes the conversation's row lock and holds it to the     *)
(* commit.  Closing, reopening, expiring and deleting the conversation     *)
(* take the same lock.  A process may die at every step; its transaction   *)
(* is then rolled back and its lock released.                              *)
(*                                                                         *)
(* One conversation is enough: no statement of these functions touches     *)
(* the rows of two.  Text, attachments and metadata are left out; so are   *)
(* the audit row and the webhook of a status change, which nothing here    *)
(* reads back.  A row's id is its seq.                                     *)
(***************************************************************************)
EXTENDS Integers, FiniteSets

CONSTANTS
  Procs,          \* request processes, on any node
  Requests,       \* the activities callers may ask for: see Request
  Senders,
  Keys,           \* idempotency keys
  NoKey,          \* the absent idempotency key
  Nobody,         \* the row lock is free
  TicksPerMonth,  \* clock ticks in a monthly partition of `activities`
  Window,         \* inactivity window of the expiration worker, in ticks
  MaxSeq,         \* bound: rows the conversation may ever hold
  MaxClock        \* bound: clock ticks

ClientTypes == {"message", "messageReaction", "messageUpdate", "messageDelete"}

\* Activity.reference_types/0: types that need a reply_to_id.
ReferenceTypes == {"messageReaction", "messageUpdate", "messageDelete"}

\* The conversationUpdate activities emitted by a status change; the type
\* stands for the event's metadata.
Lifecycle == {"closed", "reopened"}

\* What Activity.changeset/3 lets through.  A reply_to_id of 0 is the absent
\* one; the reference types must have it.
Request ==
  {r \in [type : ClientTypes \union Lifecycle, sender : Senders \union {"system"},
          key : Keys \union {NoKey}, target : Nat] :
     r.type \in ReferenceTypes => r.target # 0}

Event(type) == [type |-> type, sender |-> "system", key |-> NoKey, target |-> 0]

NoRequest == Event("closed")

ASSUME LogAssumption ==
  /\ IsFiniteSet(Procs) /\ Nobody \notin Procs
  /\ NoKey \notin Keys
  /\ \A r \in Requests : r \in Request /\ r.type \in ClientTypes
  /\ TicksPerMonth \in Nat \ {0} /\ Window \in Nat
  /\ MaxSeq \in Nat /\ MaxClock \in Nat

VARIABLES
  status,     \* conversations.status, or "deleted" when the row is gone
  lastSeq,    \* conversations.last_seq
  updatedAt,  \* conversations.updated_at
  rows,       \* the committed rows of `activities`
  edited,     \* the seqs of rows whose edited_at is set
  deleted,    \* the seqs of rows whose deleted_at is set
  outbox,     \* seqs whose delivery jobs and platform event are committed
  purge,      \* a PurgeWorker job is pending
  lockedBy,   \* holder of the conversation's row lock
  pc,         \* where each process is
  req,        \* the activity it is creating
  at,         \* the updated_at (or expiry threshold) of its statement
  tx,         \* the row its open transaction inserted
  broadcast,  \* seqs published on PubSub
  acked,      \* <<key, seq>> answers given to callers that sent a key
  clock

log  == <<status, lastSeq, updatedAt, rows, edited, deleted, outbox, purge>>
proc == <<lockedBy, pc, req, at, tx>>
vars == <<status, lastSeq, updatedAt, rows, edited, deleted, outbox, purge,
          lockedBy, pc, req, at, tx, broadcast, acked, clock>>

Row == [seq : Nat, type : ClientTypes \union Lifecycle, sender : Senders \union {"system"},
        key : Keys \union {NoKey}, target : Nat, month : Nat, at : Nat]

NoRow == [seq |-> 0]

Init ==
  /\ status = "active" /\ lastSeq = 0 /\ updatedAt = 0
  /\ rows = {} /\ edited = {} /\ deleted = {} /\ outbox = {} /\ purge = FALSE
  /\ lockedBy = Nobody
  /\ pc = [p \in Procs |-> "idle"]
  /\ req = [p \in Procs |-> NoRequest]
  /\ at = [p \in Procs |-> 0]
  /\ tx = [p \in Procs |-> NoRow]
  /\ broadcast = {} /\ acked = {} /\ clock = 0

-----------------------------------------------------------------------------
(* Helpers *)

Goto(p, l) == pc' = [pc EXCEPT ![p] = l]

\* The call of p is over, and its local state with it.
Leave(p) ==
  /\ Goto(p, "idle")
  /\ req' = [req EXCEPT ![p] = NoRequest]
  /\ at' = [at EXCEPT ![p] = 0]
  /\ tx' = [tx EXCEPT ![p] = NoRow]

\* Seeded fault: a transaction that ends without releasing the row lock.
RollbackLeaked(p) == Leave(p) /\ UNCHANGED lockedBy

\* The transaction of p rolls back: its lock is free again and its call over.
Rollback(p) == Leave(p) /\ lockedBy' = IF lockedBy = p THEN Nobody ELSE lockedBy

\* Seeded fault: only the current month's partition is searched, as the unique
\* index of a partition does.
ExistingInMonth(r) ==
  {x \in rows : r.key # NoKey /\ x.key = r.key /\ x.month = clock \div TicksPerMonth}

\* fetch_existing_activity/1 and existing_under_lock/1 search every partition
\* for the key of a request.
Existing(r) == {x \in rows : r.key # NoKey /\ x.key = r.key}

\* The caller gets {:ok, activity}.
Ack(key, seq) == acked' = IF key = NoKey THEN acked ELSE acked \union {<<key, seq>>}

\* Seeded fault: the UPDATE does not test the status.
AcceptsAlways(r) == status # "deleted"

\* next_seq/2: lifecycle events pass allow_closed.
Accepts(r) == status = "active" \/ (status = "closed" /\ r.type \in Lifecycle)

\* check_reference/1 finds no target, or reference_error/3 has a message.
ReferenceError(r) ==
  /\ r.target # 0
  /\ \A t \in rows :
       t.seq = r.target =>
         /\ r.type \in ReferenceTypes
         /\ \/ t.type # "message"
            \/ /\ r.type # "messageReaction"
               /\ t.sender # r.sender \/ t.seq \in deleted

Partition(t) == t \div TicksPerMonth

\* MaxSeq also counts the rows in the making.
Room == lastSeq + Cardinality({p \in Procs : pc[p] # "idle"}) < MaxSeq

-----------------------------------------------------------------------------
(* create_activity/2 *)

\* The optimistic fetch: a known key is answered with its activity.
Fetch(p, r) ==
  /\ pc[p] = "idle" /\ Room
  /\ IF Existing(r) # {}
       THEN /\ \E x \in Existing(r) : Ack(r.key, x.seq)
            /\ UNCHANGED proc
       ELSE /\ req' = [req EXCEPT ![p] = r]
            /\ Goto(p, "fetched")
            /\ UNCHANGED <<lockedBy, at, tx, acked>>
  /\ UNCHANGED <<log, broadcast, clock>>

\* Seeded fault: last_seq is read without taking the row lock.
NextSeqUnlocked(p) ==
  /\ pc[p] = "fetched"
  /\ lockedBy = Nobody /\ Accepts(req[p])
  /\ at' = [at EXCEPT ![p] = clock]
  /\ Goto(p, "locked")
  /\ UNCHANGED <<log, lockedBy, req, tx, broadcast, acked, clock>>

\* The conditional UPDATE of next_seq/2 matches and takes the row lock.
NextSeq(p) ==
  /\ pc[p] = "fetched"
  /\ lockedBy = Nobody /\ Accepts(req[p])
  /\ lockedBy' = p
  /\ at' = [at EXCEPT ![p] = clock]
  /\ Goto(p, "locked")
  /\ UNCHANGED <<log, req, tx, broadcast, acked, clock>>

\* The UPDATE matches no row: :conversation_closed, or the row is gone.
Rejected(p) ==
  /\ pc[p] = "fetched" /\ ~Accepts(req[p])
  /\ Leave(p)
  /\ UNCHANGED <<log, lockedBy, broadcast, acked, clock>>

\* Under the lock: the key is taken, and the winner is returned.
Duplicate(p) ==
  /\ pc[p] = "locked" /\ Existing(req[p]) # {}
  /\ \E x \in Existing(req[p]) : Ack(req[p].key, x.seq)
  /\ Rollback(p)
  /\ UNCHANGED <<log, broadcast, clock>>

\* Under the lock: the reference is refused and the transaction rolled back.
BadReference(p) ==
  /\ pc[p] = "locked" /\ Existing(req[p]) = {} /\ ReferenceError(req[p])
  /\ Rollback(p)
  /\ UNCHANGED <<log, broadcast, acked, clock>>

\* Repo.insert and stamp_target/2, seen by nobody before the commit.
Insert(p) ==
  /\ pc[p] = "locked" /\ Existing(req[p]) = {} /\ ~ReferenceError(req[p])
  /\ tx' = [tx EXCEPT ![p] =
              [seq |-> lastSeq + 1, type |-> req[p].type, sender |-> req[p].sender,
               key |-> req[p].key, target |-> req[p].target,
               month |-> Partition(clock), at |-> at[p]]]
  /\ Goto(p, "inserted")
  /\ UNCHANGED <<log, lockedBy, req, at, broadcast, acked, clock>>

\* Seeded fault: the enqueue error is swallowed and the activity returned.
EnqueueFailureIgnored(p) ==
  /\ pc[p] = "inserted"
  /\ Ack(req[p].key, tx[p].seq)
  /\ Rollback(p)
  /\ UNCHANGED <<log, broadcast, clock>>

\* enqueue_deliveries/1 fails: :delivery_enqueue_failed rolls everything back.
EnqueueFails(p) ==
  /\ pc[p] = "inserted"
  /\ Rollback(p)
  /\ UNCHANGED <<log, broadcast, acked, clock>>

\* Seeded fault: the jobs are left to be enqueued after the commit.
CommitWithoutJobs(p) ==
  LET x == tx[p] IN
  /\ pc[p] = "inserted"
  /\ rows' = rows \union {x}
  /\ lastSeq' = x.seq
  /\ updatedAt' = at[p]
  /\ edited' = IF x.type = "messageUpdate" THEN edited \union {x.target} ELSE edited
  /\ deleted' = IF x.type = "messageDelete" THEN deleted \union {x.target} ELSE deleted
  /\ lockedBy' = Nobody
  /\ Goto(p, "committed")
  /\ UNCHANGED <<status, outbox, purge, req, at, tx, broadcast, acked, clock>>

\* The row, last_seq, updated_at, the stamp, the delivery jobs and the
\* activity.created event become visible together.
Commit(p) ==
  LET x == tx[p] IN
  /\ pc[p] = "inserted"
  /\ rows' = rows \union {x}
  /\ lastSeq' = x.seq
  /\ updatedAt' = at[p]
  /\ edited' = IF x.type = "messageUpdate" THEN edited \union {x.target} ELSE edited
  /\ deleted' = IF x.type = "messageDelete" THEN deleted \union {x.target} ELSE deleted
  /\ outbox' = outbox \union {x.seq}
  /\ lockedBy' = Nobody
  /\ Goto(p, "committed")
  /\ UNCHANGED <<status, purge, req, at, tx, broadcast, acked, clock>>

\* Pipeline.after_commit/1 broadcasts, and the caller gets its activity.
AfterCommit(p) ==
  /\ pc[p] = "committed"
  /\ broadcast' = broadcast \union {tx[p].seq}
  /\ Ack(req[p].key, tx[p].seq)
  /\ Leave(p)
  /\ UNCHANGED <<log, lockedBy, clock>>

-----------------------------------------------------------------------------
(* Status changes *)

EventOf(to) == IF to = "closed" THEN Event("closed") ELSE Event("reopened")

\* The UPDATE of transition/4 or of expire_batches/2: it commits on its own,
\* and the lifecycle event is created afterwards, by create_activity/2.
SetStatus(p, to) ==
  /\ lockedBy = Nobody
  /\ status' = to
  /\ updatedAt' = clock
  /\ req' = [req EXCEPT ![p] = EventOf(to)]
  /\ Goto(p, "fetched")
  /\ UNCHANGED <<lastSeq, rows, edited, deleted, outbox, purge,
                 lockedBy, at, tx, broadcast, acked, clock>>

\* close_conversation/2.
Close(p) ==
  /\ pc[p] = "idle" /\ Room
  /\ status = "active"
  /\ SetStatus(p, "closed")

\* reopen_conversation/2.
Reopen(p) ==
  /\ pc[p] = "idle" /\ Room
  /\ status = "closed"
  /\ SetStatus(p, "active")

\* expire_inactive_conversations/1 computes its threshold, and the subquery
\* of expire_batches/2 finds the conversation in its snapshot.
ExpireSelect(p) ==
  /\ pc[p] = "idle" /\ Room
  /\ status = "active" /\ updatedAt < clock - Window
  /\ at' = [at EXCEPT ![p] = clock - Window]
  /\ Goto(p, "expiring")
  /\ UNCHANGED <<log, lockedBy, req, tx, broadcast, acked, clock>>

\* The outer UPDATE re-checks both conditions under the row lock.
Expire(p) ==
  /\ pc[p] = "expiring"
  /\ status = "active" /\ updatedAt < at[p]
  /\ SetStatus(p, "closed")

\* It matches no row any more.
ExpireNothing(p) ==
  /\ pc[p] = "expiring"
  /\ lockedBy = Nobody /\ ~(status = "active" /\ updatedAt < at[p])
  /\ Leave(p)
  /\ UNCHANGED <<log, lockedBy, broadcast, acked, clock>>

\* delete_conversation/1: the row goes and the purge job comes in one
\* transaction; the DELETE waits for the row lock.
DeleteConversation ==
  /\ status # "deleted" /\ lockedBy = Nobody
  /\ status' = "deleted" /\ purge' = TRUE
  /\ UNCHANGED <<lastSeq, updatedAt, rows, edited, deleted, outbox,
                 proc, broadcast, acked, clock>>

\* PurgeWorker.purge/1 for a conversation.
Purge ==
  /\ purge
  /\ rows' = {} /\ edited' = {} /\ deleted' = {} /\ purge' = FALSE
  /\ UNCHANGED <<status, lastSeq, updatedAt, outbox, proc, broadcast, acked, clock>>

-----------------------------------------------------------------------------
\* The process dies, or its node does: what it had not committed is undone.
Crash(p) ==
  /\ pc[p] # "idle"
  /\ Rollback(p)
  /\ UNCHANGED <<log, broadcast, acked, clock>>

Tick ==
  /\ clock < MaxClock
  /\ clock' = clock + 1
  /\ UNCHANGED <<log, proc, broadcast, acked>>

Step(p) ==
  \/ NextSeq(p) \/ Rejected(p) \/ Duplicate(p) \/ BadReference(p) \/ Insert(p)
  \/ EnqueueFails(p) \/ Commit(p) \/ AfterCommit(p)
  \/ Expire(p) \/ ExpireNothing(p)

Next ==
  \/ \E p \in Procs : \/ \E r \in Requests : Fetch(p, r)
                      \/ Step(p)
                      \/ Close(p) \/ Reopen(p) \/ ExpireSelect(p) \/ Crash(p)
  \/ DeleteConversation \/ Purge \/ Tick

Spec == Init /\ [][Next]_vars

\* Postgres queues the waiters of a row lock in order, and a statement or a
\* transaction that has started returns: no step of a call waits forever.
FairSpec == Spec /\ \A p \in Procs : SF_vars(Step(p))

-----------------------------------------------------------------------------
(* Refinement *)

Abstract == INSTANCE ConversationLog WITH head <- lastSeq, entries <- rows

\* create_activity/2 and the status changes, with their locks, transactions
\* and crashes, look to a reader of the committed rows like the one-step log
\* of ConversationLog.
ImplementsConversationLog == Abstract!Spec

-----------------------------------------------------------------------------
(* Properties *)

TypeOK ==
  /\ status \in {"active", "closed", "deleted"}
  /\ lastSeq \in Nat /\ updatedAt \in Nat /\ clock \in Nat
  /\ rows \subseteq Row
  /\ edited \subseteq Nat /\ deleted \subseteq Nat
  /\ outbox \subseteq Nat /\ broadcast \subseteq Nat
  /\ purge \in BOOLEAN
  /\ lockedBy \in Procs \union {Nobody}
  /\ pc \in [Procs -> {"idle", "fetched", "locked", "inserted", "committed", "expiring"}]
  /\ req \in [Procs -> Request]
  /\ at \in [Procs -> Nat]
  /\ tx \in [Procs -> Row \union {NoRow}]
  /\ acked \subseteq Keys \X Nat

\* "strict, gap-free": the rows of a conversation are numbered 1 to last_seq,
\* one row per number, whatever inserts race, roll back or die (activities.ex
\* next_seq/2 and its row lock).
SeqGapFree ==
  status # "deleted" =>
    /\ {x.seq : x \in rows} = 1 .. lastSeq
    /\ \A x, y \in rows : x.seq = y.seq => x = y

\* No two rows of the conversation carry one idempotency key, even when they
\* fall into two monthly partitions, whose unique indexes do not see each
\* other (existing_under_lock/1).
KeyUnique == \A x, y \in rows : x.key = y.key /\ x.key # NoKey => x = y

\* Callers that repeat a key, concurrently or after a lost answer, are all
\* given the same activity, and that activity is in the log
\* (create_activity/2, its three ways of returning an existing row).
AnswersAgree ==
  /\ \A a, b \in acked : a[1] = b[1] => a[2] = b[2]
  /\ status # "deleted" =>
       \A a \in acked : \E x \in rows : x.key = a[1] /\ x.seq = a[2]

\* "an activity is either committed before the close or rejected": only a
\* lifecycle event is ever committed to a conversation that is not active.
ClosedAcceptsNothing ==
  [][\A x \in rows' \ rows : x.type \notin Lifecycle => status = "active"]_vars

\* Edits and deletes of one message are serialised by the row lock: once a
\* messageDelete is in the log no later messageUpdate or messageDelete names
\* the same message, and deleted_at is set on exactly the deleted messages.
DeleteIsFinal ==
  /\ \A d, x \in rows :
       (/\ d.type = "messageDelete" /\ x.target = d.target
        /\ x.type \in {"messageUpdate", "messageDelete"})
       => x.seq <= d.seq
  /\ deleted = {d.target : d \in {x \in rows : x.type = "messageDelete"}}

\* The transactional outbox: every committed activity has its delivery jobs
\* and its platform event, also when the node dies right after the commit.
OutboxComplete == \A x \in rows : x.seq \in outbox

\* Subscribers are never sent an activity that may still be rolled back
\* (Pipeline.after_commit/1 runs after the commit).
BroadcastCommitted == broadcast \subseteq 1 .. lastSeq

\* A deleted conversation leaves no activity behind: an insert that raced the
\* DELETE committed before it and is purged, or is rejected.
NoOrphans == status = "deleted" /\ ~purge => rows = {}

\* The expiration worker never closes a conversation that received an
\* activity at or after its threshold, however long ago it selected it
\* (expire_batches/2 re-checks under the row lock).
ExpiresOnlyIdle ==
  [][\A p \in Procs :
       pc[p] = "expiring" /\ status = "active" /\ status' = "closed" /\ pc'[p] = "fetched"
       => \A x \in rows : x.at < at[p]]_vars

\* A call that reached the database returns: no row lock is held forever and
\* no call waits for it forever.
CallsReturn == \A p \in Procs : pc[p] = "fetched" ~> pc[p] = "idle"
=============================================================================
