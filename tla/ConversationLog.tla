---------------------------- MODULE ConversationLog ----------------------------
(***************************************************************************)
(* What a conversation promises its readers: an append-only log in which   *)
(* every entry has the next number, an idempotency key is used once, only  *)
(* an active conversation takes a client's activity, and a deleted message *)
(* is neither edited nor deleted again.  The log changes in one step per   *)
(* activity; there are no locks, transactions or processes here.           *)
(***************************************************************************)
EXTENDS Integers

CONSTANTS NoKey, Lifecycle

VARIABLES
  status,   \* "active", "closed" or "deleted"
  head,     \* the number of the last entry
  entries   \* the set of entries: seq, type, key, target and more

vars == <<status, head, entries>>

Init == status = "active" /\ head = 0 /\ entries = {}

\* e may follow the entries there are.
Admissible(e) ==
  /\ e.seq = head + 1
  /\ status = "active" \/ (status = "closed" /\ e.type \in Lifecycle)
  /\ \A x \in entries : e.key # NoKey => x.key # e.key
  /\ e.type \in {"messageUpdate", "messageDelete"} =>
       \A x \in entries : ~(x.type = "messageDelete" /\ x.target = e.target)

Append ==
  /\ \E e \in entries' : Admissible(e) /\ entries' = entries \union {e}
  /\ head' = head + 1
  /\ UNCHANGED status

Close == status = "active" /\ status' = "closed" /\ UNCHANGED <<head, entries>>

Reopen == status = "closed" /\ status' = "active" /\ UNCHANGED <<head, entries>>

Delete == status # "deleted" /\ status' = "deleted" /\ UNCHANGED <<head, entries>>

Purge == status = "deleted" /\ entries' = {} /\ UNCHANGED <<status, head>>

Next == Append \/ Close \/ Reopen \/ Delete \/ Purge

Spec == Init /\ [][Next]_vars
=============================================================================
