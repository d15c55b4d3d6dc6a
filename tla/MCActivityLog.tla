----------------------------- MODULE MCActivityLog -----------------------------
(* Small instances of ActivityLog. *)
EXTENDS ActivityLog, TLC

CONSTANTS k1, u1, u2

Msg(u, k) == [type |-> "message", sender |-> u, key |-> k, target |-> 0]
Ref(t, u, n) == [type |-> t, sender |-> u, key |-> NoKey, target |-> n]

\* Callers racing on one key, over a month boundary, and edits, deletes and
\* reactions racing on the first message.
MCRequests ==
  {Msg(u1, k1), Msg(u2, NoKey), Ref("messageDelete", u1, 1), Ref("messageUpdate", u1, 1),
   Ref("messageUpdate", u2, 1), Ref("messageReaction", u2, 1)}
=============================================================================
