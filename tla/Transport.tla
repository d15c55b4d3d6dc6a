----------------------------- MODULE Transport -----------------------------
(***************************************************************************)
(* What a transport promises the session (transport/types.ts): the calls   *)
(* it makes on its TransportHandlers, in order.  A run of frames after the *)
(* welcome counts as one call; an error frame, which may come before the   *)
(* welcome, is not counted.                                                *)
(***************************************************************************)
EXTENDS Sequences, SequencesExt

VARIABLE calls

Ended == calls # <<>> /\ Last(calls) \in {"closeOpened", "closeUnopened"}

OnOpen == calls = <<>> /\ calls' = <<"open">>

OnWelcome == calls = <<"open">> /\ calls' = Append(calls, "welcome")

\* A binding without a handshake makes the welcome itself.
OnOpenWelcome == calls = <<>> /\ calls' = <<"open", "welcome">>

OnFrame == calls = <<"open", "welcome">> /\ calls' = Append(calls, "frame")

\* The attempt ended: once, saying whether the connection was ever established.
OnClose ==
    /\ ~Ended
    /\ calls' = Append(calls, IF calls = <<>> THEN "closeUnopened" ELSE "closeOpened")

\* A frame with which the connection ends is handed over first.
OnLastFrame ==
    /\ ~Ended /\ Len(calls) >= 2
    /\ calls' = <<"open", "welcome", "frame", "closeOpened">>

Init == calls = <<>>
Next == OnOpen \/ OnOpenWelcome \/ OnWelcome \/ OnFrame \/ OnClose \/ OnLastFrame
Spec == Init /\ [][Next]_calls
=============================================================================
