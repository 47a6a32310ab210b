---------------------------- MODULE MCSmsInbox ----------------------------
(* Instances of SmsInbox for TLC. *)
EXTENDS SmsInbox

\* the last message only, and everything but the last
WindowSet == {<<2, 3>>, <<0, 2>>}
=============================================================================
