----------------------------- MODULE MCSessions -----------------------------
(* Sessions on small sets of users, calls and keys. *)
EXTENDS Sessions

(***************************************************************************)
(* A platform admin who neither logs out nor lets an answer get lost: what *)
(* becomes of the session is the program's doing.                          *)
(***************************************************************************)
ImpersonationNext ==
    \/ \E c \in Calls : Click(c) \/ Serve(c) \/ Deliver(c)
    \/ ReturnToPlatformView
    \/ AccessTokensExpire

ImpersonationSpec == Init /\ [][ImpersonationNext]_vars
=============================================================================
