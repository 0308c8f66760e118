------------------------------ MODULE MCValArch ------------------------------
(* ValArch for TLC: a user of archives; an administrator of the archivers, *)
(* who attaches and stops archives as well.                               *)
EXTENDS ValArch, TLC

CONSTANTS user, admin

ToAll == [x \in Archives |-> Archivers]
TwoAdmins ==
  (user :> {"startV", "stopV", "attach", "detach"}) @@ (admin :> {"attach", "stopV", "startA", "stopA", "sort"})
=============================================================================
