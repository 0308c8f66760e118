----------------------------- MODULE MCTaskMan -----------------------------
(* TaskMan for TLC: who may call what.                                     *)
EXTENDS TaskMan

CONSTANTS owner, other

\* The owner of a task, and another thread that creates it too or wakes it.
TwoCallersOps ==
  [c \in Callers |-> IF c = owner THEN {"create", "destroy"} ELSE {"create", "alarm"}]

OwnerOps == [c \in Callers |-> {"create", "destroy"}]
=============================================================================
