----------------------------- MODULE MCCntrNode -----------------------------
(* CntrNode for TLC: who may call what.                                    *)
EXTENDS CntrNode

CONSTANTS admin, admin2, user, user2

\* One thread changes the tree, others use it and ask it for changes.
SoleAdminOps ==
  [t \in Threads |->
     IF t = admin THEN {"edit", "add", "del", "off", "load", "save"}
     ELSE IF t = user THEN {"use"} ELSE {"isModify"}]

\* Two threads create and delete.
TwoAdminsOps == [t \in Threads |-> {"add", "del"}]
=============================================================================
