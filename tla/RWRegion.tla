------------------------------ MODULE RWRegion ------------------------------
(***************************************************************************)
(* What a read/write resource promises to the threads that use it: a       *)
(* thread is outside the protected region, reads in it or writes in it; a  *)
(* writer is alone.  A thread comes in from outside and leaves to outside: *)
(* there is no step that turns a reader into a writer (or back) in place,  *)
(* so nothing a thread has read under a read lock may be assumed to hold   *)
(* once it has asked for the write lock.                                   *)
(***************************************************************************)
CONSTANT Threads

VARIABLE region

Places == {"out", "R", "W"}

Init == region = [t \in Threads |-> "out"]

Enter(t, m) ==
  /\ region[t] = "out"
  /\ m = "R" => \A u \in Threads : region[u] # "W"
  /\ m = "W" => \A u \in Threads : region[u] = "out"
  /\ region' = [region EXCEPT ![t] = m]

Leave(t) ==
  /\ region[t] # "out"
  /\ region' = [region EXCEPT ![t] = "out"]

Next == \E t \in Threads : Leave(t) \/ \E m \in {"R", "W"} : Enter(t, m)

Spec == Init /\ [][Next]_region
=============================================================================
