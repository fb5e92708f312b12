----------------------------- MODULE MCLeaderLock -----------------------------
(* Small instances of LeaderLock for TLC. *)
EXTENDS LeaderLock

CONSTANTS a, b, l1, l2

\* Before RelaunchForUpdate, with it, and the clients' own.
ThreeVersions == {1, 2, 3}
Newest        == [c \in Clients |-> 3]
===============================================================================
