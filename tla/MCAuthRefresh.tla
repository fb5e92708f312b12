----------------------------- MODULE MCAuthRefresh -----------------------------
(* Small instances of AuthRefresh for TLC. *)
EXTENDS AuthRefresh, TLC

CONSTANTS ma, mb, ta, tb

\* One task in each of two processes, which may be exchanged; two tasks in one process.
OneEach == [x \in Tasks |-> x]
BothInOne == [x \in Tasks |-> ma]
Symmetric == Permutations(Tasks)

\* Explored: runs with up to MaxFaults faults until the first excuse, and runs without any
\* fault past it.
NoFaultAndExcuse == excused => faults = 0

\* Explored: what happens until the first excuse.
NotExcused == ~excused
================================================================================
