------------------------------ MODULE MCSvcHub ------------------------------
(* Small instances of SvcHub. *)
EXTENDS SvcHub, TLC

CONSTANTS p1, p2, p3, a, b

\* p1 is also a wait status, so it is not like the others
Symmetric == Permutations({p2, p3}) \cup Permutations({a, b})

\* for runs where it is not
AllSymmetric == Permutations({p1, p2, p3}) \cup Permutations({a, b})

\* nothing is left to see once pid 1 is gone
Running == ~Ended

\* bound: what happens after the shutdown script has started is left to the
\* runs with one service
BeforeShutdown == state # S_SHUTDOWN /\ ~Ended
=============================================================================
