----------------------------- MODULE MCCharFifo -----------------------------
(* CharFifo for TLC: three processes, one of them the administrator that  *)
(* app-test.c runs as, a two-byte kfifo with counters of two bits so that  *)
(* in and out wrap within a few writes, and reads and writes of one or two *)
(* bytes.                                                                  *)
EXTENDS CharFifo, TLC

CONSTANTS p1, p2, p3

MCProcs == {p1, p2, p3}
MCAdmins == {p1}

\* Two processes, for the liveness runs.
MCPair == {p1, p2}

\* The two processes without CAP_SYS_ADMIN are interchangeable.
MCSymmetry == Permutations({p2, p3})
=============================================================================
