---------------------------- MODULE AbstractFifo ----------------------------
(***************************************************************************)
(* What the chardrvs FIFO device promises its users: a queue of at most   *)
(* Cap bytes.  A write appends as many bytes as there is room for, a read *)
(* removes bytes from the front, and each happens at one instant.  Bytes  *)
(* are numbered in the order they are written, so the next byte is the    *)
(* one after all those read and all those queued.                         *)
(***************************************************************************)
EXTENDS Naturals, Sequences

CONSTANT Cap

VARIABLES
    q,     \* the bytes written and not yet read
    got    \* the bytes read, in order

Init == q = <<>> /\ got = <<>>

Put(n) ==
    /\ n \in 1..(Cap - Len(q))
    /\ q' = q \o [k \in 1..n |-> Len(got) + Len(q) + k]
    /\ UNCHANGED got

Get(n) ==
    /\ n \in 1..Len(q)
    /\ got' = got \o SubSeq(q, 1, n)
    /\ q' = SubSeq(q, n + 1, Len(q))

Next == \E n \in 1..Cap : Put(n) \/ Get(n)

Spec == Init /\ [][Next]_<<q, got>>
=============================================================================
