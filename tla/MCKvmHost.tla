---------------------------- MODULE MCKvmHost ----------------------------
(* Model-checking instance of KvmHost: 8 bytes of guest memory and reads  *)
(* of at most 3 bytes, so a 7-byte image arrives in three to seven reads of *)
(* every split, short reads included.                                     *)
EXTENDS KvmHost

MCImg == <<7, 8, 9, 6, 5, 4, 3>>
\* An image one byte longer than guest memory.
MCBigImg == <<7, 8, 9, 6, 5, 4, 3, 2, 1>>
=============================================================================
