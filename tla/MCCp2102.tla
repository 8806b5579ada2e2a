------------------------------ MODULE MCCp2102 ------------------------------
(* Model-checking instance of Cp2102: two speeds and B0, the three        *)
(* parities, and an uninitialised local that holds 0 or a stray even-     *)
(* parity bit.                                                            *)
EXTENDS Cp2102

MCBauds == {0, 9600, 115200}
MCParities == {"none", "odd", "even"}
\* 0, and the PARITY_EVEN_MASK bit left on the stack by an earlier call.
MCGarbage == {0, 32}
=============================================================================
