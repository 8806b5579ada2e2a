------------------------------- MODULE Cp2102 -------------------------------
(***************************************************************************)
(* 18.usb-ttl-cp2102: the tty operations of usb_ttl_cp2102.c and the      *)
(* control requests of cp2102if.c, against a CP2102 that applies the      *)
(* requests as AN571 describes them.                                      *)
(*                                                                         *)
(* Each request is one USB control transfer, which may fail (a stall, a   *)
(* timeout, an unplug) and then leaves the chip unchanged.  The tty layer *)
(* serialises open and close; set_termios and tiocmset hold prv_dev->mutex; *)
(* so each operation is one step.                                          *)
(*                                                                         *)
(* termios and want are what the tty layer believes: the termios settings *)
(* and the modem lines last set by a tiocmset that returned 0.  The C     *)
(* locals lctrl and mcr are read before they are written; their value is  *)
(* whatever the stack holds, a member of Garbage.                         *)
(***************************************************************************)
EXTENDS Naturals, Bitwise

CONSTANTS
    Bauds,        \* the speeds set_termios may be asked for (0 is B0)
    Parities,     \* a subset of {"none", "odd", "even"}
    Garbage,      \* the values an uninitialised u16 local may hold
    UsbCanFail,   \* whether a control transfer may fail
    MaxCalls      \* bound on the operations

DEFAULT_BAUD_RATE == 9600
PARITY_ODD_MASK == 16
PARITY_EVEN_MASK == 32
STOP_1_MASK == 0
DATA_8_MASK == 2048
MCR_DTR == 1
MCR_RTS == 2
MCR_DTR_MASK == 256
MCR_RTS_MASK == 512
Lines == {"DTR", "RTS"}

\* The outcomes of one control transfer.
Xfer == IF UsbCanFail THEN {TRUE, FALSE} ELSE {TRUE}

\* The chip's reading of a line-control word (AN571 SET_LINE_CTL).
ParityOf(w) == CASE (w \div 16) % 16 = 0 -> "none"
                 [] (w \div 16) % 16 = 1 -> "odd"
                 [] (w \div 16) % 16 = 2 -> "even"
                 [] OTHER -> "mark/space"
WordLength(w) == w \div 256
StopBits(w) == w % 16

\* The control requests of cp2102if.c, each as the chip applies it.
cp2102_enableif(c) == [c EXCEPT !.enabled = TRUE]
cp2102_disableif(c) == [c EXCEPT !.enabled = FALSE]
cp2102_set_lctrl(c, w) == [c EXCEPT !.lctrl = w]
cp2102_set_baud(c, b) == [c EXCEPT !.baud = b]

\* SET_MHS: a line changes only where its mask bit is set.
cp2102_set_mdmhndshk(c, w) ==
    [c EXCEPT !.lines = [l \in Lines |->
        LET state == IF l = "DTR" THEN MCR_DTR ELSE MCR_RTS
            mask == IF l = "DTR" THEN MCR_DTR_MASK ELSE MCR_RTS_MASK
        IN IF (w & mask) # 0 THEN (w & state) # 0 ELSE @[l]]]

\* GET_MDMSTS: the modem status byte, DTR in bit 0 and RTS in bit 1; the
\* inputs from the far end (bits 4 to 7) are left low.
cp2102_get_mdmstat(c) ==
    (IF c.lines["DTR"] THEN MCR_DTR ELSE 0) + (IF c.lines["RTS"] THEN MCR_RTS ELSE 0)

VARIABLES
    chip,      \* [enabled, baud, lctrl, lines]: the CP2102's state
    isOpen,    \* the port is open
    termios,   \* [baud, parity]: the tty's termios
    want,      \* want[l]: "on", "off", or "any" before any tiocmset
    mcr,       \* prv_dev->mcr
    msr,       \* prv_dev->msr
    calls

vars == <<chip, isOpen, termios, want, mcr, msr, calls>>

\* The chip after reset: 9600 baud, 8N1, interface disabled; the usb-serial
\* core's initial termios is 9600 8N1.
Init ==
    /\ chip = [enabled |-> FALSE, baud |-> 9600, lctrl |-> DATA_8_MASK,
               lines |-> [l \in Lines |-> FALSE]]
    /\ isOpen = FALSE
    /\ termios = [baud |-> 9600, parity |-> "none"]
    /\ want = [l \in Lines |-> "any"]
    /\ mcr = 0 /\ msr = 0 /\ calls = 0

Call == calls < MaxCalls /\ calls' = calls + 1

-----------------------------------------------------------------------------
\* serial_cp2102_open: cp2102_enableif, whose result is overwritten by that
\* of usb_serial_generic_open; if the latter fails, cp2102_disableif.
serial_cp2102_open ==
    /\ ~isOpen /\ Call
    /\ \E en \in Xfer, gen \in {TRUE, FALSE}, dis \in Xfer :
         LET c1 == IF en THEN cp2102_enableif(chip) ELSE chip
         IN /\ isOpen' = gen
            /\ chip' = IF ~gen /\ dis THEN cp2102_disableif(c1) ELSE c1
    /\ UNCHANGED <<termios, want, mcr, msr>>

\* serial_cp2102_close: usb_serial_generic_close, then cp2102_disableif.
serial_cp2102_close ==
    /\ isOpen /\ Call
    /\ isOpen' = FALSE
    /\ \E dis \in Xfer : chip' = IF dis THEN cp2102_disableif(chip) ELSE chip
    /\ UNCHANGED <<termios, want, mcr, msr>>

\* serial_cp2102_set_termios for a new speed and parity: nothing if the
\* hardware settings did not change; else cp2102_set_baud (for a speed > 0,
\* with DEFAULT_BAUD_RATE encoded into termios if it fails), then the line
\* control built on the uninitialised lctrl.
serial_cp2102_set_termios(b, par) ==
    /\ isOpen /\ Call
    /\ [baud |-> b, parity |-> par] # termios
    /\ \E okBaud \in Xfer, okLctrl \in Xfer, lctrl \in Garbage :
         LET parMask == CASE par = "odd" -> PARITY_ODD_MASK
                          [] par = "even" -> PARITY_EVEN_MASK
                          [] OTHER -> 0
             w == ((lctrl | parMask) | STOP_1_MASK) | DATA_8_MASK
             c1 == IF b > 0 /\ okBaud THEN cp2102_set_baud(chip, b) ELSE chip
         IN /\ chip' = IF okLctrl THEN cp2102_set_lctrl(c1, w) ELSE c1
            /\ termios' = [baud |-> IF b > 0 /\ ~okBaud THEN DEFAULT_BAUD_RATE ELSE b,
                           parity |-> par]
    /\ UNCHANGED <<isOpen, want, mcr, msr>>

\* serial_cp2102_tiocmset(set, clear) on the uninitialised mcr; the tty
\* layer passes disjoint sets.  It returns the result of the transfer.
serial_cp2102_tiocmset(set, clear) ==
    /\ isOpen /\ Call
    /\ \E ok \in Xfer, m0 \in Garbage :
         LET m1 == IF "RTS" \in set THEN (m0 | MCR_RTS) | MCR_RTS_MASK ELSE m0
             m2 == IF "DTR" \in set THEN (m1 | MCR_RTS) | MCR_DTR_MASK ELSE m1
             m3 == IF "RTS" \in clear THEN (m2 & (65535 - MCR_RTS)) | MCR_RTS_MASK ELSE m2
             m4 == IF "DTR" \in clear THEN (m3 & (65535 - MCR_DTR)) | MCR_DTR_MASK ELSE m3
         IN /\ mcr' = m4
            /\ chip' = IF ok THEN cp2102_set_mdmhndshk(chip, m4) ELSE chip
            /\ want' = IF ok THEN [l \in Lines |-> IF l \in set THEN "on"
                                                 ELSE IF l \in clear THEN "off"
                                                 ELSE want[l]]
                             ELSE want
    /\ UNCHANGED <<isOpen, termios, msr>>

\* serial_cp2102_tiocmget: GET_MDMSTS into msr, which is stored on success.
serial_cp2102_tiocmget ==
    /\ isOpen /\ Call
    /\ \E ok \in Xfer :
         msr' = IF ok THEN cp2102_get_mdmstat(chip) ELSE msr
    /\ UNCHANGED <<chip, isOpen, termios, want, mcr>>

Next ==
    \/ serial_cp2102_open \/ serial_cp2102_close \/ serial_cp2102_tiocmget
    \/ \E b \in Bauds, par \in Parities : serial_cp2102_set_termios(b, par)
    \/ \E set, clear \in SUBSET Lines :
           set \cap clear = {} /\ serial_cp2102_tiocmset(set, clear)

Spec == Init /\ [][Next]_vars

-----------------------------------------------------------------------------
TypeOK ==
    /\ chip.enabled \in BOOLEAN /\ chip.lines \in [Lines -> BOOLEAN]
    /\ chip.lctrl \in 0..65535 /\ mcr \in 0..65535 /\ msr \in 0..255
    /\ isOpen \in BOOLEAN /\ termios.parity \in {"none", "odd", "even"}
    /\ want \in [Lines -> {"on", "off", "any"}] /\ calls \in 0..MaxCalls

(* While the port is open the chip runs as the tty believes: its interface *)
(* is enabled, its speed (unless B0) and its line control (8 data bits, 1 *)
(* stop bit, the parity) are those of termios, and every modem line a     *)
(* successful tiocmset set or cleared is on or off as asked.              *)
ChipFollowsTty ==
    isOpen =>
        /\ chip.enabled
        /\ termios.baud > 0 => chip.baud = termios.baud
        /\ ParityOf(chip.lctrl) = termios.parity
        /\ WordLength(chip.lctrl) = 8 /\ StopBits(chip.lctrl) = 0
        /\ \A l \in Lines : want[l] # "any" => chip.lines[l] = (want[l] = "on")
=============================================================================
