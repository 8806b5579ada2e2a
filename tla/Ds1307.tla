------------------------------- MODULE Ds1307 -------------------------------
(***************************************************************************)
(* The read_time and set_time operations of ds1307_rtc.c against the      *)
(* DS1307 chips they drive.                                               *)
(*                                                                         *)
(* A chip keeps the time in seven BCD registers and advances them once a  *)
(* second.  ds1307_get_time reads the registers one SMBus transaction at  *)
(* a time into the global array rtc_info, then converts rtc_info into a   *)
(* struct rtc_time.  ds1307_set_time converts a struct rtc_time into      *)
(* rtc_info and writes it out one register at a time.  The RTC core       *)
(* serialises the operations of one device (rtc->ops_lock); rtc_info is   *)
(* shared by all devices.                                                  *)
(*                                                                         *)
(* clock[d] is the time device d should hold: the last time set, advanced *)
(* by the ticks since.  A time is a record of the struct rtc_time fields  *)
(* the driver uses.                                                       *)
(***************************************************************************)
EXTENDS Integers, Sequences, FiniteSets, Bitwise

CONSTANTS
    Devices,     \* the DS1307 chips bound to the driver
    InitTimes,   \* the times a chip may hold when the driver binds
    SetTimes,    \* the times set_time may be asked to set (rtc_valid_tm passed)
    MaxTicks,    \* bound on the seconds that elapse
    MaxCalls     \* bound on the calls of get_time and set_time

NrRegs == 7                           \* NR_REGS; register i+1 is offset i
RtcInfoInit == <<1, 1, 1, 1, 1, 1, 71>>

\* bcd2bin: (val & 0x0f) + (val >> 4) * 10.
Bcd2Bin(b) == (b & 15) + (b \div 16) * 10

(* bin2bcd: ((val / 10) << 4) + val % 10 computed on the unsigned int val *)
(* and returned as an unsigned char.  Modulo 256 the result depends only  *)
(* on val modulo 160, and a negative int converts to unsigned as x + 2^32 *)
(* with 2^32 = 96 (mod 160).                                               *)
Bin2Bcd(x) ==
    LET v == IF x >= 0 THEN x % 160 ELSE ((x % 160) + 96) % 160
    IN (v \div 10) * 16 + (v % 10)

\* Leap years of the Gregorian calendar, and of the chip, which has a
\* two-digit year and takes every fourth one.
GregorianLeap(y) == (y % 4 = 0 /\ y % 100 # 0) \/ y % 400 = 0
ChipLeap(y) == (y - 2000) % 4 = 0

DaysIn(mon, y, Leap(_)) ==
    CASE mon = 1 -> IF Leap(y) THEN 29 ELSE 28
      [] mon \in {3, 5, 8, 10} -> 30
      [] OTHER -> 31

\* The time one second after t; tm_mon counts from 0 and tm_year from 1900.
Succ(t, Leap(_)) ==
    LET c1 == t.sec = 59
        c2 == c1 /\ t.min = 59
        c3 == c2 /\ t.hour = 23
        c4 == c3 /\ t.mday = DaysIn(t.mon, 1900 + t.year, Leap)
        c5 == c4 /\ t.mon = 11
        Up(v, carry, wrap, first) == IF ~carry THEN v ELSE IF wrap THEN first ELSE v + 1
    IN [sec  |-> Up(t.sec, TRUE, c1, 0),
        min  |-> Up(t.min, c1, c2, 0),
        hour |-> Up(t.hour, c2, c3, 0),
        wday |-> Up(t.wday, c3, t.wday = 6, 0),
        mday |-> Up(t.mday, c3, c4, 1),
        mon  |-> Up(t.mon, c4, c5, 0),
        year |-> Up(t.year, c5, FALSE, 0)]

(* The chip, with the clock-halt bit clear and in 24-hour mode, holds     *)
(* each field in BCD, the day of the week from 1 and a two-digit year.    *)
ChipRegs(t) ==
    <<Bin2Bcd(t.sec), Bin2Bcd(t.min), Bin2Bcd(t.hour), Bin2Bcd(t.wday + 1),
      Bin2Bcd(t.mday), Bin2Bcd(t.mon + 1), Bin2Bcd((t.year - 100) % 100)>>
ChipTime(r) ==
    [sec |-> Bcd2Bin(r[1]), min |-> Bcd2Bin(r[2]), hour |-> Bcd2Bin(r[3]),
     wday |-> Bcd2Bin(r[4]) - 1, mday |-> Bcd2Bin(r[5]),
     mon |-> Bcd2Bin(r[6]) - 1, year |-> 100 + Bcd2Bin(r[7])]
ChipTick(r) == ChipRegs(Succ(ChipTime(r), ChipLeap))

VARIABLES
    reg,       \* reg[d]: the registers of chip d
    clock,     \* clock[d]: the time chip d should hold
    rtc_info,  \* the driver's global register buffer
    pc,        \* pc[d]: "idle", "get" or "set"
    idx,       \* idx[d]: the registers transferred by the call in progress
    arg,       \* arg[d]: the time the set_time in progress sets
    during,    \* during[d]: the values of clock[d] since the last get began
    ret,       \* ret[d]: {} or {the time the last get returned}
    ticks,     \* seconds elapsed
    calls      \* calls made

vars == <<reg, clock, rtc_info, pc, idx, arg, during, ret, ticks, calls>>

Init ==
    /\ clock \in [Devices -> InitTimes]
    /\ reg = [d \in Devices |-> ChipRegs(clock[d])]
    /\ rtc_info = RtcInfoInit
    /\ pc = [d \in Devices |-> "idle"]
    /\ idx = [d \in Devices |-> 0]
    /\ arg = [d \in Devices |-> CHOOSE t \in InitTimes : TRUE]
    /\ during = [d \in Devices |-> {}]
    /\ ret = [d \in Devices |-> {}]
    /\ ticks = 0 /\ calls = 0

-----------------------------------------------------------------------------
\* One second passes on chip d.  Writing the seconds register resets the
\* chip's countdown, so no second passes between that write and the last
\* of set_time's writes, which follow it within milliseconds.
Tick(d) ==
    /\ ticks < MaxTicks
    /\ ~(pc[d] = "set" /\ idx[d] >= 1)
    /\ reg' = [reg EXCEPT ![d] = ChipTick(@)]
    /\ clock' = [clock EXCEPT ![d] = Succ(@, GregorianLeap)]
    /\ during' = [during EXCEPT ![d] = IF pc[d] = "get" THEN @ \cup {clock'[d]} ELSE @]
    /\ ticks' = ticks + 1
    /\ UNCHANGED <<rtc_info, pc, idx, arg, ret, calls>>

\* ds1307_get_time: each i2c_smbus_read_byte_data stores one register in
\* rtc_info; the first one starts the call.
GetRead(d) ==
    /\ \/ pc[d] = "idle" /\ calls < MaxCalls /\ calls' = calls + 1
          /\ during' = [during EXCEPT ![d] = {clock[d]}]
          /\ ret' = [ret EXCEPT ![d] = {}]
       \/ pc[d] = "get" /\ idx[d] < NrRegs /\ UNCHANGED <<calls, during, ret>>
    /\ rtc_info' = [rtc_info EXCEPT ![idx[d] + 1] = reg[d][idx[d] + 1]]
    /\ idx' = [idx EXCEPT ![d] = @ + 1]
    /\ pc' = [pc EXCEPT ![d] = "get"]
    /\ UNCHANGED <<reg, clock, arg, ticks>>

\* The conversion of rtc_info into the struct rtc_time, with its masks.
GetConvert(d) ==
    /\ pc[d] = "get" /\ idx[d] = NrRegs
    /\ ret' = [ret EXCEPT ![d] =
         {[sec |-> Bcd2Bin(rtc_info[1] & 127), min |-> Bcd2Bin(rtc_info[2] & 127),
           hour |-> Bcd2Bin(rtc_info[3] & 63), wday |-> Bcd2Bin(rtc_info[4] & 7) - 1,
           mday |-> Bcd2Bin(rtc_info[5] & 63), mon |-> Bcd2Bin(rtc_info[6] & 31) - 1,
           year |-> Bcd2Bin(rtc_info[7]) + 100]}]
    /\ pc' = [pc EXCEPT ![d] = "idle"]
    /\ idx' = [idx EXCEPT ![d] = 0]
    /\ UNCHANGED <<reg, clock, rtc_info, arg, during, ticks, calls>>

\* ds1307_set_time: t is converted into rtc_info.
SetStart(d, t) ==
    /\ pc[d] = "idle" /\ calls < MaxCalls
    /\ rtc_info' = <<Bin2Bcd(t.sec), Bin2Bcd(t.min), Bin2Bcd(t.hour),
                     Bin2Bcd(t.wday + 1), Bin2Bcd(t.mday), Bin2Bcd(t.mon + 1),
                     Bin2Bcd(t.year - 100)>>
    /\ pc' = [pc EXCEPT ![d] = "set"]
    /\ arg' = [arg EXCEPT ![d] = t]
    /\ calls' = calls + 1
    /\ UNCHANGED <<reg, clock, idx, during, ret, ticks>>

\* Each i2c_smbus_write_byte_data writes one byte of rtc_info to the chip;
\* after the last one the device holds the time set.
SetWrite(d) ==
    /\ pc[d] = "set"
    /\ reg' = [reg EXCEPT ![d][idx[d] + 1] = rtc_info[idx[d] + 1]]
    /\ LET last == idx[d] + 1 = NrRegs
       IN /\ idx' = [idx EXCEPT ![d] = IF last THEN 0 ELSE @ + 1]
          /\ pc' = [pc EXCEPT ![d] = IF last THEN "idle" ELSE "set"]
          /\ clock' = IF last THEN [clock EXCEPT ![d] = arg[d]] ELSE clock
    /\ UNCHANGED <<rtc_info, arg, during, ret, ticks, calls>>

Next ==
    \E d \in Devices :
        \/ Tick(d) \/ GetRead(d) \/ GetConvert(d) \/ SetWrite(d)
        \/ \E t \in SetTimes : SetStart(d, t)

Spec == Init /\ [][Next]_vars

-----------------------------------------------------------------------------
TypeOK ==
    /\ reg \in [Devices -> [1..NrRegs -> 0..255]]
    /\ rtc_info \in [1..NrRegs -> 0..255]
    /\ pc \in [Devices -> {"idle", "get", "set"}]
    /\ idx \in [Devices -> 0..NrRegs]
    /\ ticks \in 0..MaxTicks /\ calls \in 0..MaxCalls

(* read_time returns a time the device's clock held at some instant of    *)
(* the call: the seven registers are read as one snapshot, rtc_info holds *)
(* this device's registers when converted, and a time set_time stored    *)
(* comes back as set.                                                     *)
GetReturnsClockTime == \A d \in Devices : ret[d] \subseteq during[d]
=============================================================================
