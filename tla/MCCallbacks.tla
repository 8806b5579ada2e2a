----------------------------- MODULE MCCallbacks -----------------------------
(***************************************************************************)
(* The drivers whose timer or tasklet callbacks run concurrently with the *)
(* code that frees what they use: jit (JitAsync), gpio_pulse (GpioPulse)  *)
(* and virt_tty (VirtTty).  They share no state; one run checks them all  *)
(* by letting the initial state choose the driver, as MCLifecycle does    *)
(* for the set-up chains.  Drivers in the cfg restricts the choice.       *)
(***************************************************************************)
EXTENDS Naturals

CONSTANTS
    Drivers,                    \* a subset of {"jit", "gpio_pulse", "virt_tty"}
    Loops, MaxShows, Signals,   \* of JitAsync
    Enables, MaxStores,         \* of GpioPulse
    MaxOpens                    \* of VirtTty

VARIABLES
    drv,
    file, rpc, sig, shows, cur, loops, cb, jlive, jacc,
    gtimer, enablepulse, rm, glive, stores, gacc,
    open_count, tty, vtimer, opens, vlive, ex, vacc

jvars == <<file, rpc, sig, shows, cur, loops, cb, jlive, jacc>>
gvars == <<gtimer, enablepulse, rm, glive, stores, gacc>>
vvars == <<open_count, tty, vtimer, opens, vlive, ex, vacc>>

J == INSTANCE JitAsync WITH live <- jlive, acc <- jacc
G == INSTANCE GpioPulse WITH timer <- gtimer, live <- glive, acc <- gacc
V == INSTANCE VirtTty WITH timer <- vtimer, live <- vlive, acc <- vacc

Init == drv \in Drivers /\ J!Init /\ G!Init /\ V!Init

Next ==
    \/ drv = "jit" /\ J!Next /\ UNCHANGED <<drv, gvars, vvars>>
    \/ drv = "gpio_pulse" /\ G!Next /\ UNCHANGED <<drv, jvars, vvars>>
    \/ drv = "virt_tty" /\ V!Next /\ UNCHANGED <<drv, jvars, gvars>>

Spec == Init /\ [][Next]_<<drv, jvars, gvars, vvars>>

(* No callback, and no operation of the driver, dereferences memory that  *)
(* has been freed or never initialised: the callbacks of each driver are  *)
(* stopped before what they use goes away.                                *)
CallbacksNoUseAfterFree ==
    J!NoUseAfterFree /\ G!NoUseAfterFree /\ V!NoUseAfterFree
=============================================================================
