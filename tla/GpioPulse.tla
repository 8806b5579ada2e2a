------------------------------ MODULE GpioPulse ------------------------------
(***************************************************************************)
(* The pulse timer of 14.gpio_pulse/pltdrv_gpiopulse.c from the end of a  *)
(* successful probe to the release of the device's devres.                *)
(*                                                                         *)
(* timer_cbk toggles the pin and re-arms itself while enablepulse is set; *)
(* the sysfs store enablepulse_store sets enablepulse and arms the timer. *)
(* pltdrv_gpiopulse_remove calls del_timer, which removes a pending timer *)
(* but does not wait for a callback running on another CPU, then          *)
(* device_unregister, which removes the sysfs files and waits for stores  *)
(* in progress; afterwards the driver core frees the devres, priv_dev and *)
(* with it the timer_list, among them.                                     *)
(*                                                                         *)
(* The timer is pending (queued on the timer wheel) and running (its      *)
(* callback executing) independently: a running callback may be re-armed. *)
(* acc is the set of objects the last step dereferenced.                  *)
(***************************************************************************)
EXTENDS Naturals

CONSTANTS
    Enables,     \* the values of org,enablepulse and of enablepulse_store
    MaxStores    \* bound on the sysfs stores

VARIABLES
    timer,        \* [pending |-> BOOLEAN, running |-> BOOLEAN]
    enablepulse,  \* priv_dev->plt_data_prv.enablepulse
    rm,           \* "bound", "del_timer", "unregistered" or "released"
    live,         \* the objects allocated: "priv" and the sysfs "device"
    stores,       \* the sysfs stores made
    acc           \* the objects the last step dereferenced

vars == <<timer, enablepulse, rm, live, stores, acc>>

\* Probe has armed the timer with mod_timer and set the driver data.
Init ==
    /\ timer = [pending |-> TRUE, running |-> FALSE]
    /\ enablepulse \in Enables
    /\ rm = "bound"
    /\ live = {"priv", "device"}
    /\ stores = 0
    /\ acc = {}

-----------------------------------------------------------------------------
\* The timer wheel takes the expired timer off its list (through the
\* timer_list inside priv_dev) and calls timer_cbk.
TimerExpire ==
    /\ timer.pending /\ ~timer.running
    /\ timer' = [pending |-> FALSE, running |-> TRUE]
    /\ acc' = {"priv"}
    /\ UNCHANGED <<enablepulse, rm, live, stores>>

\* timer_cbk: toggle the pin, and mod_timer if enablepulse is set.
timer_cbk ==
    /\ timer.running
    /\ timer' = [pending |-> timer.pending \/ enablepulse # 0, running |-> FALSE]
    /\ acc' = {"priv"}
    /\ UNCHANGED <<enablepulse, rm, live, stores>>

\* The sysfs stores run until device_unregister has removed the files.
enablepulse_store(v) ==
    /\ "device" \in live /\ stores < MaxStores
    /\ enablepulse' = v
    /\ timer' = [timer EXCEPT !.pending = @ \/ v # 0]
    /\ stores' = stores + 1
    /\ acc' = {"priv"}
    /\ UNCHANGED <<rm, live>>

pulsetime_store ==
    /\ "device" \in live /\ stores < MaxStores
    /\ stores' = stores + 1
    /\ acc' = {"priv"}
    /\ UNCHANGED <<timer, enablepulse, rm, live>>

\* pltdrv_gpiopulse_remove: del_timer, then device_unregister.
RemoveDelTimer ==
    /\ rm = "bound"
    /\ timer' = [timer EXCEPT !.pending = FALSE]
    /\ rm' = "del_timer"
    /\ acc' = {"priv"}
    /\ UNCHANGED <<enablepulse, live, stores>>

RemoveUnregister ==
    /\ rm = "del_timer"
    /\ rm' = "unregistered"
    /\ live' = live \ {"device"}
    /\ acc' = {"priv"}
    /\ UNCHANGED <<timer, enablepulse, stores>>

\* After remove returns the driver core releases the devres.
DevresRelease ==
    /\ rm = "unregistered"
    /\ rm' = "released"
    /\ live' = live \ {"priv"}
    /\ acc' = {}
    /\ UNCHANGED <<timer, enablepulse, stores>>

Next ==
    \/ TimerExpire \/ timer_cbk \/ pulsetime_store
    \/ \E v \in Enables : enablepulse_store(v)
    \/ RemoveDelTimer \/ RemoveUnregister \/ DevresRelease

Spec == Init /\ [][Next]_vars

-----------------------------------------------------------------------------
TypeOK ==
    /\ timer \in [pending : BOOLEAN, running : BOOLEAN]
    /\ enablepulse \in Enables
    /\ rm \in {"bound", "del_timer", "unregistered", "released"}
    /\ live \subseteq {"priv", "device"} /\ acc \subseteq {"priv"}
    /\ stores \in 0..MaxStores

(* Neither the timer nor a sysfs store touches priv_dev after the devres  *)
(* release: once remove has run, no timer_cbk is pending or running.     *)
NoUseAfterFree == acc \subseteq live
=============================================================================
