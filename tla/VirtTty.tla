------------------------------- MODULE VirtTty -------------------------------
(***************************************************************************)
(* The open count and the send timer of 16.virt_tty/virt_tty.c, from the *)
(* end of a successful virttty_init to the kfree of virttty_exit.          *)
(*                                                                         *)
(* The tty core allocates the tty_struct on the first open of the device  *)
(* and frees it after the last close.  virttty_open and do_close run      *)
(* under virt_tty_prv->mutex: the first open sets the timer up and arms   *)
(* it, the last close del_timers it.  timer_cbk pushes a string to        *)
(* dev->tty's port and re-arms itself unconditionally; it runs in softirq *)
(* context on any CPU and takes no lock.  virttty_exit runs only with no  *)
(* file open (each open holds a module reference).                        *)
(*                                                                         *)
(* virt_tty_prv comes from kmalloc, so its timer_list is garbage until    *)
(* timer_setup: Timer is in live once it has been set up.  A tty is      *)
(* numbered by the open that allocated it.                                *)
(***************************************************************************)
EXTENDS Naturals

CONSTANTS
    MaxOpens     \* bound on the calls of virttty_open

Prv == MaxOpens + 1    \* virt_tty_prv
Timer == MaxOpens + 2  \* virt_tty_prv->timer, as an initialised timer_list

VARIABLES
    open_count,  \* virt_tty_prv->open_count
    tty,         \* virt_tty_prv->tty: the number of the tty last opened, 0 for none
    timer,       \* [pending |-> BOOLEAN, running |-> BOOLEAN]
    opens,       \* the opens so far
    live,        \* the objects allocated: Prv, Timer and the live tty
    ex,          \* virttty_exit: "no", "del_timer" (done) or "freed"
    acc          \* the objects the last step dereferenced

vars == <<open_count, tty, timer, opens, live, ex, acc>>

Init ==
    /\ open_count = 0
    /\ tty = 0
    /\ timer = [pending |-> FALSE, running |-> FALSE]
    /\ opens = 0
    /\ live = {Prv}
    /\ ex = "no"
    /\ acc = {}

-----------------------------------------------------------------------------
\* virttty_open on the tty the core allocated for the first open, or on
\* the one still open.
virttty_open ==
    /\ ex = "no" /\ opens < MaxOpens
    /\ open_count > 0 \/ tty \notin live
    /\ LET t == IF open_count = 0 THEN opens + 1 ELSE tty
           first == open_count = 0
       IN /\ tty' = t
          /\ open_count' = open_count + 1
          /\ timer' = IF first THEN [timer EXCEPT !.pending = TRUE] ELSE timer
          /\ live' = live \cup {t} \cup (IF first THEN {Timer} ELSE {})
          /\ acc' = {Prv, t}
    /\ opens' = opens + 1
    /\ UNCHANGED ex

\* virttty_close -> do_close: the last close del_timers.
virttty_close ==
    /\ open_count > 0
    /\ open_count' = open_count - 1
    /\ timer' = IF open_count = 1 THEN [timer EXCEPT !.pending = FALSE] ELSE timer
    /\ acc' = {Prv, tty} \cup (IF open_count = 1 THEN {Timer} ELSE {})
    /\ UNCHANGED <<tty, opens, live, ex>>

\* After the last close the tty core frees the tty_struct.
TtyRelease ==
    /\ open_count = 0 /\ tty \in live
    /\ live' = live \ {tty}
    /\ acc' = {}
    /\ UNCHANGED <<open_count, tty, timer, opens, ex>>

\* virttty_write: under the mutex, log the bytes if the device is open.
virttty_write ==
    /\ open_count > 0
    /\ acc' = {Prv, tty}
    /\ UNCHANGED <<open_count, tty, timer, opens, live, ex>>

TimerExpire ==
    /\ timer.pending /\ ~timer.running
    /\ timer' = [pending |-> FALSE, running |-> TRUE]
    /\ acc' = {Prv, Timer}
    /\ UNCHANGED <<open_count, tty, opens, live, ex>>

\* timer_cbk: tty_insert_flip_string and tty_flip_buffer_push on
\* dev->tty->port, then mod_timer.
timer_cbk ==
    /\ timer.running
    /\ timer' = [pending |-> TRUE, running |-> FALSE]
    /\ acc' = {Prv, Timer, tty}
    /\ UNCHANGED <<open_count, tty, opens, live, ex>>

\* virttty_exit, after the tty driver is unregistered: no file is open, so
\* the do_close loop does nothing; del_timer, then kfree(virt_tty_prv).
virttty_exit ==
    /\ ex = "no" /\ open_count = 0 /\ tty \notin live
    /\ timer' = [timer EXCEPT !.pending = FALSE]
    /\ ex' = "del_timer"
    /\ acc' = {Prv, Timer}
    /\ UNCHANGED <<open_count, tty, opens, live>>

ExitFree ==
    /\ ex = "del_timer"
    /\ ex' = "freed"
    /\ live' = {}
    /\ acc' = {}
    /\ UNCHANGED <<open_count, tty, timer, opens>>

Next ==
    \/ virttty_open \/ virttty_close \/ TtyRelease \/ virttty_write
    \/ TimerExpire \/ timer_cbk \/ virttty_exit \/ ExitFree

Spec == Init /\ [][Next]_vars

-----------------------------------------------------------------------------
TypeOK ==
    /\ open_count \in 0..MaxOpens /\ tty \in 0..MaxOpens /\ opens \in 0..MaxOpens
    /\ timer \in [pending : BOOLEAN, running : BOOLEAN]
    /\ ex \in {"no", "del_timer", "freed"}
    /\ live \subseteq 1..MaxOpens + 2
    /\ acc \subseteq 0..MaxOpens + 2

(* No step touches virt_tty_prv after kfree, its timer_list before        *)
(* timer_setup, or a tty after the tty core freed it: after the last      *)
(* close no timer_cbk is pending or running.                               *)
NoUseAfterFree == acc \subseteq live
=============================================================================
