------------------------------ MODULE JitAsync ------------------------------
(***************************************************************************)
(* /proc/jitimer, /proc/jitasklet and /proc/jitasklethi of jit.c.  A read *)
(* of one of them calls show, which allocates a jit_data, arms a timer or *)
(* a tasklet that prints a line into the seq_file m and re-arms itself    *)
(* until --data->loops reaches 0, then wakes show; show sleeps in         *)
(* wait_event_interruptible until then, frees the jit_data and returns.   *)
(*                                                                         *)
(* The callback runs in softirq context on any CPU, concurrently with the *)
(* reader.  A signal ends the wait early; a restarted read calls show     *)
(* again.  jit_cleanup removes the proc entries, which closes the files   *)
(* still open, and the module's code goes with it.                        *)
(*                                                                         *)
(* acc is the set of objects the last step dereferenced: the seq_file M,  *)
(* the module's code Text, and jit_data i for i in 1..MaxShows.           *)
(***************************************************************************)
EXTENDS Naturals, FiniteSets

CONSTANTS
    Loops,      \* JIT_ASYNC_LOOPS
    MaxShows,   \* bound on the calls of show, each allocating a jit_data
    Signals     \* whether a signal may be sent to the reader

ASSUME Loops \in Nat \ {0} /\ MaxShows \in Nat \ {0} /\ Signals \in BOOLEAN

Files == {"jitimer", "jitasklet", "jitasklethi"}
M == 0          \* the seq_file of the open file
Text == MaxShows + 1  \* the module's code, which the callbacks execute
Ids == 1..MaxShows

VARIABLES
    file,    \* the proc file the reader has open
    rpc,     \* the reader: "idle", "check", "asleep", "after" or "closed"
    sig,     \* a signal is pending for the reader
    shows,   \* the jit_data allocated so far
    cur,     \* the jit_data of the show in progress
    live,    \* the objects allocated and not yet freed
    loops,   \* loops[i]: data->loops of jit_data i
    cb,      \* cb[i]: "none", "armed", "wake" (loops hit 0) or "done"
    acc      \* the objects the last step dereferenced

vars == <<file, rpc, sig, shows, cur, live, loops, cb, acc>>

Init ==
    /\ file \in Files
    /\ rpc = "idle"
    /\ sig = FALSE
    /\ shows = 0
    /\ cur = 0
    /\ live = {M, Text}
    /\ loops = [i \in Ids |-> 0]
    /\ cb = [i \in Ids |-> "none"]
    /\ acc = {}

-----------------------------------------------------------------------------
\* kmalloc fails: show returns -ENOMEM having touched nothing.
NoMem ==
    /\ acc' = {}
    /\ UNCHANGED <<file, rpc, sig, shows, cur, live, loops, cb>>

\* kmalloc succeeds: the header goes into m, data->m = m, data->loops =
\* JIT_ASYNC_LOOPS, the timer or tasklet is armed, and show goes on to wait.
Arm(n) ==
    /\ live' = live \cup {n}
    /\ loops' = [loops EXCEPT ![n] = Loops]
    /\ cb' = [cb EXCEPT ![n] = "armed"]
    /\ cur' = n /\ shows' = n
    /\ rpc' = "check"
    /\ acc' = {M, n}
    /\ UNCHANGED <<file, sig>>

jit_timer_show ==
    /\ rpc = "idle" /\ file = "jitimer" /\ shows < MaxShows
    /\ NoMem \/ Arm(shows + 1)

jit_tasklet_show ==
    /\ rpc = "idle" /\ file \in {"jitasklet", "jitasklethi"} /\ shows < MaxShows
    /\ NoMem \/ Arm(shows + 1)

\* wait_event_interruptible(data->wait, !data->loops): the task is queued on
\* data->wait, the condition is tested, a pending signal ends the wait, and
\* otherwise the task sleeps until a wake-up or a signal.
WaitEvent ==
    /\ rpc = "check"
    /\ rpc' = IF loops[cur] = 0 \/ sig THEN "after" ELSE "asleep"
    /\ acc' = {cur}
    /\ UNCHANGED <<file, sig, shows, cur, live, loops, cb>>

\* After the wait: with a signal pending show returns -ERESTARTSYS, leaving
\* the jit_data allocated and its callback armed; otherwise it frees the
\* jit_data and returns 0.  The signal is delivered on the way out, and the
\* reader may read again or close.
ShowReturn ==
    /\ rpc = "after"
    /\ IF sig THEN sig' = FALSE /\ UNCHANGED live
              ELSE live' = live \ {cur} /\ UNCHANGED sig
    /\ rpc' = "idle"
    /\ acc' = {}
    /\ UNCHANGED <<file, shows, cur, loops, cb>>

\* A signal for the reader wakes it if it sleeps in the wait.
Signal ==
    /\ Signals /\ ~sig /\ rpc \in {"check", "asleep", "after"}
    /\ sig' = TRUE
    /\ rpc' = IF rpc = "asleep" THEN "check" ELSE rpc
    /\ acc' = {}
    /\ UNCHANGED <<file, shows, cur, live, loops, cb>>

\* single_release frees the seq_file.
Close ==
    /\ rpc = "idle"
    /\ rpc' = "closed"
    /\ live' = live \ {M}
    /\ acc' = {}
    /\ UNCHANGED <<file, sig, shows, cur, loops, cb>>

\* One run of the callback up to its wake-up: seq_printf(data->m, ...),
\* --data->loops, and the re-arm while it is not 0.
Fire(i) ==
    /\ cb[i] = "armed"
    /\ loops' = [loops EXCEPT ![i] = @ - 1]
    /\ cb' = [cb EXCEPT ![i] = IF loops[i] - 1 # 0 THEN "armed" ELSE "wake"]
    /\ acc' = {Text, i, M}
    /\ UNCHANGED <<file, rpc, sig, shows, cur, live>>

jit_timer_fn(i) == file = "jitimer" /\ Fire(i)

jit_tasklet_fn(i) == file # "jitimer" /\ Fire(i)

\* The last run of the callback calls wake_up_interruptible(&data->wait).
WakeUp(i) ==
    /\ cb[i] = "wake"
    /\ cb' = [cb EXCEPT ![i] = "done"]
    /\ rpc' = IF rpc = "asleep" /\ cur = i THEN "check" ELSE rpc
    /\ acc' = {Text, i}
    /\ UNCHANGED <<file, sig, shows, cur, live, loops>>

\* jit_cleanup: remove_proc_entry waits for a show in progress, then
\* releases the open file; the module's code is freed after it.
jit_cleanup ==
    /\ rpc \in {"idle", "closed"} /\ Text \in live
    /\ rpc' = "closed"
    /\ live' = live \ {M, Text}
    /\ acc' = {}
    /\ UNCHANGED <<file, sig, shows, cur, loops, cb>>

Next ==
    \/ jit_timer_show \/ jit_tasklet_show \/ WaitEvent \/ ShowReturn
    \/ Signal \/ Close \/ jit_cleanup
    \/ \E i \in Ids : jit_timer_fn(i) \/ jit_tasklet_fn(i) \/ WakeUp(i)

Spec == Init /\ [][Next]_vars

-----------------------------------------------------------------------------
TypeOK ==
    /\ file \in Files
    /\ rpc \in {"idle", "check", "asleep", "after", "closed"}
    /\ sig \in BOOLEAN /\ shows \in 0..MaxShows /\ cur \in 0..MaxShows
    /\ live \subseteq Ids \cup {M, Text} /\ acc \subseteq Ids \cup {M, Text}
    /\ loops \in [Ids -> 0..Loops]
    /\ cb \in [Ids -> {"none", "armed", "wake", "done"}]

(* Neither show nor the timer or tasklet callback dereferences a jit_data  *)
(* after kfree, the seq_file after single_release, or the module's code   *)
(* after jit_cleanup: the callback's last touch of data (its wake_up)     *)
(* comes before show frees it, and no callback outlives the file.         *)
NoUseAfterFree == acc \subseteq live
=============================================================================
