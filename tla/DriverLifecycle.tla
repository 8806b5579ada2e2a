--------------------------- MODULE DriverLifecycle ---------------------------
(***************************************************************************)
(* The set-up and tear-down of a driver (module init and exit, or probe   *)
(* and remove) racing the users of the interface it publishes.             *)
(*                                                                         *)
(* The set-up function is a straight line of calls, each acquiring a      *)
(* resource, followed by the goto labels that release what was acquired   *)
(* when a call fails.  The chain of each driver d in Drivers is data given *)
(* by the MC module: Steps(d)[i] says what call i acquires and how its    *)
(* failure is handled, and Unwind(d, i) is the sequence of releases the   *)
(* code executes when call i fails, label fall-through included.          *)
(* Teardown(d) is the release sequence of the exit or remove function.    *)
(* A behaviour runs the chain of one driver, chosen at the start.         *)
(*                                                                         *)
(* Users reach the driver through the resource Entry(d) (a cdev, a tty, a *)
(* sysfs group): once it is held they may open, start and finish          *)
(* operations, and close; an operation uses the resources in Uses(d).  Two*)
(* rules of the kernel decide how users and tear-down interact:           *)
(*   Drains:  releasing Entry waits for operations in progress and later  *)
(*            operations fail (sysfs/kernfs, tty); otherwise an open file *)
(*            keeps working after the release (cdev_del).                 *)
(*   ExitWhileOpen:  tear-down may start with files open (remove of a     *)
(*            bound device); otherwise the module reference each open     *)
(*            takes keeps exit from running.                              *)
(***************************************************************************)
EXTENDS Integers, Sequences, FiniteSets, SequencesExt

CONSTANTS
    Drivers,           \* the drivers whose chains are checked
    Steps(_),          \* Steps(d): the calls of the set-up function, in order
    Unwind(_, _),      \* Unwind(d, i): the releases run when call i fails
    Teardown(_),       \* the releases of the exit or remove function
    Harmless(_),       \* releases that do nothing when not acquired
    Nested(_),         \* <<r, c>>: releasing r releases c with it
    Entry(_),          \* the resource through which users reach the driver
    Uses(_),           \* the resources an operation of a user touches
    Drains(_),         \* releasing Entry waits for operations in progress
    ExitWhileOpen(_),  \* tear-down may start while users have it open
    Users              \* user processes (model values)

(* The kinds of call: a call whose failure jumps to its label; a call     *)
(* whose result is not tested, so that a failure acquires nothing and the *)
(* set-up goes on; a test of earlier results that jumps when one of the   *)
(* resources in need is missing; a test of an input (platform data, a     *)
(* device-tree property) that may fail and acquires nothing; a call that  *)
(* cannot fail; and a call whose result is not tested that acquires one   *)
(* of several sets of resources (a helper that registers a group and on a *)
(* failure undoes part of it).                                            *)
Kinds == {"call", "unchecked", "check", "test", "infallible", "partial"}

ASSUME \A d \in Drivers :
         /\ \A i \in DOMAIN Steps(d) : Steps(d)[i].kind \in Kinds
         /\ Drains(d) \in BOOLEAN /\ ExitWhileOpen(d) \in BOOLEAN

\* What a step may acquire; a test or a check acquires nothing (res "").
Acquires(s) == IF s.kind = "partial" THEN UNION s.outcomes ELSE {s.res}
Resources == UNION {UNION {Acquires(Steps(d)[i]) : i \in DOMAIN Steps(d)} : d \in Drivers} \ {""}

VARIABLES
    drv,      \* the driver whose chain runs
    phase,    \* "setup", "unwind", "up", "teardown", "failed" or "down"
    step,     \* the next call of the set-up function
    held,     \* the resources acquired and not yet released
    todo,     \* the releases still to run, in order
    relLog,   \* every release run, in order
    isOpen,   \* isOpen[u]: u has the driver open
    inOp      \* inOp[u]: an operation of u is in progress

vars == <<drv, phase, step, held, todo, relLog, isOpen, inOp>>
users == <<isOpen, inOp>>

Init ==
    /\ drv \in Drivers
    /\ phase = "setup"
    /\ step = 1
    /\ held = {}
    /\ todo = <<>>
    /\ relLog = <<>>
    /\ isOpen = [u \in Users |-> FALSE]
    /\ inOp = [u \in Users |-> FALSE]

-----------------------------------------------------------------------------
\* Call number step of the set-up function returns.
SetupStep ==
    /\ phase = "setup" /\ step <= Len(Steps(drv))
    /\ LET s == Steps(drv)[step]
           Acquired == /\ held' = held \cup {s.res}
                       /\ step' = step + 1
                       /\ UNCHANGED <<phase, todo>>
           Jump == /\ phase' = "unwind"
                   /\ todo' = Unwind(drv, step)
                   /\ UNCHANGED <<held, step>>
       IN CASE s.kind = "infallible" -> Acquired
            [] s.kind = "call" -> Acquired \/ Jump
            [] s.kind = "unchecked" ->
                 Acquired \/ (step' = step + 1 /\ UNCHANGED <<phase, held, todo>>)
            [] s.kind = "check" ->
                 IF s.need \subseteq held
                 THEN step' = step + 1 /\ UNCHANGED <<phase, held, todo>>
                 ELSE Jump
            [] s.kind = "test" ->
                 (step' = step + 1 /\ UNCHANGED <<phase, held, todo>>) \/ Jump
            [] s.kind = "partial" ->
                 /\ \E o \in s.outcomes : held' = held \cup o
                 /\ step' = step + 1 /\ UNCHANGED <<phase, todo>>
    /\ UNCHANGED <<relLog, users>>

\* The set-up function returns 0.
SetupDone ==
    /\ phase = "setup" /\ step > Len(Steps(drv))
    /\ phase' = "up"
    /\ UNCHANGED <<step, held, todo, relLog, users>>

\* The next release of an unwind or a tear-down runs.  Releasing Entry
\* where the kernel drains waits for the operations in progress.
Release ==
    /\ phase \in {"unwind", "teardown"} /\ todo # <<>>
    /\ Drains(drv) /\ Head(todo) = Entry(drv) => \A u \in Users : ~inOp[u]
    /\ held' = held \ ({Head(todo)} \cup {c[2] : c \in {x \in Nested(drv) : x[1] = Head(todo)}})
    /\ relLog' = Append(relLog, Head(todo))
    /\ todo' = Tail(todo)
    /\ UNCHANGED <<phase, step, users>>

\* The unwind or the tear-down has run its last release and returns.
Finish ==
    /\ phase \in {"unwind", "teardown"} /\ todo = <<>>
    /\ phase' = IF phase = "unwind" THEN "failed" ELSE "down"
    /\ UNCHANGED <<step, held, todo, relLog, users>>

\* module_exit or remove is called.
StartTeardown ==
    /\ phase = "up"
    /\ ~ExitWhileOpen(drv) => \A u \in Users : ~isOpen[u]
    /\ phase' = "teardown"
    /\ todo' = Teardown(drv)
    /\ UNCHANGED <<step, held, relLog, users>>

-----------------------------------------------------------------------------
UserOpen(u) ==
    /\ ~isOpen[u] /\ Entry(drv) \in held
    /\ isOpen' = [isOpen EXCEPT ![u] = TRUE]
    /\ UNCHANGED <<phase, step, held, todo, relLog, inOp>>

UserOpStart(u) ==
    /\ isOpen[u] /\ ~inOp[u]
    /\ Drains(drv) => Entry(drv) \in held
    /\ inOp' = [inOp EXCEPT ![u] = TRUE]
    /\ UNCHANGED <<phase, step, held, todo, relLog, isOpen>>

UserOpEnd(u) ==
    /\ inOp[u]
    /\ inOp' = [inOp EXCEPT ![u] = FALSE]
    /\ UNCHANGED <<phase, step, held, todo, relLog, isOpen>>

UserClose(u) ==
    /\ isOpen[u] /\ ~inOp[u]
    /\ isOpen' = [isOpen EXCEPT ![u] = FALSE]
    /\ UNCHANGED <<phase, step, held, todo, relLog, inOp>>

\* Every step leaves the choice of driver alone.
Next ==
    /\ UNCHANGED drv
    /\ \/ SetupStep \/ SetupDone \/ Release \/ Finish \/ StartTeardown
       \/ \E u \in Users :
            UserOpen(u) \/ UserOpStart(u) \/ UserOpEnd(u) \/ UserClose(u)

Spec == Init /\ [][Next]_vars

-----------------------------------------------------------------------------
TypeOK ==
    /\ phase \in {"setup", "unwind", "up", "teardown", "failed", "down"}
    /\ drv \in Drivers
    /\ step \in 1..Len(Steps(drv))+1
    /\ held \subseteq Resources
    /\ isOpen \in [Users -> BOOLEAN] /\ inOp \in [Users -> BOOLEAN]

(* Every release an unwind or a tear-down runs finds its resource         *)
(* acquired and not yet released (or is one that does nothing then): no  *)
(* goto label undoes a call that failed or never ran, and nothing is      *)
(* released twice.                                                        *)
ReleaseOnlyHeld ==
    [][(phase \in {"unwind", "teardown"} /\ todo # <<>> /\ relLog' # relLog)
         => Head(todo) \in held \cup Harmless(drv)]_vars

(* A set-up that failed, and a tear-down, return with nothing acquired.   *)
NoLeak == phase \in {"failed", "down"} => held = {}

=============================================================================
