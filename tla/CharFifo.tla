------------------------------ MODULE CharFifo ------------------------------
(***************************************************************************)
(* The blocking FIFO character device of                                   *)
(* src/linux-device-drivers/02.chardrvs/chardrvs.c, as user processes see  *)
(* it: open with its user limit, write that sleeps on wq_f until avail >=  *)
(* count, read that wakes the writers, the ioctls and poll, and release.   *)
(* Each process holds at most one open file and runs one system call at a  *)
(* time; its program counter pc[p] is the point of the handler it has      *)
(* reached, and every step between two points is one action, so handlers   *)
(* of different processes interleave exactly where the code lets them.     *)
(*                                                                         *)
(* The kfifo is the kernel's single-producer single-consumer ring: in and  *)
(* out are free-running unsigned counters (here of Width bits), a slot is  *)
(* the counter modulo FifoSize, and kfifo_in/kfifo_out copy first and then *)
(* publish the counter.  A byte is its number in the order bytes were     *)
(* copied in (written counts them); rlog records the bytes in the order    *)
(* reads copied them out.                                                  *)
(***************************************************************************)
EXTENDS Integers, Sequences, FiniteSets, SequencesExt

CONSTANTS
    Procs,        \* user processes (model values)
    Admins,       \* the processes that are capable(CAP_SYS_ADMIN)
    Fsize,        \* the fsize module parameter
    Width,        \* bits of the kfifo in/out counters (32 in the kernel)
    NrUsers,      \* DEFAULT_NR_USERS
    Counts,       \* the counts user processes pass to read() and write()
    UsrsValues,   \* the values CHARDRVS_IOCSETNRUSERS may be given
    Signals,      \* whether a signal may interrupt an interruptible wait
    MaxBytes,     \* bound on the bytes all writes copy in
    NoOne         \* the holder of a free mutex

ASSUME /\ Admins \subseteq Procs
       /\ Fsize \in 2..256
       /\ Width \in 1..32
       /\ NrUsers \in Nat
       /\ Counts \subseteq Nat \ {0}
       /\ UsrsValues \subseteq Nat
       /\ Signals \in BOOLEAN
       /\ MaxBytes \in Nat
       /\ NoOne \notin Procs

Wrap == 2^Width

\* kfifo_alloc rounds the size up to a power of two.
Pow2 == {2^k : k \in 1..8}
FifoSize == CHOOSE s \in Pow2 : s >= Fsize /\ \A t \in Pow2 : t >= Fsize => s <= t

\* The counters are narrowed to Width bits; kfifo needs them to tell a full
\* ring from an empty one.
ASSUME 2^Width >= 2 * FifoSize

\* The ioctl commands: the three of chardrvs.h and one with another magic.
Cmds == {"SETNRUSERS", "GETNRUSERS", "QUERYAVAILSIZE", "BADMAGIC"}

VARIABLES
    pc,        \* pc[p]: where process p is
    cnt,       \* cnt[p]: the count of p's current read or write
    copied,    \* copied[p]: bytes p's kfifo call copied
    isOpen,    \* isOpen[p]: p holds the device open
    wlock,     \* the holder of dev->w_f_lock
    rlock,     \* the holder of dev->r_f_lock
    waitq,     \* the processes sleeping on dev->wq_f
    in,        \* kfifo in counter, modulo Wrap
    out,       \* kfifo out counter, modulo Wrap
    buf,       \* kfifo slots
    avail,     \* dev->avail
    usrsCnt,   \* dev->usrs_cnt
    refCntr,   \* dev->ref_cntr
    written,   \* bytes writes have copied into the kfifo
    rlog       \* bytes in the order reads copied them out

vars == <<pc, cnt, copied, isOpen, wlock, rlock, waitq, in, out, buf, avail,
          usrsCnt, refCntr, written, rlog>>
kfifo == <<in, out, buf>>

\* kfifo_len and kfifo_avail: unsigned differences, of the counters and of
\* the size and the length.
KfifoLen == (in - out) % Wrap
KfifoAvail == (FifoSize - KfifoLen) % Wrap

\* The slot holding the byte at counter value c.
Slot(c) == c % FifoSize

Min2(a, b) == IF a < b THEN a ELSE b

Init ==
    /\ pc = [p \in Procs |-> "idle"]
    /\ cnt = [p \in Procs |-> 0]
    /\ copied = [p \in Procs |-> 0]
    /\ isOpen = [p \in Procs |-> FALSE]
    /\ wlock = NoOne
    /\ rlock = NoOne
    /\ waitq = {}
    /\ in = 0
    /\ out = 0
    /\ buf = [i \in 0..FifoSize-1 |-> 0]
    \* setup_chardrvs: usrs_cnt and avail once kfifo_alloc succeeded
    /\ avail = Fsize
    /\ usrsCnt = NrUsers
    /\ refCntr = 0
    /\ written = 0
    /\ rlog = <<>>

Goto(p, l) == pc' = [pc EXCEPT ![p] = l]
Return(p) == Goto(p, "idle")

\* Return from read or write: the call's count and result go out of scope.
Finish(p) ==
    /\ Return(p)
    /\ cnt' = [cnt EXCEPT ![p] = 0]
    /\ copied' = [copied EXCEPT ![p] = 0]

-----------------------------------------------------------------------------
(* chardrvs_open, first half: atomic_read(&ref_cntr) >= usrs_cnt fails     *)
(* with -EMFILE.                                                           *)
OpenCheck(p) ==
    /\ pc[p] = "idle" /\ ~isOpen[p]
    /\ Goto(p, IF refCntr >= usrsCnt THEN "idle" ELSE "o_inc")
    /\ UNCHANGED <<cnt, copied, isOpen, wlock, rlock, waitq, kfifo, avail,
                   usrsCnt, refCntr, written, rlog>>

(* chardrvs_open, second half: atomic_inc(&ref_cntr), a separate step from *)
(* the check.                                                              *)
OpenInc(p) ==
    /\ pc[p] = "o_inc"
    /\ refCntr' = refCntr + 1
    /\ isOpen' = [isOpen EXCEPT ![p] = TRUE]
    /\ Return(p)
    /\ UNCHANGED <<cnt, copied, wlock, rlock, waitq, kfifo, avail, usrsCnt,
                   written, rlog>>

(* chardrvs_release: if (atomic_read(&ref_cntr) > 0) atomic_dec(...).  The *)
(* file is gone whatever the test found; the test and the decrement are    *)
(* separate steps.                                                         *)
ReleaseCheck(p) ==
    /\ pc[p] = "idle" /\ isOpen[p]
    /\ isOpen' = [isOpen EXCEPT ![p] = FALSE]
    /\ Goto(p, IF refCntr > 0 THEN "rel_dec" ELSE "idle")
    /\ UNCHANGED <<cnt, copied, wlock, rlock, waitq, kfifo, avail, usrsCnt,
                   refCntr, written, rlog>>

ReleaseDec(p) ==
    /\ pc[p] = "rel_dec"
    /\ refCntr' = refCntr - 1
    /\ Return(p)
    /\ UNCHANGED <<cnt, copied, isOpen, wlock, rlock, waitq, kfifo, avail,
                   usrsCnt, written, rlog>>

(* chardrvs_ioctl: a wrong magic is -ENOTTY, the user-count commands need  *)
(* CAP_SYS_ADMIN, SETNRUSERS stores the user's value in usrs_cnt; the two  *)
(* queries only copy a value out.                                          *)
Ioctl(p) ==
    /\ pc[p] = "idle" /\ isOpen[p]
    /\ \E cmd \in Cmds :
         IF cmd = "SETNRUSERS" /\ p \in Admins
         THEN \E v \in UsrsValues : usrsCnt' = v
         ELSE UNCHANGED usrsCnt
    /\ UNCHANGED <<pc, cnt, copied, isOpen, wlock, rlock, waitq, kfifo, avail,
                   refCntr, written, rlog>>

(* chardrvs_poll: poll_wait under dev->lock, then POLLOUT if avail is not  *)
(* zero.  It registers the caller on wq_f for a later poll() sleep but     *)
(* changes no driver state.                                                *)
Poll(p) ==
    /\ pc[p] = "idle" /\ isOpen[p]
    /\ UNCHANGED vars

(* chardrvs_write_fifo: mutex_lock_interruptible(&w_f_lock); a signal      *)
(* while waiting for it returns -ERESTARTSYS.                              *)
WriteStart(p) ==
    /\ pc[p] = "idle" /\ isOpen[p]
    /\ written < MaxBytes
    /\ \E n \in Counts : cnt' = [cnt EXCEPT ![p] = n]
    /\ Goto(p, "w_lock")
    /\ UNCHANGED <<copied, isOpen, wlock, rlock, waitq, kfifo, avail, usrsCnt,
                   refCntr, written, rlog>>

WriteLock(p) ==
    /\ pc[p] = "w_lock"
    /\ \/ /\ wlock = NoOne
          /\ wlock' = p
          /\ Goto(p, "w_wait")
          /\ UNCHANGED <<cnt, copied>>
       \/ /\ Signals
          /\ Finish(p)
          /\ UNCHANGED wlock
    /\ UNCHANGED <<isOpen, rlock, waitq, kfifo, avail, usrsCnt,
                   refCntr, written, rlog>>

(* wait_event_interruptible(wq_f, avail >= count): test the condition and, *)
(* when it is false, go on the wait queue and sleep (prepare_to_wait and   *)
(* the re-test make these one step).                                       *)
WriteWait(p) ==
    /\ pc[p] = "w_wait"
    /\ IF avail >= cnt[p]
       THEN /\ Goto(p, "w_copy")
            /\ UNCHANGED waitq
       ELSE /\ Goto(p, "w_sleep")
            /\ waitq' = waitq \cup {p}
    /\ UNCHANGED <<cnt, copied, isOpen, wlock, rlock, kfifo, avail, usrsCnt,
                   refCntr, written, rlog>>

(* A sleeping writer woken by a reader tests the condition again; one hit  *)
(* by a signal returns -ERESTARTSYS at once, without mutex_unlock.         *)
WriteWake(p) ==
    /\ pc[p] = "w_sleep"
    /\ p \notin waitq
    /\ Goto(p, "w_wait")
    /\ UNCHANGED <<cnt, copied, isOpen, wlock, rlock, waitq, kfifo, avail,
                   usrsCnt, refCntr, written, rlog>>

WriteSignal(p) ==
    /\ pc[p] = "w_sleep" /\ Signals
    /\ waitq' = waitq \ {p}
    /\ Finish(p)
    /\ UNCHANGED <<isOpen, wlock, rlock, kfifo, avail, usrsCnt,
                   refCntr, written, rlog>>

\* Mutant: the copy is not clamped to the room left in the kfifo.
WriteCopyNoClamp(p) ==
    /\ pc[p] = "w_copy"
    /\ LET n == cnt[p]
       IN /\ buf' = [i \in DOMAIN buf |->
                       IF \E k \in 0..n-1 : Slot(in + k) = i
                       THEN written + 1 + ((i - Slot(in)) % FifoSize)
                       ELSE buf[i]]
          /\ copied' = [copied EXCEPT ![p] = n]
          /\ written' = written + n
    /\ Goto(p, "w_pub")
    /\ UNCHANGED <<cnt, isOpen, wlock, rlock, waitq, in, out, avail, usrsCnt,
                   refCntr, rlog>>

(* kfifo_from_user, copy half: copy min(count, kfifo_avail) bytes into the *)
(* slots from in on.                                                       *)
WriteCopy(p) ==
    /\ pc[p] = "w_copy"
    /\ LET n == Min2(cnt[p], KfifoAvail)
       IN /\ buf' = [i \in DOMAIN buf |->
                       IF \E k \in 0..n-1 : Slot(in + k) = i
                       THEN written + 1 + ((i - Slot(in)) % FifoSize)
                       ELSE buf[i]]
          /\ copied' = [copied EXCEPT ![p] = n]
          /\ written' = written + n
    /\ Goto(p, "w_pub")
    /\ UNCHANGED <<cnt, isOpen, wlock, rlock, waitq, in, out, avail, usrsCnt,
                   refCntr, rlog>>

(* kfifo_from_user, publish half: in += copied; then mutex_unlock.         *)
WritePublish(p) ==
    /\ pc[p] = "w_pub"
    /\ in' = (in + copied[p]) % Wrap
    /\ wlock' = NoOne
    /\ Goto(p, "w_avail")
    /\ UNCHANGED <<cnt, copied, isOpen, rlock, waitq, out, buf, avail, usrsCnt,
                   refCntr, written, rlog>>

(* mutex_lock(&dev->lock); avail = kfifo_avail(); mutex_unlock; return     *)
(* copiedin.  dev->lock guards a single store, so the three are one step.  *)
WriteAvail(p) ==
    /\ pc[p] = "w_avail"
    /\ avail' = KfifoAvail
    /\ Finish(p)
    /\ UNCHANGED <<isOpen, wlock, rlock, waitq, kfifo, usrsCnt,
                   refCntr, written, rlog>>

-----------------------------------------------------------------------------
(* chardrvs_read_fifo: mutex_lock_interruptible(&r_f_lock).                *)
ReadStart(p) ==
    /\ pc[p] = "idle" /\ isOpen[p]
    /\ \E n \in Counts : cnt' = [cnt EXCEPT ![p] = n]
    /\ Goto(p, "r_lock")
    /\ UNCHANGED <<copied, isOpen, wlock, rlock, waitq, kfifo, avail, usrsCnt,
                   refCntr, written, rlog>>

ReadLock(p) ==
    /\ pc[p] = "r_lock"
    /\ \/ /\ rlock = NoOne
          /\ rlock' = p
          /\ Goto(p, "r_copy")
          /\ UNCHANGED <<cnt, copied>>
       \/ /\ Signals
          /\ Finish(p)
          /\ UNCHANGED rlock
    /\ UNCHANGED <<isOpen, wlock, waitq, kfifo, avail, usrsCnt,
                   refCntr, written, rlog>>

(* kfifo_to_user, copy half: copy min(count, kfifo_len) bytes from the     *)
(* slots from out on.                                                      *)
ReadCopy(p) ==
    /\ pc[p] = "r_copy"
    /\ LET n == Min2(cnt[p], KfifoLen)
       IN /\ copied' = [copied EXCEPT ![p] = n]
          /\ rlog' = rlog \o [k \in 1..n |-> buf[Slot(out + k - 1)]]
    /\ Goto(p, "r_pub")
    /\ UNCHANGED <<cnt, isOpen, wlock, rlock, waitq, kfifo, avail, usrsCnt,
                   refCntr, written>>

\* Mutant: the reader publishes out and wakes the writers but keeps r_f_lock.
ReadPublishKeepsLock(p) ==
    /\ pc[p] = "r_pub"
    /\ out' = (out + copied[p]) % Wrap
    /\ waitq' = {}
    /\ Goto(p, "r_avail")
    /\ UNCHANGED <<cnt, copied, isOpen, wlock, rlock, in, buf, avail, usrsCnt,
                   refCntr, written, rlog>>

(* kfifo_to_user, publish half: out += copied; then                        *)
(* wake_up_interruptible(&wq_f) wakes every sleeping writer, and           *)
(* mutex_unlock(&r_f_lock).  avail is not yet updated.                     *)
ReadPublish(p) ==
    /\ pc[p] = "r_pub"
    /\ out' = (out + copied[p]) % Wrap
    /\ waitq' = {}
    /\ rlock' = NoOne
    /\ Goto(p, "r_avail")
    /\ UNCHANGED <<cnt, copied, isOpen, wlock, in, buf, avail, usrsCnt,
                   refCntr, written, rlog>>

ReadAvail(p) ==
    /\ pc[p] = "r_avail"
    /\ avail' = KfifoAvail
    /\ Finish(p)
    /\ UNCHANGED <<isOpen, wlock, rlock, waitq, kfifo, usrsCnt,
                   refCntr, written, rlog>>

-----------------------------------------------------------------------------
\* System calls a user process may start; nothing obliges it to.
UserStep(p) ==
    OpenCheck(p) \/ ReleaseCheck(p) \/ Ioctl(p) \/ Poll(p) \/ WriteStart(p)
    \/ ReadStart(p)

\* Steps of a system call in progress, other than the mutex acquisitions.
KernelStep(p) ==
    OpenInc(p) \/ ReleaseDec(p) \/ WriteWait(p) \/ WriteWake(p)
    \/ WriteCopy(p) \/ WritePublish(p) \/ WriteAvail(p) \/ ReadCopy(p)
    \/ ReadPublish(p) \/ ReadAvail(p)

Next == \E p \in Procs :
          UserStep(p) \/ KernelStep(p) \/ WriteLock(p) \/ ReadLock(p)
          \/ WriteSignal(p)

(* A system call in progress keeps running (weak fairness); a mutex that   *)
(* is free again and again is eventually handed to each waiter (strong     *)
(* fairness, the mutex handoff).  User processes need not call anything,   *)
(* and signals need not arrive.                                            *)
Fairness ==
    \A p \in Procs :
        /\ WF_vars(KernelStep(p))
        /\ SF_vars(pc[p] = "w_lock" /\ wlock = NoOne /\ WriteLock(p))
        /\ SF_vars(pc[p] = "r_lock" /\ rlock = NoOne /\ ReadLock(p))

Spec == Init /\ [][Next]_vars /\ Fairness

-----------------------------------------------------------------------------
(* The refinement mapping.  A write's bytes join the queue when in is      *)
(* published; a read takes its bytes out of the queue when it copies them, *)
(* so the bytes the reader in r_pub has copied are no longer queued though *)
(* out does not yet show it.  r_f_lock admits one such reader.             *)
Pending == LET rs == {p \in Procs : pc[p] = "r_pub"}
           IN IF rs = {} THEN 0 ELSE copied[CHOOSE p \in rs : TRUE]
Queued ==
    LET o == (out + Pending) % Wrap
    IN [k \in 1..((in - o) % Wrap) |-> buf[Slot(o + k - 1)]]

Abstract == INSTANCE AbstractFifo WITH Cap <- FifoSize, q <- Queued, got <- rlog

(* The device implements the abstract FIFO of FifoSize bytes: every step   *)
(* of open, write, read, ioctl, poll and release either leaves the queue   *)
(* and the bytes read alone, appends at most the free room of fresh bytes, *)
(* or reads bytes from the front, across wrapping counters.                *)
RefinesFifo == Abstract!Spec

(* A process returns to user space holding neither FIFO mutex: every path  *)
(* out of chardrvs_write_fifo and chardrvs_read_fifo that took the lock    *)
(* unlocks it.                                                             *)
NoLockHeldInUser ==
    \A p \in Procs : pc[p] = "idle" => wlock # p /\ rlock # p

(* chardrvs_open admits a process only while fewer than usrs_cnt files are *)
(* open: no step completes an open that takes ref_cntr past usrs_cnt.      *)
OpenLimit ==
    [][\A p \in Procs : pc[p] = "o_inc" /\ isOpen'[p] => refCntr' <= usrsCnt]_vars

\* Where a process is inside chardrvs_read_fifo.
ReadPcs == {"r_lock", "r_copy", "r_pub", "r_avail"}

(* A read always returns: readers wait only for r_f_lock, which no reader  *)
(* keeps across a sleep.                                                   *)
ReadCompletes == \A p \in Procs : pc[p] \in ReadPcs ~> pc[p] = "idle"

(* A writer asleep on wq_f while avail already admits its count is woken:  *)
(* the readers' wake_up_interruptible reaches every such writer.           *)
WriterWoken ==
    \A p \in Procs : (pc[p] = "w_sleep" /\ avail >= cnt[p]) ~> pc[p] # "w_sleep"


\* A write or read that has moved in or out but not yet stored avail.
Publishing == {"w_avail", "r_avail"}

=============================================================================
