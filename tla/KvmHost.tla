------------------------------ MODULE KvmHost ------------------------------
(***************************************************************************)
(* The userspace VMM of src/kvm/host-kvm-example/host_kvm_simple.c: main   *)
(* opens /dev/kvm and the guest image, vm_setup creates the VM, maps guest *)
(* memory and registers it, cp_guest_img copies the image in read() sized  *)
(* chunks, vcpu_setup creates the vCPU, maps its kvm_run buffer and calls  *)
(* vcpu_reg, and run_and_emulate loops on KVM_RUN.  Every ioctl, open and  *)
(* mmap may fail; the guest is abstracted to the exit reason KVM_RUN       *)
(* reports.  Guest memory is MemSize bytes, the read() chunk is Chunk.     *)
(***************************************************************************)
EXTENDS Integers, Sequences, SequencesExt

CONSTANTS
    MemSize,     \* bytes of guest memory (1 << 30 in the code)
    Chunk,       \* bytes requested by each read() of the image (4096)
    Img,         \* the guest image file, a sequence of byte values
    ReadCanFail, \* whether read() of the image may return -1
    MaxPrints    \* bound on KVM_EXIT_IO exits serviced by the loop

ASSUME /\ MemSize \in Nat \ {0}
       /\ Chunk \in Nat \ {0}
       /\ Img \in Seq(1..255)
       /\ ReadCanFail \in BOOLEAN
       /\ MaxPrints \in Nat

E_OK == 0
E_NOT_OK == 1

\* What mmap() returns: a usable mapping or MAP_FAILED, never NULL.
MapResults == {"ok", "MAP_FAILED"}
Resources == {"kvm", "img", "vm", "mem", "vcpu", "run"}
ExitReasons == {"IO", "SHUTDOWN", "OTHER"}
\* KVM resets a new vCPU to the x86 reset vector.
ResetRegs == [rip |-> 16^4 - 16, rflags |-> 2]
\* Registers of a vCPU that does not exist yet.
NoRegs == [rip |-> -1, rflags |-> -1]
\* The exit status main returns for a value of ret.
ExitCode(r) == IF r = E_OK THEN "E_OK" ELSE "E_NOT_OK"

VARIABLES
    pc,        \* where main is
    held,      \* descriptors and mappings the process holds
    acq,       \* the order in which they were acquired
    rel,       \* the order in which they were released
    memMap,    \* the value of the global mem: "none", "ok" or "MAP_FAILED"
    region,    \* whether slot 0 is registered with the VM
    mem,       \* guest-physical bytes 0..MemSize-1
    spill,     \* offsets >= MemSize that cp_guest_img wrote to
    p,         \* cp_guest_img's destination offset
    filePos,   \* the image file offset
    runMap,    \* the value of the global run: "none", "ok" or "MAP_FAILED"
    sregs,     \* "unset", or "default" once KVM_SET_SREGS wrote them back
    regs,      \* the vCPU general registers (rip, rflags)
    exitReason,\* run->exit_reason written by the last KVM_RUN
    entered,   \* whether KVM_RUN has been called
    printed,   \* KVM_EXIT_IO exits serviced
    ret,       \* main's ret
    status     \* the process exit status, once exited

vars == <<pc, held, acq, rel, memMap, region, mem, spill, p, filePos, runMap,
          sregs, regs, exitReason, entered, printed, ret, status>>

Acquire(r) == /\ held' = held \cup {r}
              /\ acq' = Append(acq, r)

Init ==
    /\ pc = "open_kvm"
    /\ held = {}
    /\ acq = <<>>
    /\ rel = <<>>
    /\ memMap = "none"
    /\ region = "none"
    /\ mem = [i \in 0..MemSize-1 |-> 0]
    /\ spill = {}
    /\ p = 0
    /\ filePos = 0
    /\ runMap = "none"
    /\ sregs = "unset"
    /\ regs = NoRegs
    /\ exitReason = "none"
    /\ entered = FALSE
    /\ printed = 0
    /\ ret = E_OK
    /\ status = "running"

-----------------------------------------------------------------------------
(* main: open("/dev/kvm"); a failure returns E_NOT_OK at once.             *)
OpenKvm ==
    /\ pc = "open_kvm"
    /\ \/ /\ Acquire("kvm")
          /\ pc' = "open_img"
          /\ UNCHANGED status
       \/ /\ pc' = "exited"
          /\ status' = "E_NOT_OK"
          /\ UNCHANGED <<held, acq>>
    /\ UNCHANGED <<rel, memMap, region, mem, spill, p, filePos, runMap, sregs,
                   regs, exitReason, entered, printed, ret>>

\* Mutant: a failed open of the image jumps to close, not close_kvm.
OpenImgToClose ==
    /\ pc = "open_img"
    /\ \/ /\ Acquire("img")
          /\ pc' = "vm_setup"
          /\ UNCHANGED ret
       \/ /\ pc' = "close"
          /\ ret' = E_NOT_OK
          /\ UNCHANGED <<held, acq>>
    /\ UNCHANGED <<rel, memMap, region, mem, spill, p, filePos, runMap, sregs,
                   regs, exitReason, entered, printed, status>>

(* main: open(argv[1]); a failure jumps to close_kvm.                      *)
OpenImg ==
    /\ pc = "open_img"
    /\ \/ /\ Acquire("img")
          /\ pc' = "vm_setup"
          /\ UNCHANGED ret
       \/ /\ pc' = "close_kvm"
          /\ ret' = E_NOT_OK
          /\ UNCHANGED <<held, acq>>
    /\ UNCHANGED <<rel, memMap, region, mem, spill, p, filePos, runMap, sregs,
                   regs, exitReason, entered, printed, status>>

\* Mutant: the result of KVM_SET_USER_MEMORY_REGION is not tested.
VmSetupIgnoreRegion ==
    /\ pc = "vm_setup"
    /\ \/ /\ pc' = "close"
          /\ ret' = E_NOT_OK
          /\ UNCHANGED <<held, acq, memMap, region>>
       \/ \E m \in MapResults, regionOk \in BOOLEAN :
            /\ held' = held \cup {"vm"} \cup (IF m = "ok" THEN {"mem"} ELSE {})
            /\ acq' = acq \o <<"vm">> \o (IF m = "ok" THEN <<"mem">> ELSE <<>>)
            /\ memMap' = m
            /\ region' = IF regionOk /\ m = "ok" THEN "registered" ELSE "none"
            /\ pc' = "load"
            /\ UNCHANGED ret
    /\ UNCHANGED <<rel, mem, spill, p, filePos, runMap, sregs, regs,
                   exitReason, entered, printed, status>>

(* vm_setup up to cp_guest_img: KVM_CREATE_VM, mmap of guest memory and    *)
(* KVM_SET_USER_MEMORY_REGION.  The mmap result is compared with NULL, so  *)
(* MAP_FAILED goes on to the region ioctl, which KVM then refuses since    *)
(* userspace_addr is not page aligned.  Any failure returns E_NOT_OK and   *)
(* main jumps to close.                                                    *)
VmSetup ==
    /\ pc = "vm_setup"
    /\ \/ /\ pc' = "close"
          /\ ret' = E_NOT_OK
          /\ UNCHANGED <<held, acq, memMap, region>>
       \/ \E m \in MapResults, regionOk \in BOOLEAN :
            LET registered == regionOk /\ m = "ok"
            IN /\ held' = held \cup {"vm"} \cup (IF m = "ok" THEN {"mem"} ELSE {})
               /\ acq' = acq \o <<"vm">> \o (IF m = "ok" THEN <<"mem">> ELSE <<>>)
               /\ memMap' = m
               /\ region' = IF registered THEN "registered" ELSE "none"
               /\ pc' = IF registered THEN "load" ELSE "close"
               /\ ret' = IF registered THEN ret ELSE E_NOT_OK
    /\ UNCHANGED <<rel, mem, spill, p, filePos, runMap, sregs, regs,
                   exitReason, entered, printed, status>>

\* What one read(img_fd, p, Chunk) may return at file offset pos.
ReadResults(pos) ==
    LET left == Len(Img) - pos
    IN (IF left = 0 THEN {0} ELSE 1..IF left < Chunk THEN left ELSE Chunk)
       \cup (IF ReadCanFail THEN {-1} ELSE {})

\* Memory after copying r bytes of the image from file offset pos to p.
CopyIn(m, pos, r) ==
    [i \in DOMAIN m |-> IF i >= p /\ i < p + r THEN Img[pos + i - p + 1]
                                              ELSE m[i]]

(* One iteration of cp_guest_img's loop: read up to Chunk bytes to p and   *)
(* advance p by what was read; a result <= 0 ends the loop and vm_setup    *)
(* returns E_OK, whatever the read reported.                               *)
CopyChunk ==
    /\ pc = "load"
    /\ \E r \in ReadResults(filePos) :
         IF r <= 0
         THEN /\ pc' = "vcpu_setup"
              /\ UNCHANGED <<mem, spill, p, filePos>>
         ELSE /\ mem' = CopyIn(mem, filePos, r)
              /\ spill' = spill \cup {i \in p..p+r-1 : i >= MemSize}
              /\ p' = p + r
              /\ filePos' = filePos + r
              /\ UNCHANGED pc
    /\ UNCHANGED <<held, acq, rel, memMap, region, runMap, sregs, regs,
                   exitReason, entered, printed, ret, status>>

\* Mutant: vcpu_reg leaves rflags at the 0 of its initialiser.
VcpuSetupZeroFlags ==
    /\ pc = "vcpu_setup"
    /\ \E fail \in {"create", "size", "get_sregs", "set_sregs", "set_regs",
                    "none"},
          m \in MapResults :
         LET created == fail # "create"
             mapOk   == fail \notin {"create", "size"} /\ m = "ok"
         IN /\ held' = held \cup (IF created THEN {"vcpu"} ELSE {})
                               \cup (IF mapOk THEN {"run"} ELSE {})
            /\ acq' = acq \o (IF created THEN <<"vcpu">> ELSE <<>>)
                          \o (IF mapOk THEN <<"run">> ELSE <<>>)
            /\ runMap' = IF fail \notin {"create", "size"} THEN m ELSE runMap
            /\ sregs' = IF fail \in {"set_regs", "none"} THEN "default" ELSE sregs
            /\ regs' = CASE fail = "none" -> [rip |-> 0, rflags |-> 0]
                         [] created       -> ResetRegs
                         [] OTHER         -> regs
            /\ pc' = IF fail = "none" THEN "run" ELSE "close"
            /\ ret' = IF fail = "none" THEN ret ELSE E_NOT_OK
    /\ UNCHANGED <<rel, memMap, region, mem, spill, p, filePos, exitReason,
                   entered, printed, status>>

(* vcpu_setup with vcpu_reg: KVM_CREATE_VCPU, KVM_GET_VCPU_MMAP_SIZE, the  *)
(* mmap of kvm_run (again compared with NULL), then KVM_GET_SREGS,         *)
(* KVM_SET_SREGS and KVM_SET_REGS with rip 0 and rflags 2.  The step named *)
(* by fail is the first to fail; "none" means all succeed.                 *)
VcpuSetup ==
    /\ pc = "vcpu_setup"
    /\ \E fail \in {"create", "size", "get_sregs", "set_sregs", "set_regs",
                    "none"},
          m \in MapResults :
         LET created == fail # "create"
             mapped  == fail \notin {"create", "size"}
             mapOk   == mapped /\ m = "ok"
         IN /\ held' = held \cup (IF created THEN {"vcpu"} ELSE {})
                               \cup (IF mapOk THEN {"run"} ELSE {})
            /\ acq' = acq \o (IF created THEN <<"vcpu">> ELSE <<>>)
                          \o (IF mapOk THEN <<"run">> ELSE <<>>)
            /\ runMap' = IF mapped THEN m ELSE runMap
            /\ sregs' = IF fail \in {"set_regs", "none"} THEN "default"
                                                         ELSE sregs
            /\ regs' = CASE fail = "none" -> [rip |-> 0, rflags |-> 2]
                         [] created       -> ResetRegs
                         [] OTHER         -> regs
            /\ pc' = IF fail = "none" THEN "run" ELSE "close"
            /\ ret' = IF fail = "none" THEN ret ELSE E_NOT_OK
    /\ UNCHANGED <<rel, memMap, region, mem, spill, p, filePos, exitReason,
                   entered, printed, status>>

(* run_and_emulate: ioctl(KVM_RUN).  A failure sets the ret declared       *)
(* inside the loop, which shadows the function's ret, so the function      *)
(* returns the outer E_OK and main goes to close with it.                  *)
KvmRun ==
    /\ pc = "run"
    /\ \/ /\ pc' = "close"
          /\ ret' = E_OK
          /\ UNCHANGED exitReason
       \/ \E e \in ExitReasons :
            /\ e = "IO" => printed < MaxPrints
            /\ exitReason' = e
            /\ pc' = "dispatch"
            /\ UNCHANGED ret
    /\ entered' = TRUE
    /\ UNCHANGED <<held, acq, rel, memMap, region, mem, spill, p, filePos,
                   runMap, sregs, regs, printed, status>>

(* run_and_emulate: switch on run->exit_reason.  Reading through a         *)
(* MAP_FAILED run pointer faults and kills the process.  KVM_EXIT_IO       *)
(* prints the counter and sleeps, KVM_EXIT_SHUTDOWN sets the shadowing ret *)
(* and returns the outer E_OK, any other reason runs again.                *)
Dispatch ==
    /\ pc = "dispatch"
    /\ IF runMap # "ok"
       THEN /\ pc' = "exited"
            /\ status' = "SIGSEGV"
            /\ UNCHANGED <<printed, ret>>
       ELSE /\ CASE exitReason = "IO" ->
                      /\ printed' = printed + 1
                      /\ pc' = "run"
                 [] exitReason = "SHUTDOWN" ->
                      /\ pc' = "close"
                      /\ UNCHANGED printed
                 [] OTHER ->
                      /\ pc' = "run"
                      /\ UNCHANGED printed
            /\ ret' = E_OK
            /\ UNCHANGED status
    /\ UNCHANGED <<held, acq, rel, memMap, region, mem, spill, p, filePos,
                   runMap, sregs, regs, exitReason, entered>>

(* main's labels close and close_kvm: close(img_fd) then close(kvm_fd),    *)
(* and return ret.  Nothing closes vm_fd or vcpu_fd or unmaps memory.      *)
Close ==
    /\ pc \in {"close", "close_kvm"}
    /\ LET closing == IF pc = "close" THEN <<"img", "kvm">> ELSE <<"kvm">>
       IN /\ held' = held \ ToSet(closing)
          /\ rel' = rel \o closing
    /\ pc' = "exited"
    /\ status' = ExitCode(ret)
    /\ UNCHANGED <<acq, memMap, region, mem, spill, p, filePos, runMap, sregs,
                   regs, exitReason, entered, printed, ret>>

Next == OpenKvm \/ OpenImg \/ VmSetup \/ CopyChunk \/ VcpuSetup \/ KvmRun
        \/ Dispatch \/ Close

Spec == Init /\ [][Next]_vars

-----------------------------------------------------------------------------
TypeOK ==
    /\ pc \in {"open_kvm", "open_img", "vm_setup", "load", "vcpu_setup", "run",
               "dispatch", "close", "close_kvm", "exited"}
    /\ held \subseteq Resources
    /\ memMap \in MapResults \cup {"none"}
    /\ runMap \in MapResults \cup {"none"}
    /\ region \in {"none", "registered"}
    /\ mem \in [0..MemSize-1 -> 0..255]
    /\ p \in 0..Len(Img) /\ p = filePos
    /\ regs \in {NoRegs, ResetRegs, [rip |-> 0, rflags |-> 2]}
    /\ printed \in 0..MaxPrints
    /\ ret \in {E_OK, E_NOT_OK}
    /\ status \in {"running", "SIGSEGV", "E_OK", "E_NOT_OK"}

\* The whole image, and nothing else, in guest memory from offset 0.
ImageLoaded ==
    \A i \in 0..MemSize-1 : mem[i] = IF i < Len(Img) THEN Img[i+1] ELSE 0

(* The first KVM_RUN of run_and_emulate finds a VM whose memory slot is    *)
(* registered over a valid mapping holding the guest image, cp_guest_img   *)
(* having written nothing outside that mapping, and a vCPU whose segment   *)
(* registers were written back and whose rip is 0 and rflags 2 (vm_setup, *)
(* cp_guest_img, vcpu_setup and vcpu_reg all done).                        *)
RunReady ==
    (pc = "run" /\ ~entered) =>
        /\ region = "registered" /\ memMap = "ok"
        /\ ImageLoaded /\ spill = {}
        /\ sregs = "default"
        /\ regs = [rip |-> 0, rflags |-> 2]

(* Whatever path main takes to its close and close_kvm labels, it closes *)
(* only descriptors that its earlier steps opened, and none of them twice: *)
(* each goto of main lands on the label whose close calls match what is   *)
(* open at that point.                                                     *)
ClosesOnlyOpened ==
    /\ ToSet(rel) \subseteq ToSet(acq)
    /\ IsInjective(rel)
=============================================================================
