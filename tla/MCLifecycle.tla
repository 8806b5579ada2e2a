---------------------------- MODULE MCLifecycle ----------------------------
(* The set-up and tear-down chains of the drivers of the repository, as   *)
(* data for DriverLifecycle.  Each chain is written from its init/exit or *)
(* probe/remove function: the calls in order, the goto label each failing *)
(* call jumps to, the fall-through of the labels, and the releases of the *)
(* exit or remove function.  Where the device core releases devres        *)
(* ("devm" allocations) after a failed probe and after remove, or clears  *)
(* the driver data, those releases end the sequence.                      *)
EXTENDS DriverLifecycle

CONSTANTS u1, u2

MCUsers == {u1, u2}

Call(r) == [kind |-> "call", res |-> r]
Unchecked(r) == [kind |-> "unchecked", res |-> r]
Infallible(r) == [kind |-> "infallible", res |-> r]
Test == [kind |-> "test", res |-> ""]
Check(n) == [kind |-> "check", res |-> "", need |-> n]
Partial(os) == [kind |-> "partial", res |-> "", outcomes |-> os]

\* The releases from label j to the end of the label list ls.
FallFrom(ls, j) == SubSeq(ls, j, Len(ls))

-----------------------------------------------------------------------------
(* 02.chardrvs/chardrvs.c: chardrvs_init and chardrvs_clean.  debugfs     *)
(* returns an ERR_PTR, never NULL, on failure, so its NULL tests never     *)
(* jump; debugfs_remove of the directory removes the file in it.           *)
ChrSteps ==
    << Call("dev"), Call("region"), Call("class"), Call("device"),
       Call("cdev"), Call("fifo"), Call("proc"),
       Unchecked("dbgdir"), Unchecked("dbgfile") >>
ChrLabels == <<"dbgdir", "proc", "fifo", "cdev", "device", "class", "region", "dev">>
\* Mutant: a failed class_create jumps to err_destruct_class.
ChrJumpClassLabel == <<9, 8, 6, 6, 5, 4, 3, 2, 1>>
\* The label each failing call jumps to (9: return ret at once).
ChrJump == <<9, 8, 7, 6, 5, 4, 3, 2, 1>>
\* Mutant: chardrvs_clean forgets uninstall_chardrvs.
ChrTeardownNoFifo == <<"cdev", "device", "class", "region", "proc", "dbgdir", "dev">>
ChrTeardown == <<"cdev", "device", "class", "region", "fifo", "proc", "dbgdir", "dev">>
Chardrvs ==
    [steps |-> ChrSteps,
     unwind |-> [i \in DOMAIN ChrSteps |-> FallFrom(ChrLabels, ChrJump[i])],
     teardown |-> ChrTeardown, harmless |-> {"dbgdir", "dbgfile"},
     nested |-> {<<"dbgdir", "dbgfile">>}, entry |-> "cdev",
     uses |-> {"dev", "fifo"}, drains |-> FALSE, exitWhileOpen |-> FALSE]

-----------------------------------------------------------------------------
(* 03.mcdevdrvs/mcdevdrvs.c with NR_MINOR_DEVCS = 2: devcs[k] gives "cdevk" *)
(* and "devk" (its cdev and the device of minor k) and "fifok"; "cdev2"   *)
(* and "dev2" stand for devcs[2] and minor 2, never created.  Users open  *)
(* minor 0.                                                                *)
McdCdev == <<"cdev0", "cdev1", "cdev2">>
McdDev == <<"dev0", "dev1", "dev2">>
McdFifo == <<"fifo0", "fifo1">>
McdSteps ==
    << Call("region"), Call("class"), Call("dev0"), Call("cdev0"),
       Call("dev1"), Call("cdev1"), Call("fifo0"), Call("fifo1") >>
\* The loop under err_destruct_class from dev_cnt d down to 0, class_destroy.
DestructFrom(d) ==
    FlattenSeq([j \in 1..d+1 |-> <<McdCdev[d-j+2], McdDev[d-j+2]>>]) \o <<"class">>
\* The loop under err_unregister_cdev from fifo_cnt f down to 0.
FifoFrom(f) == [j \in 1..f+1 |-> McdFifo[f-j+2]]
(* What call i runs when it fails: the counters are where the failure left *)
(* them, and dev_cnt is NR_MINOR_DEVCS after the first loop.               *)
McdUnwind(i) ==
    CASE i = 1 -> <<>>
      [] i = 2 -> <<"region">>
      [] i \in 3..6 -> DestructFrom((i - 3) \div 2) \o <<"region">>
      [] i \in 7..8 -> FifoFrom(i - 7) \o DestructFrom(2) \o <<"region">>
McdTeardown ==
    <<"cdev0", "dev0", "cdev1", "dev1", "class", "region", "fifo0", "fifo1">>
Mcdevdrvs ==
    [steps |-> McdSteps, unwind |-> [i \in DOMAIN McdSteps |-> McdUnwind(i)],
     teardown |-> McdTeardown,
     harmless |-> {"dev0", "dev1", "dev2", "fifo0", "fifo1"}, nested |-> {},
     entry |-> "cdev0", uses |-> {"fifo0"}, drains |-> FALSE, exitWhileOpen |-> FALSE]

-----------------------------------------------------------------------------
(* 08.pltdrv_attr/pltdrv_attr.c: pltdrv_probe and pltdrv_remove.  "devm"  *)
(* is the private data; remove runs when the device is unbound, whatever  *)
(* files are open.                                                         *)
PaSteps ==
    << Test, Call("devm"), Call("device"), Call("cdev"), Call("fifo"), Call("sysfs") >>
PaLabels == <<"fifo", "cdev", "device">>
\* The label each failing step goes to (4: return without a label).
PaJump == <<4, 4, 4, 3, 2, 1>>
PaUnwind(i) == IF i <= 2 THEN <<>> ELSE FallFrom(PaLabels, PaJump[i]) \o <<"devm">>
PaTeardown == <<"fifo", "cdev", "device", "sysfs", "devm">>
PltdrvAttr ==
    [steps |-> PaSteps, unwind |-> [i \in DOMAIN PaSteps |-> PaUnwind(i)],
     teardown |-> PaTeardown, harmless |-> {}, nested |-> {}, entry |-> "cdev",
     uses |-> {"devm", "fifo"}, drains |-> FALSE, exitWhileOpen |-> TRUE]

(* pltdrv_init and pltdrv_exit of the same file; nothing opens the driver *)
(* itself.                                                                 *)
PinitSteps == << Call("region"), Call("class"), Unchecked("pltdrv") >>
PinitUnwind(i) == IF i = 2 THEN <<"region">> ELSE <<>>
PinitTeardown == <<"pltdrv", "class", "region">>
PltdrvInit ==
    [steps |-> PinitSteps, unwind |-> [i \in DOMAIN PinitSteps |-> PinitUnwind(i)],
     teardown |-> PinitTeardown, harmless |-> {}, nested |-> {}, entry |-> "pltdrv",
     uses |-> {}, drains |-> FALSE, exitWhileOpen |-> FALSE]

-----------------------------------------------------------------------------
(* 12.pltdrv_attr_dt/pltdrv_attr_dt.c for a device-tree device:           *)
(* parse_dt_arg_devcs allocates the platform data ("pltdata") and the     *)
(* probe the private data ("devm"), both devres, released newest first.   *)
PdtSteps ==
    << Call("pltdata"), Test, Call("devm"), Call("device"), Call("cdev"),
       Call("fifo"), Call("sysfs") >>
PdtLabels == <<"fifo", "cdev", "device">>
PdtJump == <<4, 4, 4, 4, 3, 2, 1>>
\* The devres of the device when step i fails, newest first.
Devres(i) == IF i <= 3 THEN <<"pltdata">> ELSE <<"devm", "pltdata">>
PdtUnwind(i) == IF i = 1 THEN <<>> ELSE FallFrom(PdtLabels, PdtJump[i]) \o Devres(i)
PdtTeardown == <<"sysfs", "fifo", "cdev", "device", "devm", "pltdata">>
PltdrvAttrDt ==
    [steps |-> PdtSteps, unwind |-> [i \in DOMAIN PdtSteps |-> PdtUnwind(i)],
     teardown |-> PdtTeardown, harmless |-> {}, nested |-> {}, entry |-> "cdev",
     uses |-> {"devm", "fifo"}, drains |-> FALSE, exitWhileOpen |-> TRUE]

-----------------------------------------------------------------------------
(* 20.pci-driver/pci_drv.c: users are sysfs readers and writers; a store  *)
(* or show uses the driver data and the BAR mappings.                      *)
PciSteps ==
    << Call("enable"), Test, Call("regions"), Call("devm"),
       Unchecked("hwmem"), Unchecked("hwprt"), Check({"hwmem", "hwprt"}),
       Call("irqvec"), Call("irq"), Call("sysfs"), Infallible("drvdata") >>
PciLabels == <<"irq", "irqvec", "hwmem", "hwprt", "regions", "enable">>
\* The label each failing call or test goes to (7: return at once).
PciJump == <<7, 6, 6, 5, 7, 7, 5, 3, 2, 1, 7>>
PciUnwind(i) == FallFrom(PciLabels, PciJump[i]) \o (IF i > 4 THEN <<"devm">> ELSE <<>>)
PciTeardown ==
    <<"sysfs", "irq", "irqvec", "hwmem", "hwprt", "regions", "enable", "devm", "drvdata">>
PciDrv ==
    [steps |-> PciSteps, unwind |-> [i \in DOMAIN PciSteps |-> PciUnwind(i)],
     teardown |-> PciTeardown, harmless |-> {}, nested |-> {}, entry |-> "sysfs",
     uses |-> {"drvdata", "devm", "hwmem"}, drains |-> TRUE, exitWhileOpen |-> TRUE]

-----------------------------------------------------------------------------
(* 16.virt_tty/virt_tty.c: users open the tty node; virttty_open takes    *)
(* virt_tty_prv->mutex.                                                    *)
VtSteps ==
    << Call("drv"), Infallible("port"), Call("reg"), Unchecked("ttydev"), Call("prv") >>
VtLabels == <<"ttydev", "port", "reg">>
VtJump == <<4, 4, 2, 4, 1>>
VtTeardown == <<"ttydev", "port", "reg", "prv">>
VirtTty ==
    [steps |-> VtSteps, unwind |-> [i \in DOMAIN VtSteps |-> FallFrom(VtLabels, VtJump[i])],
     teardown |-> VtTeardown, harmless |-> {"ttydev"}, nested |-> {}, entry |-> "ttydev",
     uses |-> {"prv"}, drains |-> FALSE, exitWhileOpen |-> FALSE]

-----------------------------------------------------------------------------
(* 14.gpio_pulse/pltdrv_gpiopulse.c: every error path returns at once and *)
(* leaves the rest to the devres ("devm", "gpio").  Users write the       *)
(* attributes device_create_with_groups creates.                           *)
GpSteps ==
    << Unchecked("devm"), Test, Call("gpio"), Test, Call("device"), Test,
       Infallible("timer"), Infallible("drvdata") >>
GpUnwind(i) == IF i <= 3 THEN <<"devm">> ELSE <<"gpio", "devm">>
GpTeardown == <<"timer", "device", "gpio", "devm", "drvdata">>
GpioPulse ==
    [steps |-> GpSteps, unwind |-> [i \in DOMAIN GpSteps |-> GpUnwind(i)],
     teardown |-> GpTeardown, harmless |-> {"devm"}, nested |-> {}, entry |-> "device",
     uses |-> {"drvdata", "devm", "timer"}, drains |-> TRUE, exitWhileOpen |-> TRUE]

-----------------------------------------------------------------------------
(* 21.ramdisk_blkdev/ramdisk_blk.c: "disk" is the gendisk and "added" its *)
(* registration by add_disk; users open the disk once it is added.         *)
RdSteps ==
    << Unchecked("prv"), Unchecked("major"), Check({"prv"}), Call("data"),
       Call("tagset"), Call("disk"), Call("added") >>
RdLabels == <<"added", "tagset", "data", "major", "prv">>
RdJump == <<6, 6, 4, 4, 3, 2, 1>>
RdUnwind(i) == IF i = 3 THEN <<"major">> ELSE FallFrom(RdLabels, RdJump[i])
RdTeardown == <<"added", "tagset", "data", "major", "prv">>
Ramdisk ==
    [steps |-> RdSteps, unwind |-> [i \in DOMAIN RdSteps |-> RdUnwind(i)],
     teardown |-> RdTeardown, harmless |-> {}, nested |-> {}, entry |-> "added",
     uses |-> {"prv", "data"}, drains |-> TRUE, exitWhileOpen |-> FALSE]

-----------------------------------------------------------------------------
(* 01.kernelnewbies/kernelnewbies.c: kernelnewbies_init and _exit.         *)
KnbSteps == << Call("region"), Call("class"), Call("device"), Call("cdev"), Call("fifo") >>
KnbLabels == <<"cdev", "device", "class", "region">>
KnbJump == <<5, 4, 3, 2, 1>>
KnbTeardown == <<"cdev", "device", "class", "region", "fifo">>
Kernelnewbies ==
    [steps |-> KnbSteps,
     unwind |-> [i \in DOMAIN KnbSteps |-> FallFrom(KnbLabels, KnbJump[i])],
     teardown |-> KnbTeardown, harmless |-> {}, nested |-> {}, entry |-> "cdev",
     uses |-> {"fifo"}, drains |-> FALSE, exitWhileOpen |-> FALSE]

-----------------------------------------------------------------------------
(* 15.ds1307_smbus_drv/ds1307_rtc.c: ds1307_probe, whose every allocation *)
(* is devres; the driver has no remove.  After a failed probe and on      *)
(* unbind the core releases the devres, newest first, then clears the     *)
(* driver data.  The rtc core fails operations once the device is         *)
(* unregistered and waits for one in progress (rtc->ops_lock).            *)
DsSteps == << Call("priv"), Call("rtc"), Infallible("drvdata"), Call("registered") >>
DsUnwind == << <<>>, <<"priv">>, <<>>, <<"rtc", "priv", "drvdata">> >>
DsTeardown == <<"registered", "rtc", "priv", "drvdata">>
Ds1307Rtc ==
    [steps |-> DsSteps, unwind |-> DsUnwind,
     teardown |-> DsTeardown, harmless |-> {}, nested |-> {}, entry |-> "registered",
     uses |-> {"priv", "rtc", "drvdata"}, drains |-> TRUE, exitWhileOpen |-> TRUE]

-----------------------------------------------------------------------------
(* 9.virtbus/virtbus.c: virtbus_init and virtbus_exit.  device_register   *)
(* is device_initialize, which takes the reference "ref" that only        *)
(* put_device gives back, then device_add ("rdev"); the name dev_set_name *)
(* allocates goes with the last reference.  Users are the modules that    *)
(* register devices on the bus under virtbus_represnted_dev: they load    *)
(* after virtbus_init returns and pin the module.                         *)
VbSteps == << Call("bus"), Unchecked("name"), Infallible("ref"), Call("rdev") >>
VbUnwind == << <<>>, <<>>, <<>>, <<"bus">> >>
VbTeardown == <<"rdev", "ref", "bus">>
Virtbus ==
    [steps |-> VbSteps, unwind |-> VbUnwind, teardown |-> VbTeardown,
     harmless |-> {}, nested |-> {<<"ref", "name">>}, entry |-> "rdev",
     uses |-> {"bus", "rdev"}, drains |-> FALSE, exitWhileOpen |-> FALSE]

(* 10.virtbusdevs_load/virtbusdevs_load.c: two register_virtbus_device   *)
(* calls whose results are ignored, and two unregister_virtbus_device     *)
(* (device_del, then put_device) at exit.  Nothing opens the devices.     *)
VbdSteps ==
    << Unchecked("name0"), Infallible("ref0"), Unchecked("dev0"),
       Unchecked("name1"), Infallible("ref1"), Unchecked("dev1") >>
VbdTeardown == <<"dev0", "ref0", "dev1", "ref1">>
VirtbusdevsLoad ==
    [steps |-> VbdSteps, unwind |-> [i \in DOMAIN VbdSteps |-> <<>>],
     teardown |-> VbdTeardown, harmless |-> {},
     nested |-> {<<"ref0", "name0">>, <<"ref1", "name1">>}, entry |-> "dev1",
     uses |-> {}, drains |-> FALSE, exitWhileOpen |-> FALSE]

(* 06.pltdevs_load/pltdevs_load.c: platform_add_devices registers plt_dev0 *)
(* and plt_dev1 (device_initialize, "refk", then platform_device_add,     *)
(* "pltk"); when a registration fails it unregisters the ones before it   *)
(* and returns the error, which pltdevs_load_init ignores.  The failed    *)
(* device keeps its reference.  Exit unregisters both.                     *)
PltdevsAdd ==
    Partial({ {"ref0", "plt0", "ref1", "plt1"}, {"ref0"}, {"ref1"} })
PldTeardown == <<"plt0", "ref0", "plt1", "ref1">>
PltdevsLoad ==
    [steps |-> <<PltdevsAdd>>, unwind |-> <<<<>>>>, teardown |-> PldTeardown,
     harmless |-> {}, nested |-> {}, entry |-> "plt1", uses |-> {},
     drains |-> FALSE, exitWhileOpen |-> FALSE]

(* 19.Qemu-pci-dev-creation/pci_dev_emu.c: pci_emu_dev_realize and       *)
(* pci_emu_dev_exit, with what QEMU's PCI core does around them: a failed *)
(* realize, and the unplug after exit, unregister the BARs, and the       *)
(* memory regions go with the object.  The guest reaches the device once  *)
(* realize has returned; its MMIO and port accesses run under the big     *)
(* lock, as do realize and exit, and a write calls msi_notify.            *)
EmuSteps ==
    << Infallible("mmio"), Infallible("prtio"), Infallible("bar0"),
       Infallible("bar1"), Call("msi") >>
EmuCore == <<"bar0", "bar1", "mmio", "prtio">>
EmuUnwind == << <<>>, <<>>, <<>>, <<>>, EmuCore >>
EmuTeardown == <<"msi">> \o EmuCore
PciDevEmu ==
    [steps |-> EmuSteps, unwind |-> EmuUnwind, teardown |-> EmuTeardown,
     harmless |-> {}, nested |-> {}, entry |-> "msi",
     uses |-> {"mmio", "prtio", "msi"}, drains |-> TRUE, exitWhileOpen |-> TRUE]

-----------------------------------------------------------------------------
MCChain ==
    [chardrvs |-> Chardrvs, mcdevdrvs |-> Mcdevdrvs, pltdrv_attr |-> PltdrvAttr,
     pltdrv_init |-> PltdrvInit, pltdrv_attr_dt |-> PltdrvAttrDt, pci_drv |-> PciDrv,
     virt_tty |-> VirtTty, gpio_pulse |-> GpioPulse, ramdisk |-> Ramdisk,
     kernelnewbies |-> Kernelnewbies, ds1307 |-> Ds1307Rtc, virtbus |-> Virtbus,
     virtbusdevs_load |-> VirtbusdevsLoad, pltdevs_load |-> PltdevsLoad,
     pci_dev_emu |-> PciDevEmu]

\* The chains that release exactly what they acquire.
MCSoundDrivers ==
    {"chardrvs", "pltdrv_attr", "pltdrv_attr_dt", "kernelnewbies", "ds1307",
     "pci_dev_emu"}
MCAllDrivers == DOMAIN MCChain

MCSteps(d) == MCChain[d].steps
MCUnwind(d, i) == MCChain[d].unwind[i]
MCTeardown(d) == MCChain[d].teardown
MCHarmless(d) == MCChain[d].harmless
MCNested(d) == MCChain[d].nested
MCEntry(d) == MCChain[d].entry
MCUses(d) == MCChain[d].uses
MCDrains(d) == MCChain[d].drains
MCExitWhileOpen(d) == MCChain[d].exitWhileOpen
=============================================================================
