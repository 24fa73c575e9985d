------------------------------- MODULE XpPci -------------------------------
(***************************************************************************)
(* The frame of the driver (xpnet/src/xp_pcie_slave.c): xp_module_init and *)
(* xp_module_exit, and xp_pci_probe and xp_pci_remove of one device,       *)
(* composed with the net device mode (XpNetdevLife), which ioctls of an    *)
(* open device file, a client module and the removal start and end.        *)
(*                                                                         *)
(* Probe, removal, module init and module exit are tables of steps.  A     *)
(* step is named after the resource it takes or gives back: mods are those *)
(* of the module, held those of the device.  What a failed probe does not  *)
(* give back stays behind in leaked.                                       *)
(*                                                                         *)
(* The kernel does not let the module go while a file is open or a client  *)
(* module is loaded, free_irq waits for a running handler and              *)
(* flush_workqueue for the work.  class_create and device_create are       *)
(* modelled as the code uses them: they fail by returning NULL.            *)
(***************************************************************************)
EXTENDS XpNetdevLife

CONSTANTS Rm,       \* the thread that removes the device
          PMayFail, \* steps of the probe and of module init that may fail
          Env,      \* what user space does besides, a subset of EnvKinds
          IsrEnable, \* isr_enable
          MaxUsers, \* bound on how many users there are at a time
          MsiApi,   \* pci_enable_msi_block ("block") or pci_enable_msi_range
          DevId     \* the identifier of the device

\* early_open: the device file is opened before the probe is over; unbind_used:
\* the driver is unbound while files are open or a client module is loaded;
\* plug_late: the module is unloaded while a device is being probed.
EnvKinds == {"early_open", "unbind_used", "plug_late"}

ASSUME RmAssumption == Rm \in Threads
ASSUME EnvAssumption == Env \subseteq EnvKinds
ASSUME MaxUsersAssumption == MaxUsers \in Nat
ASSUME IsrEnableAssumption == IsrEnable \in BOOLEAN
ASSUME MsiApiAssumption == MsiApi \in {"block", "range"}

VARIABLES
  module,   \* "out", "init", "undo", "undo_rc0", "live", "dead" or "exit"
  mpc,      \* the next step of module init or exit
  mods,     \* what the module holds
  device,   \* "unbound", "probe", "undo", "undo_rc0", "bound" or "remove"
  dpc,      \* the next step of the probe or the removal
  held,     \* what the device holds
  leaked,   \* what failed probes have left behind
  msi,      \* the answer to xp_pci_enable_msi_block: "both", "one" or "fail"
  mask,     \* the DMA mask was copied to the DMA memory device
  dmamem,   \* there is DMA memory
  users     \* who uses the device: subset of UserKinds

mvars == <<module, mpc, mods>>
dvars == <<device, dpc, held, leaked, msi>>
pvars == <<vars, mvars, dvars, mask, dmamem, users>>

\* An open device file, an open DMA memory file, a client module, a running
\* interrupt handler, queued work of a handler, a user of /proc/xpregaccess.
UserKinds == {"file", "dma_file", "client", "high", "low", "work", "regproc"}

----------------------------------------------------------------------------
(* The tables.                                                             *)

ModuleSteps == <<"class", "chrdev", "dma_priv", "dma_cdev", "dma_node",
                 "dma_mask", "dma_parms", "driver">>

ExitSteps == <<"dmamem", "dma_mask", "dma_parms", "dma_node", "dma_cdev",
               "dma_priv", "driver", "chrdev", "class">>

\* rc is still 0 where the other steps of module init fail.
ReportsFailure == {"class", "chrdev", "driver"}

ProbeSteps == <<"priv", "enable", "regions", "dma", "pcie", "save", "msi", "wq",
                "high", "low", "bar", "iomap", "devid", "cdev", "node", "lock",
                "regproc", "ptr">>

\* Steps that check something and take nothing.
Checks == {"dma", "pcie", "save", "bar", "devid"}

\* The labels of the error path, in order, and what each gives back.
UndoLabels == <<"err_device_create", "err_cdev_add", "err_pci_iomap",
                "cleanup_ports", "err_dma", "err_free_memory">>

UndoReleases ==
  [err_device_create |-> {"cdev"}, err_cdev_add |-> {"iomap"},
   err_pci_iomap |-> {"regions"}, cleanup_ports |-> {}, err_dma |-> {"enable"},
   err_free_memory |-> {"wq", "priv"}]

\* The label a step goes to when it fails.
FailsTo(s) ==
  CASE s \in {"enable", "pcie", "save", "high", "devid"} -> "err_free_memory"
    [] s \in {"regions", "dma"} -> "err_dma"
    [] s = "bar" -> "cleanup_ports"
    [] s = "iomap" -> "err_pci_iomap"
    [] s = "cdev" -> "err_cdev_add"
    [] s = "node" -> "err_device_create"

RemoveSteps == <<"deinit", "node", "cdev", "iomap", "regions", "high", "low",
                 "msi", "wq", "regproc", "priv", "enable", "ptr">>

\* The identifiers that xp_pci_probe recognises; xp_pci_ids lists two more.
Recognised == {"CNX88091_A0", "CNX88091_B0", "CNX88072_B0"}

IndexOf(seq, x) == CHOOSE i \in 1..Len(seq) : seq[i] = x

----------------------------------------------------------------------------

PInit ==
  /\ Init
  /\ module = "out" /\ mpc = 1 /\ mods = {}
  /\ device = "unbound" /\ dpc = 1 /\ held = {} /\ leaked = {}
  /\ msi = "fail"
  /\ mask = FALSE
  /\ dmamem = FALSE
  /\ users = {}

----------------------------------------------------------------------------
(* xp_module_init.                                                         *)

Load ==
  /\ module = "out"
  /\ module' = "init"
  /\ mpc' = 1
  /\ UNCHANGED <<vars, mods, dvars, mask, dmamem, users>>

\* The step succeeds; the mask of the DMA memory device is reset when the node
\* is created, and pci_register_driver probes the device.
ModuleStep ==
  /\ module = "init"
  /\ mpc <= Len(ModuleSteps)
  /\ mods' = mods \cup {ModuleSteps[mpc]}
  /\ mpc' = mpc + 1
  /\ mask' = (mask /\ ModuleSteps[mpc] # "dma_node")
  /\ device' = IF ModuleSteps[mpc] = "driver" THEN "probe" ELSE device
  /\ dpc' = IF ModuleSteps[mpc] = "driver" THEN 1 ELSE dpc
  /\ UNCHANGED <<vars, module, held, leaked, msi, dmamem, users>>

\* Faulty variant: the error path starts one label too late.
Fault_LabelTooLate ==
  /\ module = "init"
  /\ mpc <= Len(ModuleSteps)
  /\ ModuleSteps[mpc] \in PMayFail
  /\ module' = IF ModuleSteps[mpc] \in ReportsFailure THEN "undo" ELSE "undo_rc0"
  /\ mpc' = IF mpc > 2 THEN mpc - 2 ELSE 0
  /\ UNCHANGED <<vars, mods, dvars, mask, dmamem, users>>

\* The step fails.
ModuleFail ==
  /\ module = "init"
  /\ mpc <= Len(ModuleSteps)
  /\ ModuleSteps[mpc] \in PMayFail
  /\ module' = IF ModuleSteps[mpc] \in ReportsFailure THEN "undo" ELSE "undo_rc0"
  /\ mpc' = mpc - 1
  /\ UNCHANGED <<vars, mods, dvars, mask, dmamem, users>>

\* The labels from that of the failed step on give back what was taken.
ModuleUndo ==
  /\ module \in {"undo", "undo_rc0"}
  /\ mpc > 0
  /\ mods' = mods \ {ModuleSteps[mpc]}
  /\ mpc' = mpc - 1
  /\ UNCHANGED <<vars, module, dvars, mask, dmamem, users>>

\* xp_module_init returns rc: 0 leaves the module loaded.
ModuleInitEnds ==
  /\ \/ module = "undo" /\ mpc = 0 /\ module' = "out"
     \/ module = "undo_rc0" /\ mpc = 0 /\ module' = "dead"
     \/ /\ module = "init"
        /\ mpc > Len(ModuleSteps)
        /\ device \in {"unbound", "bound"}
        /\ module' = "live"
  /\ UNCHANGED <<vars, mpc, mods, dvars, mask, dmamem, users>>

----------------------------------------------------------------------------
(* xp_pci_probe.                                                           *)

\* The driver core is told to probe the device again.
Plug ==
  /\ "driver" \in mods
  /\ "plug_late" \in Env \/ module = "live"
  /\ device = "unbound"
  /\ device' = "probe"
  /\ dpc' = 1
  /\ UNCHANGED <<vars, mvars, held, leaked, msi, mask, dmamem, users>>

\* Both interrupts are in use: msi_count is 0.
BothVectors == msi = "both" /\ MsiApi = "block"

\* Steps of the interrupts that do not apply.
Skips(s) ==
  \/ s \in {"msi", "wq", "high", "low"} /\ ~IsrEnable
  \/ s \in {"wq", "high", "low"} /\ msi = "fail"
  \/ s = "low" /\ ~BothVectors

\* A step that must fail: what it takes was left behind, or the device is not
\* one that it knows.
Refused(s) ==
  \/ s \in {"regions", "high", "low"} /\ s \in leaked
  \/ s = "devid" /\ DevId \notin Recognised

Probing(s) == device = "probe" /\ s = ProbeSteps[dpc]

\* The next step; the last one ends the probe.
ProbeNext ==
  /\ dpc' = dpc + 1
  /\ device' = IF dpc = Len(ProbeSteps) THEN "bound" ELSE "probe"

ProbeSkip(s) ==
  /\ Probing(s)
  /\ Skips(s)
  /\ ProbeNext
  /\ UNCHANGED <<vars, mvars, held, leaked, msi, mask, dmamem, users>>

\* One vector may be available instead of two; pci_enable_msi_range knows only
\* all or nothing.
ProbeMsi ==
  /\ Probing("msi")
  /\ ~Skips("msi")
  /\ \/ msi' = "both" /\ "msi" \notin leaked
     \/ msi' = "one" /\ "msi" \in PMayFail \ leaked /\ MsiApi = "block"
     \/ msi' = "fail" /\ "msi" \in PMayFail \cup leaked
  /\ held' = IF msi' = "fail" THEN held ELSE held \cup {"msi"}
  /\ ProbeNext
  /\ UNCHANGED <<vars, mvars, leaked, mask, dmamem, users>>

\* The step succeeds.  The first probe copies the DMA mask; priv->xpnet is
\* reset where the lock is initialised.
ProbeTake(s) ==
  /\ Probing(s)
  /\ s # "msi" /\ ~Skips(s) /\ ~Refused(s)
  /\ held' = IF s \in Checks THEN held ELSE held \cup {s}
  /\ mask' = (mask \/ s = "dma")
  /\ xpnet' = IF s = "lock" THEN None ELSE xpnet
  /\ ProbeNext
  /\ UNCHANGED <<g_net_priv, alive, rings, wqueue, dwork, mode, thread, nlbusy, procs,
                 mvars, leaked, msi, dmamem, users>>

\* create_workqueue is not checked, the failure of the second interrupt and of
\* the proc file is only logged.
ProbeIgnore(s) ==
  /\ s \in {"wq", "low", "regproc"}
  /\ Probing(s)
  /\ ~Skips(s)
  /\ s \in PMayFail \/ Refused(s)
  /\ ProbeNext
  /\ UNCHANGED <<vars, mvars, held, leaked, msi, mask, dmamem, users>>

\* -ENOMEM: there is nothing to give back.
ProbeNoMemory ==
  /\ Probing("priv")
  /\ "priv" \in PMayFail
  /\ device' = "unbound"
  /\ UNCHANGED <<vars, mvars, dpc, held, leaked, msi, mask, dmamem, users>>

\* The step fails.  rc is still 0 if it is device_create.
ProbeFail(s) ==
  /\ s \notin {"priv", "msi", "wq", "low", "lock", "regproc", "ptr"}
  /\ Probing(s)
  /\ ~Skips(s)
  /\ s \in PMayFail \/ Refused(s)
  /\ device' = IF s = "node" THEN "undo_rc0" ELSE "undo"
  /\ dpc' = IndexOf(UndoLabels, FailsTo(s))
  /\ UNCHANGED <<vars, mvars, held, leaked, msi, mask, dmamem, users>>

\* The labels of the error path.  The structure is freed only if there is a
\* work queue; interrupts are not freed.
ProbeUndo ==
  /\ device \in {"undo", "undo_rc0"}
  /\ dpc <= Len(UndoLabels)
  /\ UndoLabels[dpc] = "err_free_memory" /\ "wq" \in held => "work" \notin users
  /\ held' = IF UndoLabels[dpc] = "err_free_memory" /\ "wq" \notin held THEN held
             ELSE held \ UndoReleases[UndoLabels[dpc]]
  /\ dpc' = dpc + 1
  /\ UNCHANGED <<vars, mvars, device, leaked, msi, mask, dmamem, users>>

\* The probe returns rc.
ProbeFailed ==
  /\ device \in {"undo", "undo_rc0"}
  /\ dpc > Len(UndoLabels)
  /\ device' = IF device = "undo" THEN "unbound" ELSE "bound"
  /\ leaked' = leaked \cup held
  /\ held' = {}
  /\ UNCHANGED <<vars, mvars, dpc, msi, mask, dmamem, users>>

----------------------------------------------------------------------------
(* xp_pci_remove.  The thread Rm is busy from the start of the removal until *)
(* xp_netdev_deinit has returned.                                            *)

NoUsers == Quiet => Still

\* The driver is unbound from the device through sysfs.
Unbind ==
  /\ module = "live"
  /\ "unbind_used" \in Env \/ users \cap {"file", "client"} = {}
  /\ device = "bound"
  /\ pc[Rm] = "idle"
  /\ NoUsers
  /\ Goto(Rm, "remove")
  /\ device' = "remove"
  /\ dpc' = 1
  /\ UNCHANGED <<mode, core, net_priv, op, nlbusy, procs, mvars, held, leaked, msi,
                 mask, dmamem, users>>

RemoveDeinit ==
  /\ device = "remove"
  /\ dpc = IndexOf(RemoveSteps, "deinit")
  /\ Goto(Rm, "deinit")
  /\ op' = [op EXCEPT ![Rm] = "deinit"]
  /\ dpc' = dpc + 1
  /\ UNCHANGED <<mode, core, net_priv, nlbusy, procs, mvars, device, held, leaked, msi,
                 mask, dmamem, users>>

\* Faulty variant: the work queue is not flushed.
Fault_NoFlush(s) == users \cap {"high", "low", "regproc"} \subseteq held

\* free_irq and proc_remove have waited for those that use what they removed,
\* flush_workqueue waits for the work.
Waited(s) ==
  /\ users \cap {"high", "low", "regproc"} \subseteq held
  /\ s = "wq" => "work" \notin users

\* Faulty variant: the second interrupt is never freed.
Fault_LowKept(s) ==
  \/ s \in {"msi", "high", "low", "wq"} /\ (~IsrEnable \/ msi = "fail")
  \/ s = "low"
  \/ s = "regproc" /\ "regproc" \notin held

\* Faulty variant: the interrupts are freed whatever the flags say.
Fault_FreesAlways(s) == s = "regproc" /\ "regproc" \notin held

\* The interrupts are freed as the flags of the probe say; there may be no proc
\* file.
RemoveSkips(s) ==
  \/ s \in {"msi", "high", "low", "wq"} /\ (~IsrEnable \/ msi = "fail")
  \/ s = "low" /\ ~BothVectors
  \/ s = "regproc" /\ "regproc" \notin held

\* The other steps.  unregister_chrdev, between the last two, asks for 256
\* minors where 255 were allocated and finds nothing.
RemoveStep(s) ==
  /\ device = "remove"
  /\ dpc <= Len(RemoveSteps)
  /\ s = RemoveSteps[dpc]
  /\ s # "deinit"
  /\ pc[Rm] = "idle"
  /\ Waited(s)
  /\ held' = IF RemoveSkips(s) THEN held
             ELSE held \ (IF s = "priv" THEN {"priv", "lock"} ELSE {s})
  /\ dpc' = dpc + 1
  /\ UNCHANGED <<vars, mvars, device, leaked, msi, mask, dmamem, users>>

RemoveEnds ==
  /\ device = "remove"
  /\ dpc > Len(RemoveSteps)
  /\ device' = "unbound"
  /\ leaked' = leaked \cup held
  /\ held' = {}
  /\ UNCHANGED <<vars, mvars, dpc, msi, mask, dmamem, users>>

----------------------------------------------------------------------------
(* xp_module_exit.                                                         *)

Unload ==
  /\ module \in {"live", "dead"}
  /\ users \cap {"file", "dma_file", "client"} = {}
  /\ pc[Rm] = "idle"
  /\ device # "remove"
  /\ "plug_late" \in Env \/ device \in {"unbound", "bound"}
  /\ NoUsers
  /\ Goto(Rm, "remove")
  /\ module' = "exit"
  /\ mpc' = IF "dma_priv" \in mods THEN 1 ELSE Len(ExitSteps) + 1
  /\ UNCHANGED <<mode, core, net_priv, op, nlbusy, procs, mods, dvars, mask, dmamem,
                 users>>

\* The DMA memory is freed if there is a mask.
ExitStep(s) ==
  /\ module = "exit"
  /\ mpc <= Len(ExitSteps)
  /\ s = ExitSteps[mpc]
  /\ s # "driver"
  /\ mods' = mods \ {s}
  /\ dmamem' = (dmamem /\ ~(s = "dmamem" /\ mask))
  /\ mpc' = mpc + 1
  /\ UNCHANGED <<vars, module, dvars, mask, users>>

\* pci_unregister_driver removes the device.
ExitDriver ==
  /\ module = "exit"
  /\ mpc <= Len(ExitSteps)
  /\ ExitSteps[mpc] = "driver"
  /\ \/ /\ device = "bound"
        /\ device' = "remove"
        /\ dpc' = 1
        /\ UNCHANGED <<mpc, mods>>
     \/ /\ device = "unbound"
        /\ mods' = mods \ {"driver"}
        /\ mpc' = mpc + 1
        /\ UNCHANGED <<device, dpc>>
  /\ UNCHANGED <<vars, module, held, leaked, msi, mask, dmamem, users>>

ExitEnds ==
  /\ module = "exit"
  /\ mpc > Len(ExitSteps)
  /\ module' = "out"
  /\ Goto(Rm, "idle")
  /\ UNCHANGED <<mode, core, net_priv, op, nlbusy, procs, mpc, mods, dvars, mask,
                 dmamem, users>>

----------------------------------------------------------------------------
(* Users.                                                                  *)

\* Calls into the net device mode in progress on behalf of user u.
Calling(u) ==
  \E t \in Threads \ {Rm} :
    pc[t] # "idle" /\ op[t] \in (IF u = "client" THEN {"send"} ELSE {"init", "deinit"})

\* When user u may begin: the kernel opens files of a module that is not going,
\* and links client modules against a live one; what a failed probe has left
\* registered goes on interrupting.
MayBegin(u) ==
  \/ /\ u = "file"
     /\ "cdev" \in held
     /\ module \in {"init", "live"}
     /\ "early_open" \in Env \/ device = "bound"
  \/ u = "dma_file" /\ "dma_cdev" \in mods /\ module = "live"
  \/ u = "client" /\ module = "live" /\ ("unbind_used" \in Env \/ device # "remove")
  \/ u \in {"high", "low"} /\ u \in held \cup leaked
  \/ u = "regproc" /\ u \in held

Begin(u) ==
  /\ u \notin users
  /\ Cardinality(users) < MaxUsers
  /\ MayBegin(u)
  /\ users' = users \cup {u}
  /\ UNCHANGED <<vars, mvars, dvars, mask, dmamem>>

\* Work of a handler ends when its signal is sent.
End(u) ==
  /\ u \in users
  /\ ~Calling(u)
  /\ \/ users' = users \ {u}
     \/ u \in {"high", "low"} /\ users' = (users \ {u}) \cup {"work"}
  /\ UNCHANGED <<vars, mvars, dvars, mask, dmamem>>

\* PHY_MEM_ALLOC and DMA_CLEAN_UP of the DMA memory device.
DmaMemory ==
  /\ "dma_file" \in users
  /\ dmamem' \in (IF mask THEN BOOLEAN ELSE {dmamem})
  /\ UNCHANGED <<vars, mvars, dvars, mask, users>>

\* INIT_NETDEV and DEINIT_NETDEV of an open file, xp_packet_send of a client
\* module, which returns -1 if there is no device.
NetdevCall(t) ==
  /\ t # Rm
  /\ \/ "file" \in users /\ (Call(t, "init") \/ Call(t, "deinit"))
     \/ "client" \in users /\ "ptr" \in held /\ Call(t, "send")
  /\ UNCHANGED <<mvars, dvars, mask, dmamem, users>>

\* The net device mode goes on.
Netdev ==
  /\ (\E t \in Threads : Thread(t)) \/ Users
  /\ UNCHANGED <<mvars, dvars, mask, dmamem, users>>

----------------------------------------------------------------------------

ModuleInit == ModuleStep \/ ModuleFail \/ ModuleUndo \/ ModuleInitEnds

Probe ==
  \/ \E i \in 1..Len(ProbeSteps) : LET s == ProbeSteps[i] IN
        ProbeSkip(s) \/ ProbeTake(s) \/ ProbeIgnore(s) \/ ProbeFail(s)
  \/ ProbeMsi \/ ProbeNoMemory \/ ProbeUndo \/ ProbeFailed

Remove ==
  \/ \E i \in 1..Len(RemoveSteps) : RemoveStep(RemoveSteps[i])
  \/ RemoveDeinit \/ RemoveEnds

Exit ==
  \/ \E i \in 1..Len(ExitSteps) : ExitStep(ExitSteps[i])
  \/ ExitDriver \/ ExitEnds

PNext ==
  \/ Load \/ ModuleInit \/ Plug \/ Probe
  \/ Unbind \/ Remove
  \/ Unload \/ Exit
  \/ \E u \in UserKinds : Begin(u) \/ End(u)
  \/ DmaMemory
  \/ \E t \in Threads : NetdevCall(t)
  \/ Netdev

PSpec == PInit /\ [][PNext]_pvars

Frame(A) == A /\ UNCHANGED <<mvars, dvars, mask, dmamem, users>>

\* Threads are scheduled; handlers, their work and readers come to an end.
PFairSpec ==
  /\ PSpec
  /\ WF_pvars(ModuleInit) /\ WF_pvars(Probe) /\ WF_pvars(Remove) /\ WF_pvars(Exit)
  /\ \A u \in {"high", "low", "work", "regproc"} : WF_pvars(End(u))
  /\ \A t \in Threads : WF_pvars(Frame(Thread(t)))
  /\ \A n \in Privs : WF_pvars(Frame(WorkEnd(n)))
  /\ WF_pvars(Frame(NlEnd)) /\ WF_pvars(Frame(ProcEnd))

----------------------------------------------------------------------------
(* Properties.                                                             *)

\* Everybody who uses the structure of the device, an open file, an ioctl or
\* xp_packet_send, a handler or its work, a reader of the proc file, finds it;
\* handlers and their work find the work queue, and the probe finds the DMA
\* memory device whose mask it sets.
UsersSafe ==
  /\ users \cap {"file", "high", "low", "work", "regproc"} # {} => "priv" \in held
  /\ users \cap {"high", "low", "work"} # {} => "wq" \in held
  /\ \A t \in Threads : pc[t] \notin {"idle", "remove"} => "priv" \in held
  /\ device = "probe" /\ ProbeSteps[dpc] = "dma" => "dma_priv" \in mods

\* The error path of the probe and the removal give back only what the device
\* holds.
ReleasesHeld ==
  /\ device \in {"undo", "undo_rc0"} /\ dpc < Len(UndoLabels) =>
       UndoReleases[UndoLabels[dpc]] \subseteq held
  /\ device = "remove" /\ dpc \in 2..Len(RemoveSteps) /\ ~RemoveSkips(RemoveSteps[dpc]) =>
       RemoveSteps[dpc] \in held

\* When the module is out, or loaded without its driver, it holds nothing, and
\* neither do its DMA memory device, the net device mode and a device that was
\* removed.
AllReleased ==
  module \in {"out", "dead"} =>
    /\ mods = {} /\ ~dmamem
    /\ held = {} /\ xpnet = None /\ alive = {}

\* A device that was removed leaves nothing behind.
RemoveLeavesNothing == [][device = "remove" => leaked' = leaked]_pvars

\* insmod and rmmod return.
ModuleReturns ==
  module \in {"init", "undo", "undo_rc0", "exit"} ~> module \in {"out", "live", "dead"}

\* insmod and rmmod return although deinit waits for the work item and for
\* netlink requests, and so does every call into the net device mode.
EverythingReturns == ModuleReturns /\ CallsReturn

\* "Failed to probe.": a probe that failed has given everything back.
FailedProbeLeavesNothing == leaked = {}

\* A handler or a user of /proc/xpregaccess reads registers through the window
\* of the device.
WindowMapped == users \cap {"high", "low", "regproc"} # {} => "iomap" \in held

\* The lock of the registers is initialised before user space can take it.
LockReady == "file" \in users => "lock" \in held

\* insmod succeeds only if the driver is registered.
LoadedIsRegistered == module # "dead"

\* The driver takes both interrupts if the device grants both.
BothServed == device = "bound" /\ msi = "both" => {"high", "low"} \subseteq held

----------------------------------------------------------------------------
(* Inductive invariants.                                                   *)

\* No two user threads call into the net device mode at the same time.
OneCaller ==
  \A s, t \in Threads \ {Rm} : pc[s] # "idle" /\ pc[t] # "idle" => s = t

\* What module init has taken after n steps, and what exit has left to give
\* back before step n.
ModuleTaken(n) == {ModuleSteps[i] : i \in 1..n}
ExitLeft(n) == {ExitSteps[i] : i \in n..Len(ExitSteps)}

\* Module init and exit know what is held, and there is no device without the
\* driver.
ModuleInv ==
  /\ module \in {"out", "init", "undo", "undo_rc0", "live", "dead", "exit"}
  /\ mpc \in Nat
  /\ module \in {"out", "dead"} => mods = {}
  /\ module = "init" => mpc \in 1..Len(ModuleSteps) + 1 /\ mods = ModuleTaken(mpc - 1)
  /\ module \in {"undo", "undo_rc0"} => mpc < Len(ModuleSteps) /\ mods = ModuleTaken(mpc)
  /\ module = "live" => mods = ModuleTaken(Len(ModuleSteps))
  /\ module = "exit" => mpc \in 1..Len(ExitSteps) + 1 /\ mods \subseteq ExitLeft(mpc)
  /\ device # "unbound" => "driver" \in mods

\* DMA memory is allocated through an open file once there is a mask, and freed
\* by the first step of module exit.
MemoryInv ==
  /\ "dma_file" \in users => module = "live"
  /\ dmamem => mask /\ (module = "live" \/ (module = "exit" /\ mpc = 1))

\* The resources that a successful probe takes with the present answer to
\* xp_pci_enable_msi_block, those taken after n steps of it, and those left
\* before step n of the removal.
Takes ==
  {s \in {ProbeSteps[i] : i \in 1..Len(ProbeSteps)} \ Checks :
     ~Skips(s) /\ (s = "msi" => msi # "fail")}
Passed(n) == {ProbeSteps[i] : i \in 1..n}
Left(n) ==
  {RemoveSteps[i] : i \in n..Len(RemoveSteps)}
    \cup {s \in {"lock"} : n <= IndexOf(RemoveSteps, "priv")}

\* The device never holds more than the probe has taken or the removal has left.
HeldAtMost ==
  /\ device \in {"unbound", "probe", "undo", "undo_rc0", "bound", "remove"}
  /\ device = "unbound" => held = {}
  /\ device = "probe" =>
       dpc \in 1..Len(ProbeSteps) /\ held \subseteq Passed(dpc - 1) \cap Takes
  /\ device \in {"undo", "undo_rc0"} =>
       dpc \in 1..Len(UndoLabels) + 1 /\ held \subseteq Passed(Len(ProbeSteps) - 1) \cap Takes
  /\ device = "bound" => held \subseteq Passed(Len(ProbeSteps)) \cap Takes
  /\ device = "remove" =>
       dpc \in 1..Len(RemoveSteps) + 1 /\ held \subseteq Left(dpc) \cap Takes

\* Resources that the probe does without if it does not get them.
Optional == {"regproc"} \cup {s \in {"wq", "low"} : s \in PMayFail}

\* Unless device_create fails, the device holds at least the rest of it; an
\* error path holds what its labels give back, the last of them excepted.
HeldAtLeast ==
  /\ device = "probe" => (Passed(dpc - 1) \cap Takes) \ Optional \subseteq held
  /\ device = "bound" => (Passed(Len(ProbeSteps)) \cap Takes) \ Optional \subseteq held
  /\ device = "remove" => (Left(dpc) \cap Takes) \ Optional \subseteq held
  /\ device = "undo" => \A k \in dpc..Len(UndoLabels) - 1 : UndoReleases[UndoLabels[k]] \subseteq held
  /\ device # "undo_rc0"
  /\ device # "remove" /\ "low" \in held => "high" \in held
  /\ "low" \in leaked => "high" \in leaked
  /\ "high" \notin held \cap leaked

\* Every thread is at a label, and was called for something.
CallTypes ==
  /\ pc \in [Threads -> Labels]
  /\ op \in [Threads -> {"none", "init", "deinit", "send"}]

\* Who is in a call, and for whom, if user space uses neither a device that is
\* being probed nor one that is being removed.
CallInv ==
  /\ "file" \in users => device = "bound" /\ module \in {"init", "live"}
  /\ "client" \in users => device # "remove" /\ module = "live"
  /\ \A t \in Threads \ {Rm} : pc[t] # "idle" =>
       /\ \/ op[t] \in {"init", "deinit"} /\ "file" \in users
          \/ op[t] = "send" /\ "client" \in users
       /\ device = "bound"
  /\ pc[Rm] # "idle" => device = "remove" \/ module = "exit"
  /\ pc[Rm] \in {"idle", "remove"} => op[Rm] = "none"
  /\ pc[Rm] \notin {"idle", "remove"} => device = "remove" /\ dpc = 2 /\ op[Rm] = "deinit"
  /\ device = "remove" => (dpc = 1 <=> pc[Rm] = "remove")
  /\ module = "exit" /\ device = "bound" => pc[Rm] = "remove"
  /\ device \in {"probe", "undo", "undo_rc0"} => module \in {"init", "live"}

\* The handlers, their work and the readers of the proc file, if no probe fails
\* after the interrupts were requested.
HandlerInv ==
  /\ leaked \cap {"high", "low"} = {}
  /\ device = "undo" => held \cap {"high", "low", "regproc"} = {}
  /\ users \cap {"high", "low", "regproc"} \subseteq
       held \cup {s \in Takes : device = "remove" /\ dpc > 1 /\ s = RemoveSteps[dpc - 1]}
  /\ "work" \in users => "wq" \in held
  /\ "work" \in users /\ device # "remove" => "high" \in held

\* Outside its use by a bound device the net device mode is off.
ModeInv ==
  /\ device \notin {"bound", "remove"} => Off
  /\ device = "remove" /\ dpc > 1 /\ pc[Rm] = "idle" => Off

=============================================================================
