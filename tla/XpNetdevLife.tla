---------------------------- MODULE XpNetdevLife ----------------------------
(***************************************************************************)
(* Start and end of the net device mode of the xpnet driver:               *)
(* xp_netdev_init and xp_netdev_deinit (xpnet/src/xp_netdev_core.c) with   *)
(* xp_netdev_mode_init and xp_netdev_mode_deinit                           *)
(* (xpnet/src/xp_netdev_intf.c), called by ioctls, by the removal of the   *)
(* device and, on demand, by xp_packet_send (xpnet/src/xp_pcie_slave.c).   *)
(*                                                                         *)
(* Nothing serialises these calls.  What they set up is used meanwhile by  *)
(* the RX work item, by netlink requests, by transmission through net      *)
(* devices and the client socket, and by readers of the proc files         *)
(* (xpnet/src/xp_netdev_proc.c).  If Quiet is TRUE, user space keeps       *)
(* netlink and traffic still, and reads neither the queue files nor the    *)
(* trap table, while a call is in progress.                                *)
(***************************************************************************)
EXTENDS Naturals, Sequences, FiniteSets

CONSTANTS Threads,    \* threads that call in
          Privs,      \* addresses of xpnet_private_t structures
          MayFail,    \* what may fail: subset of Steps
          Quiet,      \* user space is quiet during calls
          None

Steps == {"priv", "trap", "netlink", "client", "wq", "proc"}

\* The proc files, in the order of their creation and removal.
ProcFiles == <<"queue", "stats", "trap", "debug", "netdev", "txhdr">>

\* The registers and descriptors of a queue are printed from the structure and
\* its rings.
QueueUses == {"priv", "rings"}

\* The net devices and their TX headers are printed under the lock of their
\* list, which exists as long as the module does.
Locked == {"netdev", "txhdr"}

\* What reading a file uses that may go away meanwhile.
Uses(f) ==
  CASE f = "queue" -> QueueUses
    [] f = "stats" -> {"priv"}
    [] f = "trap"  -> {"table"}
    [] f \in Locked \cup {"debug", "none"} -> {}

\* Reading these uses what a call takes down before it removes the files.
Unguarded == {f \in {"queue", "stats", "trap"} : Uses(f) \cap {"rings", "table"} # {}}

ASSUME MayFailAssumption == MayFail \subseteq Steps
ASSUME QuietAssumption == Quiet \in BOOLEAN
ASSUME NoneAssumption == None \notin Privs

VARIABLES
  xpnet,       \* priv->xpnet
  g_net_priv,  \* the global pointer
  alive,       \* structures allocated
  rings,       \* structures whose RX and TX queues are set up
  trap_table,  \* the trap table exists
  netlink,     \* the netlink sockets exist
  netdevs,     \* there are net devices
  client,      \* the client socket is bound
  wqueue,      \* structures with a work queue
  dwork,       \* the work item of a structure
  pc,          \* where a thread is
  net_priv,    \* its local variable
  op,          \* what it was called for
  nlbusy,      \* a netlink request is being handled
  proc,        \* the proc files that exist
  proc_data,   \* the structure they show
  reader       \* the proc file being read

mode == <<trap_table, netlink, netdevs, client>>
core == <<xpnet, g_net_priv, alive, rings, wqueue, dwork>>
thread == <<pc, net_priv, op>>
procs == <<proc, proc_data, reader>>
vars == <<mode, core, thread, nlbusy, procs>>

----------------------------------------------------------------------------

Init ==
  /\ xpnet = None
  /\ g_net_priv = None
  /\ alive = {}
  /\ rings = {}
  /\ trap_table = FALSE
  /\ netlink = FALSE
  /\ netdevs = FALSE
  /\ client = FALSE
  /\ wqueue = {}
  /\ dwork = [n \in Privs |-> "off"]
  /\ pc = [t \in Threads |-> "idle"]
  /\ net_priv = [t \in Threads |-> None]
  /\ op = [t \in Threads |-> "none"]
  /\ nlbusy = FALSE
  /\ proc = {}
  /\ proc_data = None
  /\ reader = "none"

NoCall == \A t \in Threads : pc[t] = "idle"

\* Netlink requests and packets may start now.
UsersRun == Quiet => NoCall

\* Nothing of user space is in progress.
Still == ~nlbusy /\ reader \notin Unguarded /\ \A n \in Privs : dwork[n] # "packet"

Goto(t, l) == pc' = [pc EXCEPT ![t] = l]

\* The call is over.
Return(t) ==
  /\ Goto(t, "idle")
  /\ op' = [op EXCEPT ![t] = "none"]

Call(t, o) ==
  /\ pc[t] = "idle"
  /\ Quiet => Still
  /\ op' = [op EXCEPT ![t] = o]
  /\ Goto(t, IF o = "deinit" THEN "deinit" ELSE "init")
  /\ UNCHANGED <<mode, core, net_priv, nlbusy, procs>>

----------------------------------------------------------------------------
(* xp_netdev_init.                                                         *)

\* xp_netdev_init is over; xp_packet_send goes on.
InitDone(t) ==
  \/ op[t] = "send" /\ Goto(t, "send") /\ UNCHANGED op
  \/ op[t] # "send" /\ Return(t)

\* "xp_netdev_init already done."
InitAlready(t) ==
  /\ pc[t] = "init"
  /\ xpnet # None
  /\ InitDone(t)
  /\ UNCHANGED <<mode, core, net_priv, nlbusy, procs>>

InitBegin(t) ==
  /\ pc[t] = "init"
  /\ xpnet = None
  /\ Goto(t, "alloc")
  /\ UNCHANGED <<mode, core, net_priv, op, nlbusy, procs>>

InitNoMemory(t) ==
  /\ pc[t] = "alloc"
  /\ "priv" \in MayFail
  /\ InitDone(t)
  /\ UNCHANGED <<mode, core, net_priv, nlbusy, procs>>

\* The structure is allocated and published, the queues are set up.
InitAlloc(t, n) ==
  /\ pc[t] = "alloc"
  /\ n \notin alive
  /\ alive' = alive \cup {n}
  /\ net_priv' = [net_priv EXCEPT ![t] = n]
  /\ xpnet' = n
  /\ g_net_priv' = n
  /\ rings' = rings \cup {n}
  /\ Goto(t, "trap")
  /\ UNCHANGED <<mode, wqueue, dwork, op, nlbusy, procs>>

\* xp_trap_init.
InitTrap(t) ==
  /\ pc[t] = "trap"
  /\ \/ trap_table' = TRUE /\ Goto(t, "netlink")
     \/ "trap" \in MayFail /\ Goto(t, "teardown") /\ UNCHANGED trap_table
  /\ UNCHANGED <<netlink, netdevs, client, core, net_priv, op, nlbusy, procs>>

\* xp_netlink_sock_init; there can be only one netlink socket of this kind.
InitNetlink(t) ==
  /\ pc[t] = "netlink"
  /\ \/ ~netlink /\ netlink' = TRUE /\ Goto(t, "client")
     \/ (netlink \/ "netlink" \in MayFail) /\ Goto(t, "undo_trap") /\ UNCHANGED netlink
  /\ UNCHANGED <<trap_table, netdevs, client, core, net_priv, op, nlbusy, procs>>

\* xp_client_sock_init; there can be only one socket bound to the port.
InitClient(t) ==
  /\ pc[t] = "client"
  /\ \/ ~client /\ client' = TRUE /\ Goto(t, "wq")
     \/ (client \/ "client" \in MayFail) /\ Goto(t, "undo_netlink") /\ UNCHANGED client
  /\ UNCHANGED <<trap_table, netlink, netdevs, core, net_priv, op, nlbusy, procs>>

\* err_xp_sock_create: xp_netlink_sock_deinit waits for a running request.
UndoNetlink(t) ==
  /\ pc[t] = "undo_netlink"
  /\ ~nlbusy
  /\ netlink' = FALSE
  /\ Goto(t, "undo_trap")
  /\ UNCHANGED <<trap_table, netdevs, client, core, net_priv, op, nlbusy, procs>>

\* Faulty variant: the trap table is not freed on the error path.
Fault_UndoTrapLeaks(t) ==
  /\ pc[t] = "undo_trap"
  /\ Goto(t, "teardown")
  /\ UNCHANGED <<mode, core, net_priv, op, nlbusy, procs>>

\* err_xp_netlink_sock_init: xp_trap_deinit.
UndoTrap(t) ==
  /\ pc[t] = "undo_trap"
  /\ trap_table' = FALSE
  /\ Goto(t, "teardown")
  /\ UNCHANGED <<netlink, netdevs, client, core, net_priv, op, nlbusy, procs>>

\* xpnet_proc_create stops at the first file it cannot create; its failure is
\* only logged.
ProcCreate ==
  /\ \E k \in 0..Len(ProcFiles) :
        /\ "proc" \notin MayFail => k = Len(ProcFiles)
        /\ proc' = {ProcFiles[i] : i \in 1..k}
  /\ proc_data' = g_net_priv
  /\ UNCHANGED reader

\* create_workqueue, the proc files, queue_delayed_work; the queues are started.
InitWork(t) ==
  /\ pc[t] = "wq"
  /\ \/ /\ wqueue' = wqueue \cup {net_priv[t]}
        /\ dwork' = [dwork EXCEPT ![net_priv[t]] = "queued"]
        /\ InitDone(t)
        /\ net_priv' = [net_priv EXCEPT ![t] = None]
        /\ ProcCreate
     \/ /\ "wq" \in MayFail
        /\ Goto(t, "mode_deinit")
        /\ UNCHANGED <<wqueue, dwork, net_priv, op, procs>>
  /\ UNCHANGED <<mode, xpnet, g_net_priv, alive, rings, nlbusy>>

\* err_netdev_fp_netdev.
Teardown(t) ==
  /\ pc[t] = "teardown"
  /\ rings' = rings \ {net_priv[t]}
  /\ alive' = alive \ {net_priv[t]}
  /\ xpnet' = None
  /\ g_net_priv' = None
  /\ net_priv' = [net_priv EXCEPT ![t] = None]
  /\ InitDone(t)
  /\ UNCHANGED <<mode, wqueue, dwork, nlbusy, procs>>

----------------------------------------------------------------------------
(* xp_netdev_deinit, and xp_netdev_mode_deinit as part of a failed init.   *)

DeinitNothing(t) ==
  /\ pc[t] = "deinit"
  /\ xpnet = None
  /\ Return(t)
  /\ UNCHANGED <<mode, core, net_priv, nlbusy, procs>>

DeinitBegin(t) ==
  /\ pc[t] = "deinit"
  /\ xpnet # None
  /\ net_priv' = [net_priv EXCEPT ![t] = xpnet]
  /\ Goto(t, "mode_deinit")
  /\ UNCHANGED <<mode, core, op, nlbusy, procs>>

\* xp_netdev_mode_deinit: xp_trap_deinit comes first.
ModeTrap(t) ==
  /\ pc[t] = "mode_deinit"
  /\ trap_table' = FALSE
  /\ Goto(t, "mode_netlink")
  /\ UNCHANGED <<netlink, netdevs, client, core, net_priv, op, nlbusy, procs>>

ModeNetlink(t) ==
  /\ pc[t] = "mode_netlink"
  /\ ~nlbusy
  /\ netlink' = FALSE
  /\ Goto(t, "mode_netdevs")
  /\ UNCHANGED <<trap_table, netdevs, client, core, net_priv, op, nlbusy, procs>>

\* xp_netdev_all_remove.
ModeNetdevs(t) ==
  /\ pc[t] = "mode_netdevs"
  /\ netdevs' = FALSE
  /\ Goto(t, "mode_client")
  /\ UNCHANGED <<trap_table, netlink, client, core, net_priv, op, nlbusy, procs>>

ModeClient(t) ==
  /\ pc[t] = "mode_client"
  /\ client' = FALSE
  /\ Goto(t, IF op[t] = "deinit" THEN "cancel" ELSE "teardown")
  /\ UNCHANGED <<trap_table, netlink, netdevs, core, net_priv, op, nlbusy, procs>>

\* Faulty variant: the work item is not cancelled.
Fault_NoCancel(t) ==
  /\ pc[t] = "cancel"
  /\ Goto(t, "free")
  /\ UNCHANGED <<mode, core, net_priv, op, nlbusy, procs>>

\* Faulty variant: deinit waits for the work item to go away by itself.
Fault_NeverCancels(t) ==
  /\ pc[t] = "cancel"
  /\ dwork[net_priv[t]] = "off"
  /\ Goto(t, "free")
  /\ UNCHANGED <<mode, core, net_priv, op, nlbusy, procs>>

\* cancel_delayed_work_sync waits until the work item does not run, and keeps
\* it from being queued again (WorkEnd).
Cancel(t) ==
  /\ pc[t] = "cancel"
  /\ dwork[net_priv[t]] \in {"off", "queued"}
  /\ dwork' = [dwork EXCEPT ![net_priv[t]] = "off"]
  /\ Goto(t, "free")
  /\ UNCHANGED <<mode, xpnet, g_net_priv, alive, rings, wqueue, net_priv, op, nlbusy, procs>>

\* The queues are torn down and the work queue is destroyed.
Free(t) ==
  /\ pc[t] = "free"
  /\ rings' = rings \ {net_priv[t]}
  /\ wqueue' = wqueue \ {net_priv[t]}
  /\ Goto(t, "unproc")
  /\ UNCHANGED <<mode, xpnet, g_net_priv, alive, dwork, net_priv, op, nlbusy, procs>>

\* proc_remove waits for the readers of the file it has removed.
ReadersLeft == reader \in proc \cup {"none"}

\* proc_remove of the first file that is left, after that of the previous one.
RemoveProc(t) ==
  /\ pc[t] = "unproc"
  /\ ReadersLeft
  /\ \E i \in 1..Len(ProcFiles) :
        /\ ProcFiles[i] \in proc
        /\ \A j \in 1..(i - 1) : ProcFiles[j] \notin proc
        /\ proc' = proc \ {ProcFiles[i]}
  /\ UNCHANGED <<mode, core, thread, nlbusy, proc_data, reader>>

\* The structure is freed; g_net_priv still points at it.
FreePriv(t) ==
  /\ pc[t] = "unproc"
  /\ proc = {}
  /\ ReadersLeft
  /\ alive' = alive \ {net_priv[t]}
  /\ xpnet' = None
  /\ net_priv' = [net_priv EXCEPT ![t] = None]
  /\ Return(t)
  /\ UNCHANGED <<mode, g_net_priv, rings, wqueue, dwork, nlbusy, procs>>

----------------------------------------------------------------------------
(* Users.                                                                  *)

\* xp_packet_send: init failed.
SendError(t) ==
  /\ pc[t] = "send"
  /\ xpnet = None
  /\ Return(t)
  /\ UNCHANGED <<mode, core, net_priv, nlbusy, procs>>

\* xp_packet_send calls xpnet_start_xmit with the structure.
SendBegin(t) ==
  /\ pc[t] = "send"
  /\ xpnet # None
  /\ net_priv' = [net_priv EXCEPT ![t] = xpnet]
  /\ Goto(t, "xmit")
  /\ UNCHANGED <<mode, core, op, nlbusy, procs>>

SendEnd(t) ==
  /\ pc[t] = "xmit"
  /\ net_priv' = [net_priv EXCEPT ![t] = None]
  /\ Return(t)
  /\ UNCHANGED <<mode, core, nlbusy, procs>>

\* The work item runs, may find a packet and dispatch it by the trap table,
\* and queues itself again.
WorkRun(n) ==
  /\ dwork[n] = "queued"
  /\ dwork' = [dwork EXCEPT ![n] = "running"]
  /\ UNCHANGED <<mode, xpnet, g_net_priv, alive, rings, wqueue, thread, nlbusy, procs>>

WorkPacket(n) ==
  /\ dwork[n] = "running"
  /\ UsersRun
  /\ dwork' = [dwork EXCEPT ![n] = "packet"]
  /\ UNCHANGED <<mode, xpnet, g_net_priv, alive, rings, wqueue, thread, nlbusy, procs>>

WorkEnd(n) ==
  /\ dwork[n] \in {"running", "packet"}
  /\ dwork' = [dwork EXCEPT ![n] =
                IF \E t \in Threads : pc[t] = "cancel" /\ net_priv[t] = n
                THEN "off" ELSE "queued"]
  /\ UNCHANGED <<mode, xpnet, g_net_priv, alive, rings, wqueue, thread, nlbusy, procs>>

\* A netlink request is handled; it may use the trap table, and create or
\* remove net devices.
NlBegin ==
  /\ netlink
  /\ ~nlbusy
  /\ UsersRun
  /\ nlbusy' = TRUE
  /\ UNCHANGED <<mode, core, thread, procs>>

NlEnd ==
  /\ nlbusy
  /\ netdevs' \in BOOLEAN
  /\ nlbusy' = FALSE
  /\ UNCHANGED <<trap_table, netlink, client, core, thread, procs>>

\* A proc file is read; there is nothing to print without a trap table.
ProcBegin(f) ==
  /\ f \in proc
  /\ f = "trap" => trap_table
  /\ reader = "none"
  /\ f \in Unguarded => UsersRun
  /\ reader' = f
  /\ UNCHANGED <<mode, core, thread, nlbusy, proc, proc_data>>

ProcEnd ==
  /\ reader # "none"
  /\ reader' = "none"
  /\ UNCHANGED <<mode, core, thread, nlbusy, proc, proc_data>>

----------------------------------------------------------------------------

InitStep(t) ==
  \/ InitAlready(t) \/ InitBegin(t) \/ InitNoMemory(t)
  \/ \E n \in Privs : InitAlloc(t, n)
  \/ InitTrap(t) \/ InitNetlink(t) \/ InitClient(t) \/ InitWork(t)
  \/ UndoNetlink(t) \/ UndoTrap(t) \/ Teardown(t)

DeinitStep(t) ==
  \/ DeinitNothing(t) \/ DeinitBegin(t)
  \/ ModeTrap(t) \/ ModeNetlink(t) \/ ModeNetdevs(t) \/ ModeClient(t)
  \/ Cancel(t) \/ Free(t) \/ RemoveProc(t) \/ FreePriv(t)

SendStep(t) == SendError(t) \/ SendBegin(t) \/ SendEnd(t)

Thread(t) == InitStep(t) \/ DeinitStep(t) \/ SendStep(t)

\* The work item, netlink requests and readers of the proc files.
Users ==
  \/ \E n \in Privs : WorkRun(n) \/ WorkPacket(n) \/ WorkEnd(n)
  \/ NlBegin \/ NlEnd
  \/ \E i \in 1..Len(ProcFiles) : ProcBegin(ProcFiles[i])
  \/ ProcEnd

Next ==
  \/ \E t \in Threads : \/ \E o \in {"init", "deinit", "send"} : Call(t, o)
                        \/ Thread(t)
  \/ Users

Spec == Init /\ [][Next]_vars

\* Threads are scheduled; requests, readers and the work item come to an end.
Fairness ==
  /\ \A t \in Threads : WF_vars(Thread(t))
  /\ \A n \in Privs : WF_vars(WorkEnd(n))
  /\ WF_vars(NlEnd)
  /\ WF_vars(ProcEnd)

FairSpec == Spec /\ Fairness

----------------------------------------------------------------------------
(* Properties.                                                             *)

\* When no call is in progress and the mode is off, everything that was set up
\* has been released, whichever step failed.
Released ==
  NoCall /\ xpnet = None =>
    /\ alive = {} /\ rings = {} /\ wqueue = {}
    /\ ~trap_table /\ ~netlink /\ ~netdevs /\ ~client
    /\ proc = {} /\ reader = "none"
    /\ \A n \in Privs : dwork[n] = "off"

\* A net device or the client socket transmits through g_net_priv, and
\* xp_packet_send through priv->xpnet: the structure exists whenever they do.
PrivOutlivesUsers ==
  /\ netdevs \/ client => g_net_priv \in alive
  /\ \A t \in Threads : pc[t] = "xmit" => net_priv[t] \in alive

\* The work item exists only as long as its structure, its queues and its work
\* queue.
WorkHasRings == \A n \in Privs : dwork[n] # "off" => n \in alive \cap rings \cap wqueue

\* Nothing that uses the trap table, neither the work item nor a netlink
\* request, runs when there is none.
TableOutlivesUsers ==
  nlbusy \/ (\E n \in Privs : dwork[n] = "packet") => trap_table

\* A reader of a proc file finds what the file shows: the structure, the
\* descriptors of its queues, or the trap table.
ReaderHasPriv ==
  /\ "priv" \in Uses(reader) => proc_data \in alive
  /\ "rings" \in Uses(reader) => proc_data \in rings
  /\ "table" \in Uses(reader) => trap_table

\* Nothing outlives what it uses: transmission, the work item, netlink requests
\* and readers of the proc files.
NothingOutlives ==
  PrivOutlivesUsers /\ WorkHasRings /\ TableOutlivesUsers /\ ReaderHasPriv

\* What the code protects whatever user space and the wire do during a call:
\* transmission has its structure, the work item its structure, queues and work
\* queue, and a reader of a proc file the structure that the file shows.
UsersProtected ==
  /\ PrivOutlivesUsers
  /\ WorkHasRings
  /\ "priv" \in Uses(reader) => proc_data \in alive

\* "Flush and destroy workqueue.": when xp_trap_deinit has freed the trap table
\* the work item does not dispatch packets any more.
FlushedBeforeFree == (\E n \in Privs : dwork[n] = "packet") => trap_table

\* "xp_netdev_init already done.": the mode is never set up twice.
OneInstance == Cardinality(alive) <= 1

\* Init, deinit and send return.
CallsReturn == \A t \in Threads : pc[t] # "idle" ~> pc[t] = "idle"

----------------------------------------------------------------------------
(* Inductive invariants, for calls that do not overlap.                    *)

\* A request handled between xp_netlink_sock_init and a failing
\* xp_client_sock_init may create net devices, which that failure path does not
\* remove: no request comes during a call, or the client socket can be bound.
Bindable == Quiet \/ "client" \notin MayFail

\* One call at a time.
OneCall == \A s, t \in Threads : pc[s] # "idle" /\ pc[t] # "idle" => s = t

\* Where a call is: before it has looked at priv->xpnet or changed anything
\* ("remove": a removal that has still to call deinit, see XpPci), setting up,
\* undoing what was set up, or taking the mode down.
Before == {"idle", "init", "deinit", "send", "remove"}
Setup == {"trap", "netlink", "client", "wq", "undo_netlink", "undo_trap", "teardown"}
ModeDown == {"mode_deinit", "mode_netlink", "mode_netdevs", "mode_client"}
Takedown == ModeDown \cup {"cancel", "free", "unproc"}
Labels == Before \cup {"alloc", "xmit"} \cup Setup \cup Takedown

\* Every variable stays in its range.
TypeOK ==
  /\ trap_table \in BOOLEAN /\ netlink \in BOOLEAN /\ netdevs \in BOOLEAN
  /\ client \in BOOLEAN /\ nlbusy \in BOOLEAN
  /\ xpnet \in Privs \cup {None} /\ g_net_priv \in Privs \cup {None}
  /\ proc_data \in Privs \cup {None}
  /\ alive \subseteq Privs /\ rings \subseteq Privs /\ wqueue \subseteq Privs
  /\ dwork \in [Privs -> {"off", "queued", "running", "packet"}]
  /\ pc \in [Threads -> Labels]
  /\ net_priv \in [Threads -> Privs \cup {None}]
  /\ op \in [Threads -> {"none", "init", "deinit", "send"}]
  /\ proc \subseteq {ProcFiles[i] : i \in 1..Len(ProcFiles)}
  /\ reader \in {"none"} \cup {ProcFiles[i] : i \in 1..Len(ProcFiles)}

\* The mode is off, and nothing is held.
Off ==
  /\ xpnet = None
  /\ alive = {} /\ rings = {} /\ wqueue = {}
  /\ ~trap_table /\ ~netlink /\ ~netdevs /\ ~client
  /\ proc = {} /\ reader = "none"
  /\ \A m \in Privs : dwork[m] = "off"

\* What is held at label l ("on" when the mode is on) through structure n, if
\* the mode was on before (was) or is being set up.
Holds(l, n, was) ==
  /\ xpnet = n /\ g_net_priv = n
  /\ alive = {n}
  /\ rings = IF l = "unproc" THEN {} ELSE {n}
  /\ wqueue = IF was /\ l # "unproc" THEN {n} ELSE {}
  /\ trap_table <=> l \in {"on", "netlink", "client", "wq", "undo_netlink", "undo_trap",
                           "mode_deinit"}
  /\ netlink <=> l \in {"on", "client", "wq", "undo_netlink", "mode_deinit", "mode_netlink"}
  /\ client <=> l \in {"on", "wq"} \cup ModeDown
  /\ netdevs => /\ Quiet => was
                /\ l \in {"on", "client", "wq", "mode_deinit", "mode_netlink", "mode_netdevs"}
  /\ l = "undo_netlink" => "client" \in MayFail
  /\ \A m \in Privs : dwork[m] # "off" => m = n /\ was /\ l \notin {"free", "unproc"}
  /\ proc # {} \/ reader # "none" => was
  /\ was => proc_data = n

\* The call of thread t has changed nothing: the mode is off, or on.
Calm(t) == op[t] = "deinit" <=> pc[t] = "deinit"
Idle(t) == Off /\ Calm(t) /\ pc[t] \in Before \cup {"alloc"}
On(t) ==
  \E n \in Privs : /\ Holds("on", n, TRUE)
                   /\ Calm(t)
                   /\ pc[t] \in Before \/ (pc[t] = "xmit" /\ net_priv[t] = n)

\* The call of thread t has set up, or has left to take down, part of it.
Part(t) ==
  /\ net_priv[t] \in Privs
  /\ Holds(pc[t], net_priv[t], op[t] = "deinit")
  /\ IF op[t] = "deinit" THEN pc[t] \in Takedown ELSE pc[t] \in Setup \cup ModeDown

LifeInv ==
  /\ NoCall => Off \/ \E n \in Privs : Holds("on", n, TRUE)
  /\ \A t \in Threads : pc[t] # "idle" => Idle(t) \/ On(t) \/ Part(t)

\* User space that is quiet during calls is quiet now.
QuietInv == Quiet /\ ~NoCall => Still

\* A netlink request runs only while the sockets exist, as both releases of them
\* wait for it.
RequestInv == nlbusy => netlink

UserInv == QuietInv /\ RequestInv

=============================================================================
