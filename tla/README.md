# xpnet: TLA+ specifications of the XPliant PCIe / net device driver

The repository holds the C headers of the openXps API, SerDes and SAI binary
packages, and one program in source form: the Linux kernel driver `xpnet`
(`src/xpnet`).  This project specifies the driver.  The API's implementation is
a binary library that is not in the repository, so its headers carry no
behaviour to model.

| file | what it is |
|---|---|
| `xpnet/src/xp_netdev_core.c` | descriptor rings, DMA transmit and receive, start and end of the net device mode |
| `xpnet/src/xp_netdev_intf.c` | netlink, net devices, trap table, packet dispatch, sockets |
| `xpnet/src/xp_pcie_slave.c`  | PCI probe and remove, interrupts, register access, DMA memory, ioctls |
| `xpnet/src/xp_netdev_proc.c` | proc files that dump rings, counters and tables |

## 1. Inventory

### The parts of the system

**Transmit path** (`xpnet_start_xmit`, `xpnet_hard_start_xmit`,
`__xpnet_skb_to_shards`, `__xpnet_skb_stat_enqueue`, `xpnet_tx_complete`).
State: per TX queue `head`, `tail`, the descriptors with their ownership, error,
SOP and EOP bits, the DMA buffers, the registers of the engine; the counters;
the lock `tx_dma_read_lock`.  A call takes the lock, refuses or drops the skb or
copies it segment by segment into the buffers, hands the descriptors over, the
first one last, starts the engine and polls for completion, a bounded number of
times.  Then the ring is rewound, whatever the engine did.  Correct when: the
engine never sees half a frame; what it owns does not change; the skb is freed
exactly when the call succeeds; the counters account for every skb; register
accesses and DMA are kept apart; every call returns.

**Receive path** (`xpnet_rxtx_handler`, `xpnet_rx_handle`,
`xpnet_rx_queue_process`).  State: per RX queue `tail`, the chain of descriptors
and buffers, the engine's descriptor pointer and enable bit.  A work item that
reschedules itself for ever empties the queues one after the other, gives every
descriptor back, and restarts the engine when `tail` comes back to 0.  Correct
when: packets are delivered in order, none lost and none twice; the engine is
restarted exactly when it has stopped; no queue starves another.

**Trap table and dispatch** (`xp_trap_*`, `xp_rx_skb_process`,
`xp_netdev_skb_send`).  State: `trap_table` with `rc_map` (reason code to trap
id) and `trap` (trap id to an allocated entry with channel, socket and counter),
the callback socket, the mirroring flag.  Netlink requests change it; the
receive path looks a packet's reason code up in two critical sections and then
uses the entry without the lock.  Correct when: the table and the allocated
entries agree; a packet goes where the table said.

**Net devices** (`xp_nl_msg_if_*`, `xp_rx_skb_netdev_process`).  State: the list
of devices, the interface number each is linked to, the hash table of the linked
ones.  Correct when: list and hash table agree after any sequence of messages; a
packet reaches the devices linked to its port and router interface, and no
other.

**Net device operations** (`xp_ndo_open`, `xp_ndo_stop`, `xp_ndo_start_xmit`, the
TX header).  Correct when: a frame leaves with one header; copies are freed; a
refused packet is sent in the end.

**Netlink requests** (`xp_netlink_rcv`, `xp_nl_msg_process`).  A mutex and a loop
over the messages of a request.  Correct when: every message is handled once, in
order, and no two requests at a time.

**Net device mode** (`xp_netdev_init`, `xp_netdev_deinit`, `xp_netdev_mode_init`,
`xp_netdev_mode_deinit`, on-demand init in `xp_packet_send`).  State: which of
the structures, rings, tables, sockets and work items exist.  Correct when:
everything is released, whichever step failed, and nothing outlives what it
uses.

**DMA memory** (`/dev/xpdmamem`: `xp_dma_mem_alloc`, `_free`, `_cleanup`,
`xp_dma_mmap`).  State: the list of areas and the running offset `mem_index`.
Correct when: an offset leads to the area it was given out for; nothing is lost
or freed twice.

**Register access** (`xp_dev_reg_read`, `xp_dev_reg_write`, the ioctl
`PCIE_REG_CMD` with `xp_dev_reg_access` and `xp_pci_conf_get`,
`/proc/xpregaccess`, and callers in the kernel).  State: the registers, the lock
`tx_dma_read_lock`, per call a kernel buffer, a chunk index and the remaining
length, and the answer of the proc file, `reg_rw_status`.  Correct when: an
access happens at one point in time, reaches the bytes asked for and no others,
and returns.

**Interrupts** (`xp_msi_irq_handler_high` and `_low`, `xp_irq_handler`,
`xp_irq_mgmt_handler`, `xp_task_work_handler`, `REGISTER_PID`).  State: summary,
source and status registers of the device, the tables of blocks, two static
`intr_info`, the queue of work items, `app_pid`.  Correct when: every event
becomes a work item that describes it, nothing is cleared that was not reported,
and nobody waits for ever.

**PCI probe and remove, module init and exit** (`xp_pci_probe`, `xp_pci_remove`,
`xp_module_init`, `xp_module_exit`).  State: what the device and the module hold
(memory, regions, interrupts, the register window, files, the work queue, the
DMA memory device).  Correct when: everything is released exactly once, whichever
step failed, and only after its users have left; insmod and rmmod return.

**Client socket** (`xp_packet_send` of `xp_netdev_intf.c`): takes a datagram off
the receive queue and gives it to the transmit ring.  Correct when the packet is
sent or freed.

**proc files** (`xp_netdev_proc.c`): readers walk the rings, the counters, the
trap table and the net devices.  Correct when what they walk exists.

### How they interact

```
   insmod / rmmod ──> module ──> PCI core ──> probe / remove ──> deinit
   device ──> interrupt handlers ──> work items ──> signals to a process
   netlink requests ──(xp_netlink_mutex)──> trap table, net devices
   ioctls ──> init / deinit ──> all of it;  DMA memory;  registers
   kernel ──> xp_ndo_start_xmit ──> xpnet_start_xmit ──(tx_dma_read_lock)──> TX ring <──> engine
   client socket ──────────────────────^                     ^
   ioctls, proc, interrupts ── register access ──────────────┘
   engine <──> RX rings ──> work item ──> trap table ──> net devices / sockets
```

### What is hard about it

Two kinds of actors share each ring, the driver and a DMA engine, by an ownership
bit and nothing else.  A timeout leaves the engine owning descriptors that the
next call writes.  Table entries and net devices are used outside the lock they
were found under.  Init and deinit are not serialised with anything.  Loops over
requests do unsigned arithmetic on lengths.  Interrupt handlers describe events in
static variables and clear registers they have read earlier.  The error paths of
the probe and of module init are chains of labels, and the removal has to wait
for handlers, work and readers in the right order.  `PROJECT.json` lists these hazards
at their lines, each with the properties that watch it or the reason there is
none.

## 2. Modules

| module | models | actors |
|---|---|---|
| `XpnetTx` | transmit path and the competition for `tx_dma_read_lock` | senders, register users, engine |
| `XpnetRx` | receive rings and the work item | work item, init thread, engine |
| `RxFifo` | abstract: a bounded lossless FIFO per queue | – |
| `XpTrap` | trap table and `xp_rx_skb_process` | netlink, receive path |
| `XpIntf` | list, links and hash table of net devices, receive lookup | netlink, receive path |
| `XpNdo` | `net_device_ops`, the TX header and the client socket | kernel, netlink, socket |
| `XpNetlink` | the request loop and its mutex | one request per namespace |
| `XpNetdevLife` | init and deinit with their failures, and the users of what they set up | calling threads, work item, netlink, kernel, readers of proc files |
| `XpPci` | extends `XpNetdevLife`: probe, remove, module init and exit, and the users of the device | PCI core, insmod and rmmod, files, client module, handlers |
| `XpIrq` | interrupt handlers and signals | two handlers, worker, device, processes |
| `XpRegAccess` | register and configuration space access | ioctl, proc file and kernel threads, device |
| `RegSpace` | abstract: registers that are read and written atomically | – |
| `XpDmaMem` | DMA memory ioctls and mmap | user threads |
| `XpnetTxProof`, `XpnetRxProof`, `XpTrapProof`, `XpNdoProof`, `XpIrqProof`, `XpDmaMemProof` | theorems about the module each is named after | |
| `XpIntfProof` | theorems about `XpIntf` and `XpNetlink` | |
| `XpPciProof` | theorems about `XpNetdevLife` and `XpPci`, which extends it | |
| `MC...` | symmetry sets and constants for TLC | |

**State and actions.**  A variable is a field or a local variable of the code
and keeps its name.  Variables commented "history" record what has happened for a
property and guard nothing.  An action is a stretch of code that no other actor
can observe in parts: a critical section, a single register or descriptor
access, or code on purely local state.  A handler that holds its lock throughout
is one action; one that releases it (the two lookups of
`xp_rx_skb_netdev_process`, the two of `xp_rx_skb_process`) is several, with the
place in `pc`.  `PROJECT.json` maps every definition to its lines.

**Faulty variants.**  A definition `Fault_X` before an action is that action with
a plausible mistake (a dropped guard, a missing reset, an off-by-one).  No
specification uses it; replacing the action by it makes TLC report the property
it is listed with under "mutants".

**Abstractions.**  Packets are sequence numbers (receive), model values
(transmit) or reason code, port, interface and bridge domain (dispatch).  A
transmit frame is a number of 4 kB segments and one content.  Addresses of
`kmalloc` are model values that are reused after a free; a read of freed memory
gives any value.  Interface numbers keep their three ranges, at small bounds.
Lengths of netlink messages are the real structure sizes; `payload_len` wraps.
A register is four bytes and a byte is named after who wrote it, so that a
misplaced or stale one shows; the chunk index keeps its wrap-around (`IdxMod`).
An interrupt register word is the set of its bits, with the block tables as in
the code.  Probe, removal, module init and exit are tables of steps named after
the resource each takes or gives back, walked by one action per way a step can
go (taken, skipped, failed, failure ignored); the label a failing step jumps to
is `FailsTo`.

**Deviations.**  `class_create` and `device_create` are modelled as the code
tests them, by NULL.  A second failure of `pci_set_dma_mask` is ignored by the code
and is the success of the step `dma`.  There is one device with one window; the
counter of minors and the table of eight device pointers are left out (a device
probed after eight others is not found by `xp_packet_send`); for the same reason the
checks of the device number at the start of `xp_dev_reg_read` and `_write`
(`xp_pcie_slave.c:1965`, `1978`), which always succeed, are no branches of `XpRegAccess`.
The branch of `xpnet_hard_start_xmit` for a null skb (`xp_netdev_core.c:999`) is left
out: no caller passes one.  `unregister_netdev`, which sleeps, is called under
`write_lock_irqsave` (`xp_netdev_intf.c:429`); a step that completes stands for it,
so the models say nothing about a kernel that checks for that.  An access of one or
two bytes is followed to the bytes asked for; that the ioctl copies `count * 4` bytes
to user space for it (`xp_pcie_slave.c:1254`) is not seen.

**Two handlers at a time.**  The interrupts of the two vectors are delivered to one
processor or to two (`cpus`, chosen initially).  On two, the handlers share the
static `intr_info` of each function without a lock.  `XpIrq` does not follow the
loads and stores a compiler makes of that: from the moment a function is entered
while the other handler is in it, and until one of them leaves (`raced`), what is
read from the static may be anything (`AnyInfo`; either value of `has_queue_info`;
any queue, so any status register and source bit that a handler could name).
`MaxRounds` bounds what the device does on two processors; on one nothing is bounded
but the queue of work items.

**External.**  The DMA engine (in `XpnetTx` and `XpnetRx`), the kernel's queueing
in `XpNdo`, user space in `XpDmaMem`, in `XpIrq` the registers and the processes,
in `XpPci` the PCI core and the module loader (no unloading while a file is open
or a client module is loaded; `free_irq`, `proc_remove` and `flush_workqueue`
wait).  The engine is modelled from how the driver
uses it: it works on descriptors it owns, along the chain, clears the ownership
bit, and stops after EOP (transmit) or at a null next pointer (receive).  It may
be slow, never answer or report an error.

**One hardware revision in the transmit ring.**  `xp_netdev_init` sets `hw_flags`
to `XPNET_HWFLAG_A0` for every device, so the other branches on `hw_flags` are
dead and not modelled.  `pci_priv->mode`, which does vary, decides only byte order
and the 16 bytes subtracted from a received length.

## 3. Runs

`tlc -config <run>.cfg <module>`, with deadlock checking except where the cfg
turns it off.

| run | module | distinct states | checks |
|---|---|---|---|
| `tx` | `MCXpnetTx` | 584 000 | `NoCorruption`, `WholeFrame`, `SkbAccounted`, `RegAccessExclusive`, `SentIntact`, `OwnedDescStable`, `XmitReturns` |
| `rx_fifo` | `MCXpnetRx` | 50 000 | `RefinesFifo`, `FilledIsServed`, `StoppedIsRestarted` |
| `rx_faults` | `MCXpnetRx` | 629 000 | `InOrder`, `RestartOnlyAtEnd`, `RxInv`, `GivenBackRead` |
| `trap_table` | `MCXpTrap` | 756 000 | `TableOwnsConfigs`, `DispatchJustified` |
| `trap_stale_rc` | `MCXpTrap` | – | violation of `UnregisteredToCb` |
| `intf_rx` | `MCXpIntf` | 26 900 | `ActiveIsLinked`, `OnlyLinkedGetIt`, `LinkedIsServed` |
| `ndo_xmit` | `MCXpNdo` | 4 200 | `OneHeader` |
| `nl_requests` | `MCXpNetlink` | 343 000 | `HandledInOrder`, `NoneLeftOut`, `Serialised`, `RequestReturns` |
| `pci_life` | `MCXpPci` | 82 000 | `UsersSafe`, `ReleasesHeld`, `AllReleased`, `Released`, `NothingOutlives`, `RemoveLeavesNothing`, `EverythingReturns` |
| `dma_mem` | `MCXpDmaMem` | 229 000 | `ListConsistent`, `MapsOwnArea`, `CleanupGivesBack` |
| `irq` | `MCXpIrq` | 621 000 | `BlocksExact`, `StatusKept`, `SourceServed`, `QueueServed` |
| `reg_access` | `MCXpRegAccess` | 127 000 | `Atomic`, `AccessReturns` |

`TypeOK` of a module is no part of these runs; it holds on the same instances and
is proved for `XpnetRx`, `XpnetTx` and `XpTrap`.

### What they show, and with which bounds

**`tx`.**  Two senders and a register user on a ring of three descriptors, three
calls, frames of 0 to 3 segments, two polls before giving up.  This gives every
relation the code distinguishes: empty frame, one segment, first and last
different, exactly as many segments as are free (2), too many.  Three calls let a
call follow one that gave up, which followed one that succeeded.  Two properties
are restricted to `~gaveUp`: when a completion loop has given up, the ring is
rewound under a running engine, and what is said of whole frames and of register
exclusion no longer holds of the code (section 6).  Skb ownership, the counters
and the stability of what was published hold after timeouts and errors too.  The
first descriptor's buffer is never overwritten while the engine owns it, which
covers all frames of one segment (up to 4 kB, every frame of an ordinary MTU);
the buffers of further segments are safe only until a completion loop gives up.
A call returns even if the engine is dead.

**`rx_fifo`.**  Two queues of three descriptors, no engine faults, allocation
failures at any time.  The rings with the work item implement `RxFifo` with a
capacity of one packet more than descriptors: the packet being handed over
counts.  Sequence numbers are modulo `NumDesc + 2`, enough to tell apart all
packets in flight.  Two queues are needed for starvation: the engine may refill
the first one for ever, and the bound on iterations per queue is what saves the
second.

**`rx_faults`.**  One queue of four descriptors, DMA errors and rejected packets.
One queue is enough for properties that speak of one ring at a time; the theorems
lift the bound.  `InOrder` and `RestartOnlyAtEnd` are stated while the chain is
open: an error on the last descriptor closes it (section 6).
`GivenBackRead` holds even then: a descriptor whose packet was accepted goes back to
the engine only after exactly that packet was copied out of it.

**`trap_table`.**  Two trap ids, two reason codes, one reason code per trap, three
addresses.  Three addresses are one more than the table holds, so a freed one can
be reused while the receive path still has the pointer.  Two ids and codes let a
lookup be overtaken by a change of the other entry.

**`intf_rx`.**  Three devices, numbers at both ends of the three ranges and outside
them, packets of ports with and without a device.  Three devices allow two on one
number and a third on the router interface.

**`ndo_xmit`.**  Two devices, one header, skbs with and without room.  `OneHeader`
holds for a reason worth knowing: the header is pushed on the kernel's skb, which
would get a second one when sent again, but the queue that was stopped is never
woken, so it is not sent again (`ndo_retry`).

**`nl_requests`.**  Requests of none to three messages from two namespaces, of three
types with different sizes (12, 24 and 5 bytes with the type word) and of an unknown
type.  After the second message `payload_len` is wrong, since the offset from the
start of the request is subtracted each time, and it wraps; all the same the k-th
message handled is the k-th of the request, and none is left out before one of
unknown type.  The latter holds for up to four messages of any types; of five, one
may be left out.  `MaxHandled` bounds what a loop handles past the end of its request
(four messages, one more than a request has), and a loop that has reached it stays
there, which is why the run does not check for deadlock.  `payload_len`
wraps at 65536 (`Width`) instead of 2^32; what is subtracted before the bound is a
few hundred, so that it reaches zero, or wraps, after the same messages.  That a request is answered (`RequestReturns`) is said of requests of one
message; an empty one or one of several may read on past its end (section 6).

**`pci_life`.**  One device, one calling thread besides the removal, at most two
users of the device at a time (`MaxUsers`: every pair of an open file, a DMA memory
file, a client module, two handlers, their work and a reader of the register
file), any step of module init and of the net device mode failing, and of the
probe those whose failure leaves nothing behind that is used again (`priv`, `dma`,
`msi`, `regproc`).  User space and the wire are quiet while a call is in progress (no
netlink request, no packet, no reader: `Quiet`), user space opens the file after the
probe, and the driver is not unbound from a device in use.  Under these
assumptions everything is released once and in time and every call returns;
without each of them something fails (section 6).  `Quiet` is needed for the trap table
(`TableOutlivesUsers`), for the readers of a queue's file (`ReaderHasPriv`) and for the
progress of a call that waits for requests; what holds without it (`Released`, and
`UsersProtected`: transmission, the work item with its rings, the structure behind a
proc file) is checked by `life_busy` and proved (section 4).

**`irq`.**  Both handlers, on one processor or on two.  The high event has bits 76 and
78, two blocks that begin in the middle of a word and must not be seen in the block
before them, which lies across two words (bits 60 to 75); the low event, bit 64, is
the only one of that block and lies in its second word, so a handler that looks at
the first word alone reports nothing.  Sources 72 and 73 are the last RX queue and the
first TX queue, in one word of the source register; source 3 lies below the first
queue, and the handler must pass over it (`NoSource`) without losing the queues.  One
status bit per queue and one work item waiting (`MaxWork`) suffice: the properties
speak of one queue and one item at a time, and a handler may start only when the
worker has caught up, which is how the model stays finite.  With two processors four
events from outside (`MaxRounds`) are enough for both handlers to find something and
for another event to come while they run.  What is said of a queue's source bit and
of the set of blocks reported holds on two processors; what an item says, and that
no event is lost and every queue is served, on one (section 6).

**`reg_access`.**  A thread of each kind, two calls at a time (`MaxActive`), requests
of one, two, four and eight bytes that overlap, of an invalid size, an unknown
direction or command, and past the end of the configuration space; chunks of four
bytes, so that eight bytes are two chunks, and as many chunk indices as these need.
The device changes a byte that no narrow write has in its register.  `Atomic`
says that the calls implement `RegSpace`, with a write taking effect at the
release of the lock and a read with its last element.

**`dma_mem`.**  One caller, three areas of one or two pages, four allocations
between cleanups, `kmalloc` and `copy_to_user` failing.  The code takes no lock, so
an allocation is three steps (`dma_alloc_coherent`, the `kmalloc` with the entry in
the list, the copy), a release or cleanup a walk that frees and unlinks one area at a
time, and an mmap a lookup and a mapping; with two callers they interleave and every
property fails (section 6).  `MapsOwnArea` is stated while user space was told of
every listed area, which a failed copy ends, and `CleanupGivesBack` leaves out the
areas whose list entry could not be allocated.

### Fairness

* `XpnetTx`: code that runs makes progress (weak fairness of a call's steps and
  of a register access); the kernel's queued spinlocks serve waiters in order of
  arrival, hence strong fairness of taking the lock.  Nothing of the engine or
  the callers.
* `XpnetRx`: init runs to its end and the work queue keeps running the work item,
  which requeues itself.  Memory is available again some time: a copy that is
  possible again and again on a queue happens.  Nothing of the engine.
* `XpNetlink`: a running request makes progress and the mutex, which queues its
  waiters, is granted in the end.
* `XpNdo`: the kernel sends what it may send and the ring accepts again and
  again.  `BusyIsRetried` fails even so.
* `XpNetdevLife`, `XpPci`: running threads, the work item, netlink requests,
  handlers, their work and readers make progress.  Nothing of insmod, rmmod, the
  PCI core and user space.
* `XpIrq`: an interrupt that is asked for is delivered, handlers and the worker
  run, and a handler that tries again and again gets memory some time.
* `XpRegAccess`: as `XpnetTx`.

## 4. Proofs

`tlapm <module>.tla` checks them: `XpPciProof` (3389 obligations), `XpnetRxProof`
(1615), `XpIrqProof` (1521), `XpnetTxProof` (1490), `XpIntfProof` (1050),
`XpTrapProof` (643), `XpDmaMemProof` (629), `XpNdoProof` (248).  The inductive
invariants are defined in the component's module, after its properties, or in the
proof module (`CopiedAtTail`, `HandlerInv`), and were checked by TLC on the instances
of section 3 (`LifeInv` and `UserInv` on those of `life_quiet` and `life_busy`)
before they were proved.

**`XpnetTxProof`**, for any number of descriptors (at least two), senders and
register users, any behaviour of the engine, from the assumptions that the actors
are distinct and that "no skb" is not an skb:

* `Invariance`: `TxInv`, inductive, in five parts.  `LockInv`: an actor inside the
  critical section is the holder of `tx_dma_read_lock`, so at most one is.
  `SkbInv`: a call owns its skb until it has freed it.  `RingInv`: a frame is
  written into a ring that is rewound, and `xpnet_tx_complete` goes through
  exactly its descriptors.  `FrameInv`: the frame fits the ring, what has been
  copied and written so far is its data, and the engine owns no descriptor still
  to be written.  `EngineInv`: as long as no completion loop gave up (`gaveUp`),
  the engine owns only descriptors of the frame in work and works only while
  `xpnet_tx_complete` waits for it.  None of the properties is inductive: that
  there is room for a frame (`NoCorruption`) rests on the ring being rewound by
  the previous call, whichever way that ended; that a frame is whole under the
  engine on the order in which `__xpnet_skb_stat_enqueue` writes, marks and hands
  over descriptors.
* `TypeCorrect`, `CorruptionFree`, `AlwaysRewound`, `FrameIsWhole`,
  `EverySkbAccounted`, `SentAsPublished`, `RegAccessAlone`: consequences of `TxInv`.
* `OwnedStable`: the action property `OwnedDescStable`.

**`XpnetRxProof`**, for any number of queues and descriptors and any set of engine
faults, from the assumptions `NumQueues >= 1`, `NumDesc >= 1`,
`SeqMod > NumDesc + 1`, `Faults` a subset of the two named ones:

* `TypeCorrect`: indices and variables stay in range.
* `Invariance`: `RxInv` is an invariant.  It is inductive.  Delivery order alone
  is not: that the packet at `tail` is the next one depends on all packets
  between `tail` and the engine being consecutive, that on the engine being ahead
  of the driver within the chain, and that on its being restarted only when it
  has reached the end.  For an open chain a queue is in one of three conditions:
  *flowing* (consecutive packets from `tail` to the engine's position, all other
  descriptors the engine's), *at the end* (between the last packet's recycling
  and the rewriting of the descriptor pointer: the engine stopped, the whole ring
  its own) or *stalled* (a rejected packet's descriptor was handed back behind the
  engine; nothing is delivered any more).  One lemma per action or group of
  actions (`InvReset`, `InvCopy`, `InvRecycle`, `InvSetCdp`, `InvEnable`,
  `InvDeliver`, `InvStart`, `InvEngine`, `InvIdleSteps`); `Untouched` disposes of
  the queues a step does not concern.
* `DeliveredInOrder` and `RestartedOnlyAtEnd`: consequences of `RxInv`.
* `NothingUnreadGivenBack`: the action property `GivenBackRead`, from the invariant
  `CopiedAtTail`: between the copy and the return of the descriptor the packet at
  `tail` stays the one that was copied, whatever the engine does.  It needs no open
  chain.
* `RefinesTheFifo`, for `Faults = {}`: the receive path implements `RxFifo`.  Beside
  `RxInv` it needs `FaultFree`: no chain is ever closed and no queue stalls.  What
  a channel holds (`Pending`) is the packet in the hands of the work item, if its
  descriptor was given back already, and then the packets between `tail` and the
  engine (`Between`).  `FillPuts`: the engine appends a packet.  `DeliverGets`:
  `xp_rx_skb_process` takes the first.  `RecycleStutters`: giving a descriptor back
  and advancing `tail`, over the end of the ring too, moves the first packet from
  the ring to the work item and leaves the channel as it is.  `OtherStepsStutter`:
  so does everything else, the rewriting of the descriptor pointer included, since
  the ring is empty then.  With faults the refinement does not hold: a rejected
  packet is lost on purpose.
* `EngineIsNeverBlocked`, for `Faults = {}`: `EngineNeverBlocked`.

**`XpTrapProof`**, for any sets of trap ids, reason codes, sockets and addresses:

* `TypeCorrect`.
* `ConfigsOwned`: the entries in memory are exactly those in the table, each at
  one trap id.  Inductive together with the types.
* `PacketsGoWhereToldTo` (`DispatchJustified`), under the hypothesis `OneToOne`: every
  trap id is used with one reason code and no two with the same (user space numbers
  them so; `trap_stale_rc` shows what the table of reason codes does otherwise).  The
  invariant `DispatchInv` relates the reason code table to the entries (`MapInv`) and
  the packet in flight to the entries that existed at some moment since it arrived
  (`PacketInv`).

**`XpIntfProof`**, for any devices and interface numbers, from the order of the
three ranges of numbers and from port numbers lying below the LAG range and bridge
domains below the router interfaces:

* `TableIsExact`: from `ChainInv`, with lemmas about what `hash_add` and `hash_del`
  do to a chain without duplicates.
* `NobodyElseGetsIt` and `PacketIsServed`: from `LookupInv`, which says for each
  label of `xp_rx_skb_netdev_process` what the lookups so far have found for
  devices whose link has not changed.  One lemma (`HandlerKeeps`) disposes of all
  netlink handlers: they take the devices they relink out of `steady`.

**`XpNdoProof`**, for any devices and headers: `ExactlyOneHeader` and `CopyIsFreed`
from `HeaderInv`.  A refused skb keeps the header pushed on it; that none is ever
pushed on it again follows from its device being up with a stopped queue, which
only `xp_ndo_open`, of a device that is down, starts again.  (`CopyFreed` concerns a
single call and is no part of a run.)

**`XpIntfProof`** on `XpNetlink`, for any namespaces, requests of any number of messages
(none included) and any width of `payload_len` above 1000:

* `RequestsAreSerialised`: `MutexInv`, a request is processed exactly by the holder of
  `xp_netlink_mutex`.
* `MessagesInOrder`: `HandledInOrder`, from `OrderInv`: the offset is where the next
  message starts, although the length is not what remains.  Nothing is proved about
  where the loop ends: for an empty request and for several messages it reads on past
  the last one (`nl_several`).

**`XpDmaMemProof`**, for any areas and sizes and whichever allocation or copy fails,
under the hypothesis `OneCaller`: one thread uses `/dev/xpdmamem`.  Nothing in the
driver ensures it, and without it each of the four is false (`dma_limits`).

* `ListStaysConsistent`, `NothingIsFreedTwice`, `MapsTheOwnArea`, `CleanupGivesAllBack`,
  from `DmaInv`: the list and the allocated areas agree except for the entry that a
  walk has freed and is about to unlink (`CallerInv` says what a call knows at each of
  its steps), no entry has an offset above `mem_index`, offsets that user space holds
  are distinct, and what is allocated is listed, lost by a failed `kmalloc` or about to
  be listed (`AllListed`).  The offset clauses keep `mem_index` ahead of every entry
  when allocations fail half-way.

**`XpPciProof`** on `XpNetdevLife`, for any threads, structure addresses and failing
steps, under the hypotheses `Bindable` and `[]OneCall`: the client socket can be bound
or user space is quiet during calls, and calls do not overlap.  Requests, packets and
readers may come at any time.  Nothing in the driver ensures that calls do not
overlap; `life_limits` shows what happens without it, and what a request does that
comes before the binding fails.

* `Invariance`: `LifeInv` says through `Holds` exactly what is held at every label
  of init, of its error path and of deinit; `UserInv` that a netlink request runs only
  while the socket exists (`RequestInv`), and that users are still during a call where
  `Quiet` says so (`QuietInv`).
* `EverythingReleased` (`Released`) and `UsersAreSafe` (`UsersProtected`):
  consequences.  What the code does not protect is no part of `UsersProtected`: the
  trap table, freed before the work item is cancelled and read by requests, and the
  rings behind a queue's file (section 6).

**`XpPciProof`** on `XpPci`, for any threads, numbers of users and sets of failing
steps (the tables of steps are constants of the module):

* `RemovalIsComplete`, without any hypothesis: `RemoveLeavesNothing`.  `HeldAtMost`
  bounds what the device holds by what the probe has taken so far, or the removal
  has left to give back.
* `OnlyHeldIsReleased`: `ReleasesHeld`, from `HeldAtLeast`, the bound from below.
  Hypothesis: `create_workqueue`, the request of the second interrupt and
  `device_create` succeed.  Each of the three is needed: the code goes on without
  the first two and the removal frees them all the same; after the third the
  probe undoes everything and reports success (`pci_limits`).
* `UsersFindTheDevice`: `UsersSafe`, from `CallInv` (who is in a call, and for
  whom), `HandlerInv` (handlers, work and readers) and the two bounds.  Hypotheses:
  the device is one `xp_pci_probe` recognises, no step that can end the probe after
  the interrupts were requested fails, and user space uses neither a device that is
  being probed nor one that is being removed (`Env = {}`).  What happens without
  them is in section 6 (`unbind_used`, `plug_late`, `CNX88061_B0`); a probe that fails
  late frees the structure under a handler.
* `ModuleGivesAllBack` (`AllReleased`) and `ModeIsSafeInTheDriver` (`Released` and
  `UsersProtected`): the composition.  `ModeInv` relates the device to the mode, and
  `OneCallAtATime` derives `OneCall`, the hypothesis of the theorems on
  `XpNetdevLife`, from the weaker `OneCaller` of user threads: the removal never
  overlaps with them because the files are closed and the client module is gone.
  Hypotheses: `Bindable`, `Env = {}` and `[]OneCaller`.

**`XpIrqProof`**, for any events and sources, every mode of the tables, and one
processor or two:

* `HandlerInvariance`: `HandlerInv`, what a handler has read, passed and posted at each
  label, and what the two share: on one processor never both are under way, on two
  (`RaceInv`) the static of a function is a handler's own unless `raced`.
* `BlocksReported`: `BlocksExact`.  `BlockBits` and `TablesAgree` show that
  `xp_block_number_get`, cut out of one or two words by shifts and masks, is non-empty
  exactly if a bit of the block is set.  The set of blocks is exact on two processors
  too, since it follows from local variables; what an item tells, on one.
* `OthersStayPending`: `SourceServed`.  On two processors the theorem says that an
  item was posted before a source bit is cleared, and not which (`ServedInParallel` is
  false); on one, that the item names the queue.
* `EventsAreKept`: `StatusKept`, stated for one processor.

**Only model-checked.**  Liveness under fairness (`XmitReturns`, `FilledIsServed`,
`StoppedIsRestarted`, `QueueServed`, `AccessReturns`, `RequestReturns`,
`EverythingReturns`) is outside the prover's reach.  That `XpRegAccess` implements
`RegSpace` is checked on the instance of `reg_access` only: it holds for the sizes,
addresses and device registers named there and fails beside them (`reg_limits`),
so that a theorem would need as many hypotheses as the instance has constants.

## 5. Not modelled

* *`xp_ndo_set_mac`* and the debug flag: plain stores that nothing else reads.
* *Several PCI devices*: the globals of `xp_netdev_intf.c` are shared by all of
  them; `XpNetdevLife` and `XpPci` have one.
* *The ioctls of 32-bit processes* (`*_compat_ioctl`): the same calls after a
  conversion of pointers.
* *Output*: the text of the proc files and of the log.
* *The C library headers under `include/`, SerDes and SAI packages*: declarations
  and binary data.
* Unchecked results the code goes on with (`skb_copy_expand`, the TX buffer
  allocation, the ring setups): no behaviour of the program follows them.
* Damage to a linked list by two unlocked writers in `XpDmaMem`.

## 6. Where the code differs from what it says

One is a run of the project: `trap_stale_rc` (a trap id that is registered again with
another reason code leaves the `rc_map` entry of the first pointing at it, so packets
with the first reason code, which no trap has any more, follow the new entry).  The following are kept as configurations to run by hand; each ends with
a counterexample, and says which assumption of a passing run is needed.  A `_limits`
configuration serves several rows: put the property, and the constants the row
names, in place of its own.

| cfg, module | property | code | what happens |
|---|---|---|---|
| `tx_limits`, `MCXpnetTx` | `OwnedIntact` | `xp_netdev_core.c:1044` | segments are copied before any descriptor but the first is checked; after a timeout the data of one the engine owns is replaced |
| `tx_limits`, `MCXpnetTx` | `RegAccessAlwaysExclusive` | `xp_netdev_core.c:1156` | after a timeout the lock is released while DMA goes on |
| `tx_limits`, `MCXpnetTx` | `BytesExact` | `xp_netdev_core.c:1065` | the length is read from the freed skb |
| `rx_reset_chain`, `MCXpnetRx` | `ResetKeepsChain` | `xp_netdev_core.c:330` | resetting the last descriptor links it to the first |
| `rx_stall`, `MCXpnetRx` | `FilledIsServed` | `xp_netdev_core.c:769` | after a rejected packet the driver waits at a descriptor the engine has passed |
| `trap_count`, `MCXpTrap` | `CountsOwnPackets` | `xp_netdev_intf.c:1118` | a packet is counted in an entry that was freed and reused |
| `nl_several`, `MCXpNetlink` | `HandledExactly` | `xp_netdev_intf.c:737` | the header is counted as payload: of an empty request the loop handles a message that is not there (after several messages it goes on too, since the accumulated offset is subtracted each time, line 824) |
| `life_limits`, `MCXpNetdevLife` | `FlushedBeforeFree` | `xp_netdev_core.c:1292` | the trap table is freed before the work item is cancelled |
| `life_limits`, `MCXpNetdevLife`, with `MayFail = {"client"}` | `Released`, `PrivOutlivesUsers` | `xp_netdev_intf.c:1150` | a request handled before the client socket fails to bind: its net devices stay |
| `life_limits`, `MCXpNetdevLife`, with `Threads = {t1, t2}`, `Quiet = TRUE` | `OneInstance` | `xp_netdev_core.c:1207` | two threads initialise the mode |
| `dma_limits`, `MCXpDmaMem` | `FreedOnce` | `xp_pcie_slave.c:974` | two callers free the same area |
| `dma_limits`, `MCXpDmaMem` | `MapsAllocated` | `xp_pcie_slave.c:1071` | an area is mapped that was freed since it was looked up |
| `dma_limits`, `MCXpDmaMem` | `CleanupGivesBack` | `xp_pcie_slave.c:934` | an area that is about to be listed survives another caller's cleanup |
| `dma_limits`, `MCXpDmaMem` | `AlwaysMapsOwnArea` | `xp_pcie_slave.c:947` | two callers are told the same offset |
| `dma_limits`, `MCXpDmaMem`, with `Callers = {c1}`, `Faults = {"copy"}` | `AlwaysMapsOwnArea` | `xp_pcie_slave.c:943` | a failed copy leaves an entry whose offset is given out again |
| `dma_limits`, `MCXpDmaMem`, with `Callers = {c1}`, `Faults = {"kmalloc"}` | `CleanupGivesAll` | `xp_pcie_slave.c:907` | an area whose list entry could not be allocated is lost |
| `ndo_retry`, `MCXpNdo` | `BusyIsRetried` | `xp_netdev_intf.c:378` | a stopped queue is never woken, although a comment says the packet is retried |
| `sock_leak`, `MCXpNdo` | `SocketSkbFreed` | `xp_netdev_intf.c:416` | a datagram the ring refuses is neither freed nor sent |
| `life_limits`, `MCXpNetdevLife` | `ReaderHasPriv` | `xp_netdev_core.c:1299` | a queue's file is read after its rings are gone |
| `pci_limits`, `MCXpPci` | `WindowMapped` | `xp_pcie_slave.c:1762` | the window is unmapped before handlers and the register file are removed |
| `pci_limits`, `MCXpPci`, with `PMayFail = {"dma"}` | `FailedProbeLeavesNothing` | `xp_pcie_slave.c:1738` | before there is a work queue a failed probe does not free the structure |
| `pci_limits`, `MCXpPci`, with `DevId = "CNX88061_B0"` | `UsersSafe` | `xp_pcie_slave.c:1669` | a device listed in `xp_pci_ids` but not recognised: its handlers stay, its structure is freed |
| `pci_limits`, `MCXpPci`, with `PMayFail = {"low"}` | `ReleasesHeld` | `xp_pcie_slave.c:1765` | the second interrupt was refused, the removal frees it |
| `pci_limits`, `MCXpPci`, with `PMayFail = {"node"}` | `ReleasesHeld` | `xp_pcie_slave.c:1683` | `device_create` fails, the probe undoes everything and returns 0; the removal does it again |
| `pci_limits`, `MCXpPci`, with `Env = {"unbind_used"}` | `UsersSafe` | `xp_pcie_slave.c:1789` | the structure is freed under an open file |
| `pci_limits`, `MCXpPci`, with `Env = {"plug_late"}` | `UsersSafe` | `xp_pcie_slave.c:1951` | a device probed during rmmod writes its mask to freed memory |
| `pci_limits`, `MCXpPci`, with `Env = {"early_open"}` | `LockReady` | `xp_pcie_slave.c:1700` | the file is opened before the lock is initialised |
| `pci_limits`, `MCXpPci`, with `Env = {"early_open"}` | `Released` | `xp_pcie_slave.c:1698` | the net device mode, started before the probe is over, is forgotten |
| `pci_limits`, `MCXpPci`, with `PMayFail = {"dma_parms"}` | `LoadedIsRegistered` | `xp_pcie_slave.c:1849` | module init fails with rc = 0: the module is loaded and does nothing |
| `pci_limits`, `MCXpPci`, with `MsiApi = "range"` | `BothServed` | `xp_pcie_slave.c:1609` | with `pci_enable_msi_range`, whose success is a positive number, the second interrupt is never requested |
| `irq_limits`, `MCXpIrq` | `ServedInParallel` | `xp_pcie_slave.c:673` | handlers on two processors share `intr_info`: one clears the source of a queue the item of which names another |
| `irq_limits`, `MCXpIrq` | `NoEventLost` | `xp_pcie_slave.c:756` | an event between the reading and the clearing of the status |
| `irq_limits`, `MCXpIrq` | `NoStarvation` | `xp_pcie_slave.c:763` | a busy queue with a lower bit keeps the others waiting |
| `irq_limits`, `MCXpIrq` | `BlockServed` | `xp_pcie_slave.c:793` | while a queue is pending no block is posted |
| `irq_limits`, `MCXpIrq` | `NoLeak` | `xp_pcie_slave.c:585` | without a pid the work item is not freed |
| `irq_limits`, `MCXpIrq` | `OnlyToRegistered` | `xp_pcie_slave.c:1691` | the pid may belong to insmod, or to another process by now |
| `reg_limits`, `MCXpRegAccess` | `Atomic` | `xp_pcie_slave.c:1194` | a block of bytes: values are copied as bytes and read as 32-bit slots |
| `reg_limits`, `MCXpRegAccess`, with `Requests <- LongRequests` | `Atomic` | `xp_pcie_slave.c:1178` | more chunks than the index has values: the first are overwritten |
| `reg_limits`, `MCXpRegAccess`, with `Requests <- NeighbourRequests`, `HwBytes = {9}` | `Atomic` | `xp_pcie_slave.c:382` | a byte write stores a neighbouring byte back that the device has changed |
| `reg_limits`, `MCXpRegAccess`, with `Requests <- NoRequests`, `Procs = {p, q}`, `PRequests <- ProcRequests` | `Atomic` | `xp_pcie_slave.c:494` | two users of the proc file read each other's answer |

`life_quiet` and `life_busy` pass: `XpNetdevLife` alone, with two structure addresses
and failures of the proc files too, without and with requests, packets and readers
during calls.

## 7. Plan

Done, in this order: receive path with its abstract specification and proofs,
transmit path, trap table with proofs, net devices, net device operations,
netlink, net device mode, DMA memory; then register access with its abstract
specification, interrupts, probe, removal and the module composed with the net
device mode, the client socket and the proc files.

Proved since: the safety properties of the transmit path, of the dispatch by the
trap table, of the net devices, of their transmission, of the net device mode, of
the interrupts, of probe, removal and the module composed with the net device
mode, of the DMA memory and of the netlink requests, and that the receive path
implements `RxFifo` (section 4).

Next, in order of importance:

1. An invariant of `XpRegAccess` towards `RegSpace`: the holder of the lock, what its
   buffer holds after `i` elements, and what `Visible` hides.
2. `TxService`, an abstract specification of `xpnet_start_xmit` (OK and the skb is
   gone, or BUSY and the caller keeps it), refined by `XpnetTx` and used by
   `XpNdo` and the client socket.
3. Composition of `XpTrap` and `XpIntf`: a packet dispatched to the channel
   `netdev` while both tables change.
