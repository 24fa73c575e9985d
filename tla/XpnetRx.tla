------------------------------ MODULE XpnetRx ------------------------------
(***************************************************************************)
(* The receive side of the xpnet driver (xpnet/src/xp_netdev_core.c): the  *)
(* RX descriptor rings the DMA engine fills and the work item              *)
(* xpnet_rxtx_handler that empties them, queue after queue.                *)
(*                                                                         *)
(* A ring is a chain of descriptors, 0 -> 1 -> ... -> NumDesc - 1, whose   *)
(* last one has a null next pointer (End): the engine fills the            *)
(* descriptors it owns along the chain and stops at its end; when the      *)
(* driver's tail comes back to 0 it points the engine at descriptor 0 and  *)
(* enables it again.                                                       *)
(*                                                                         *)
(* The DMA engine is external.  What it may do wrong is a parameter: it    *)
(* may report an error on a descriptor ("error", qword[0] = 1, waiting at  *)
(* that descriptor for the driver), or deliver a packet whose length field *)
(* the driver rejects ("oversize": longer than XPNET_MAX_PACKET_SIZE, or   *)
(* shorter than the 16 bytes subtracted from it in mode A0, where the      *)
(* 16-bit length wraps around).                                            *)
(***************************************************************************)
EXTENDS Integers, Sequences

CONSTANTS NumQueues,   \* XPNET_RX_NUM_QUEUES
          NumDesc,     \* q->xpq_num_desc (XPNET_RX_NUM_DESCS)
          SeqMod,      \* packets of a queue are numbered modulo SeqMod
          Faults       \* subset of {"error", "oversize"}

ASSUME NumQueuesAssumption == NumQueues \in Nat /\ NumQueues >= 1
ASSUME NumDescAssumption == NumDesc \in Nat /\ NumDesc >= 1
ASSUME SeqModAssumption == SeqMod \in Nat /\ SeqMod > NumDesc + 1
ASSUME FaultsAssumption == Faults \subseteq {"error", "oversize"}

VARIABLES
  started,  \* how many queues xpnet_rx_all_queues_start has enabled
  trigger,  \* net_priv->dma_trigger
  own,      \* per queue and descriptor: ownership bit, TRUE for the engine
  err,      \* per queue and descriptor: qword[0] is the error indication
  link,     \* per queue and descriptor: qword[3], index of the next or End
  pkt,      \* per queue and descriptor: the packet in the DMA buffer
  tail,     \* q->tail
  cdp,      \* current descriptor pointer register of the queue, End at end
  en,       \* enable bit of the queue's command register
  seq,      \* number of the next packet the engine receives for the queue
  expect,   \* history: number of the packet the stack gets next if in order
  pc,       \* where the work item is
  cur,      \* queue it is processing
  iter,     \* iterations made on this queue
  skb       \* number of the packet copied to an skb

ring == <<own, err, link, pkt, tail>>
hw   == <<cdp, en, seq>>
vars == <<started, trigger, ring, hw, expect, pc, cur, iter, skb>>

Queues == 0 .. NumQueues - 1
Idx == 0 .. NumDesc - 1
End == NumDesc
Seq0 == 0 .. SeqMod - 1
NextSeq(n) == (n + 1) % SeqMod

xpnet_add_and_wrap(i, incr, limit) == ((i + limit) + incr) % limit

----------------------------------------------------------------------------
(* xpnet_rx_queue_init for every queue, xpnet_rx_queue_link_and_enable     *)
(* included: all descriptors chained and handed to the engine, cdp at 0.   *)

Init ==
  /\ started = 0
  /\ trigger = FALSE
  /\ own = [q \in Queues |-> [i \in Idx |-> TRUE]]
  /\ err = [q \in Queues |-> [i \in Idx |-> FALSE]]
  /\ link = [q \in Queues |-> [i \in Idx |-> i + 1]]
  /\ pkt = [q \in Queues |-> [i \in Idx |-> [num |-> 0, fits |-> TRUE]]]
  /\ tail = [q \in Queues |-> 0]
  /\ cdp = [q \in Queues |-> 0]
  /\ en = [q \in Queues |-> FALSE]
  /\ seq = [q \in Queues |-> 0]
  /\ expect = [q \in Queues |-> 0]
  /\ pc = "idle"
  /\ cur = 0
  /\ iter = 0
  /\ skb = 0

\* xpnet_rx_all_queues_start: the queues are enabled one by one, while the
\* work item is already scheduled.
StartQueue ==
  /\ started < NumQueues
  /\ en' = [en EXCEPT ![started] = TRUE]
  /\ started' = started + 1
  /\ UNCHANGED <<trigger, ring, cdp, seq, expect, pc, cur, iter, skb>>

\* End of xp_netdev_init.
SetTrigger ==
  /\ started = NumQueues
  /\ ~trigger
  /\ trigger' = TRUE
  /\ UNCHANGED <<started, ring, hw, expect, pc, cur, iter, skb>>

----------------------------------------------------------------------------
(* The work item.  It reschedules itself for ever (jiffies_defer only      *)
(* changes the delay); before dma_trigger is set it does nothing.          *)

StartPass ==
  /\ pc = "idle"
  /\ trigger
  /\ pc' = "scan"
  /\ cur' = 0
  /\ iter' = 0
  /\ UNCHANGED <<started, trigger, ring, hw, expect, skb>>

\* xpnet_rx_queue_process returned: on to the next queue, or the pass ends.
NextQueue ==
  IF cur + 1 < NumQueues
  THEN cur' = cur + 1 /\ iter' = 0 /\ pc' = "scan"
  ELSE cur' = 0 /\ iter' = 0 /\ pc' = "idle"

d == tail[cur]

\* Faulty variant: the reset descriptor is moved past as if it were read.
Fault_ResetAdvances(q, i) ==
  /\ link' = [link EXCEPT ![q][i] = xpnet_add_and_wrap(i, 1, NumDesc)]
  /\ own' = [own EXCEPT ![q][i] = TRUE]
  /\ err' = [err EXCEPT ![q][i] = FALSE]
  /\ tail' = [tail EXCEPT ![q] = xpnet_add_and_wrap(i, 1, NumDesc)]
  /\ UNCHANGED pkt

\* __xpnet_rx_desc_reset and xpnet_rx_desc_enable: the descriptor goes back
\* to the engine, chained to its successor in the ring (0 after the last).
ResetDesc(q, i) ==
  /\ link' = [link EXCEPT ![q][i] = xpnet_add_and_wrap(i, 1, NumDesc)]
  /\ own' = [own EXCEPT ![q][i] = TRUE]
  /\ err' = [err EXCEPT ![q][i] = FALSE]
  /\ UNCHANGED <<pkt, tail>>

\* "Dma error. Resetting the descriptor."
DmaError ==
  /\ pc = "scan"
  /\ err[cur][d]
  /\ ResetDesc(cur, d)
  /\ NextQueue
  /\ UNCHANGED <<started, trigger, hw, expect, skb>>

StillOwned ==
  /\ pc = "scan"
  /\ ~err[cur][d]
  /\ own[cur][d]
  /\ NextQueue
  /\ UNCHANGED <<started, trigger, ring, hw, expect, skb>>

\* The descriptor at tail holds a packet.
Filled == pc = "scan" /\ ~err[cur][d] /\ ~own[cur][d]

\* "Pkt size error. Resetting the descriptor."
SizeError ==
  /\ Filled
  /\ ~pkt[cur][d].fits
  /\ ResetDesc(cur, d)
  /\ NextQueue
  /\ UNCHANGED <<started, trigger, hw, expect, skb>>

\* dev_alloc_skb failed: the packet stays where it is for the next pass.
NoSkb ==
  /\ Filled
  /\ pkt[cur][d].fits
  /\ NextQueue
  /\ UNCHANGED <<started, trigger, ring, hw, expect, skb>>

CopyPacket ==
  /\ Filled
  /\ pkt[cur][d].fits
  /\ skb' = pkt[cur][d].num
  /\ pc' = "recycle"
  /\ UNCHANGED <<started, trigger, ring, hw, expect, cur, iter>>

\* Faulty variant: the engine is restarted one descriptor before the end of
\* the chain.
Fault_RecycleEarlyWrap ==
  /\ pc = "recycle"
  /\ own' = [own EXCEPT ![cur][d] = TRUE]
  /\ tail' = [tail EXCEPT ![cur] = xpnet_add_and_wrap(d, 1, NumDesc)]
  /\ pc' = IF tail'[cur] = NumDesc - 1 THEN "setcdp" ELSE "deliver"
  /\ UNCHANGED <<started, trigger, err, link, pkt, hw, expect, cur, iter, skb>>

\* Faulty variant: the descriptor after the one copied is handed back.
Fault_RecycleNext ==
  /\ pc = "recycle"
  /\ own' = [own EXCEPT ![cur][xpnet_add_and_wrap(d, 1, NumDesc)] = TRUE]
  /\ tail' = [tail EXCEPT ![cur] = xpnet_add_and_wrap(d, 1, NumDesc)]
  /\ pc' = IF tail'[cur] = 0 THEN "setcdp" ELSE "deliver"
  /\ UNCHANGED <<started, trigger, err, link, pkt, hw, expect, cur, iter, skb>>

\* Faulty variant: tail is not advanced.
Fault_RecycleStays ==
  /\ pc = "recycle"
  /\ own' = [own EXCEPT ![cur][d] = TRUE]
  /\ pc' = "deliver"
  /\ UNCHANGED <<started, trigger, err, link, pkt, tail, hw, expect, cur,
                 iter, skb>>

\* The copied descriptor goes back to the engine and tail moves on; at the
\* end of the chain the engine has to be restarted.
Recycle ==
  /\ pc = "recycle"
  /\ own' = [own EXCEPT ![cur][d] = TRUE]
  /\ tail' = [tail EXCEPT ![cur] = xpnet_add_and_wrap(d, 1, NumDesc)]
  /\ pc' = IF tail'[cur] = 0 THEN "setcdp" ELSE "deliver"
  /\ UNCHANGED <<started, trigger, err, link, pkt, hw, expect, cur, iter, skb>>

\* Faulty variant: the engine is pointed at the second descriptor.
Fault_SetCdpNext ==
  /\ pc = "setcdp"
  /\ cdp' = [cdp EXCEPT ![cur] = 1]
  /\ pc' = "enable"
  /\ UNCHANGED <<started, trigger, ring, en, seq, expect, cur, iter, skb>>

\* xpnet_set_q_cdp(q, 0).
SetCdp ==
  /\ pc = "setcdp"
  /\ cdp' = [cdp EXCEPT ![cur] = 0]
  /\ pc' = "enable"
  /\ UNCHANGED <<started, trigger, ring, en, seq, expect, cur, iter, skb>>

\* Faulty variant: the queue is not enabled again.
Fault_NoEnable ==
  /\ pc = "enable"
  /\ pc' = "deliver"
  /\ UNCHANGED <<started, trigger, ring, hw, expect, cur, iter, skb>>

EnableQueue ==
  /\ pc = "enable"
  /\ en' = [en EXCEPT ![cur] = TRUE]
  /\ pc' = "deliver"
  /\ UNCHANGED <<started, trigger, ring, cdp, seq, expect, cur, iter, skb>>

\* Faulty variant: the iterations on one queue are not bounded.
Fault_DeliverUnbounded ==
  /\ pc = "deliver"
  /\ expect' = [expect EXCEPT ![cur] = NextSeq(skb)]
  /\ pc' = "scan"
  /\ UNCHANGED <<started, trigger, ring, hw, cur, iter, skb>>

\* xp_rx_skb_process, after which the queue is looked at again, NumDesc
\* times at most.
Deliver ==
  /\ pc = "deliver"
  /\ expect' = [expect EXCEPT ![cur] = NextSeq(skb)]
  /\ IF iter + 1 < NumDesc
     THEN iter' = iter + 1 /\ pc' = "scan" /\ UNCHANGED cur
     ELSE NextQueue
  /\ UNCHANGED <<started, trigger, ring, hw, skb>>

----------------------------------------------------------------------------
(* The DMA engine (external).                                              *)

CanFill(q) == en[q] /\ cdp[q] # End /\ own[q][cdp[q]]

HwFill(q) ==
  /\ CanFill(q)
  /\ \E fits \in {TRUE} \cup {f \in {FALSE} : "oversize" \in Faults} :
       pkt' = [pkt EXCEPT ![q][cdp[q]] = [num |-> seq[q], fits |-> fits]]
  /\ own' = [own EXCEPT ![q][cdp[q]] = FALSE]
  /\ seq' = [seq EXCEPT ![q] = NextSeq(@)]
  /\ cdp' = [cdp EXCEPT ![q] = link[q][@]]
  /\ en' = [en EXCEPT ![q] = link[q][cdp[q]] # End]
  /\ UNCHANGED <<started, trigger, err, link, tail, expect, pc, cur, iter, skb>>

HwError(q) ==
  /\ "error" \in Faults
  /\ CanFill(q)
  /\ own' = [own EXCEPT ![q][cdp[q]] = FALSE]
  /\ err' = [err EXCEPT ![q][cdp[q]] = TRUE]
  /\ UNCHANGED <<started, trigger, link, pkt, tail, hw, expect, pc, cur, iter,
                 skb>>

----------------------------------------------------------------------------

Work ==
  \/ StartPass \/ DmaError \/ StillOwned \/ SizeError \/ NoSkb
  \/ CopyPacket \/ Recycle \/ SetCdp \/ EnableQueue \/ Deliver

Next ==
  \/ StartQueue \/ SetTrigger
  \/ Work
  \/ \E q \in Queues : HwFill(q) \/ HwError(q)

Spec == Init /\ [][Next]_vars

(* xp_netdev_init runs to its end and the work queue keeps running the     *)
(* work item.  A failed allocation is retried in the next pass, and memory *)
(* is taken to be available again some time: a copy that is possible again *)
(* and again (on whichever queue) happens.  Nothing is assumed of the      *)
(* engine.                                                                 *)
Fairness ==
  /\ WF_vars(StartQueue) /\ WF_vars(SetTrigger) /\ WF_vars(Work)
  /\ \A q \in Queues : SF_vars(CopyPacket /\ cur = q)

FairSpec == Spec /\ Fairness

----------------------------------------------------------------------------
(* Properties.                                                             *)

Labels == {"idle", "scan", "recycle", "setcdp", "enable", "deliver"}

\* Every variable of the RX path stays in its range; indices stay in the ring.
TypeOK ==
  /\ started \in 0 .. NumQueues
  /\ trigger \in BOOLEAN
  /\ own \in [Queues -> [Idx -> BOOLEAN]]
  /\ err \in [Queues -> [Idx -> BOOLEAN]]
  /\ link \in [Queues -> [Idx -> 0 .. NumDesc]]
  /\ pkt \in [Queues -> [Idx -> [num : Seq0, fits : BOOLEAN]]]
  /\ tail \in [Queues -> Idx]
  /\ cdp \in [Queues -> 0 .. NumDesc]
  /\ en \in [Queues -> BOOLEAN]
  /\ seq \in [Queues -> Seq0]
  /\ expect \in [Queues -> Seq0]
  /\ pc \in Labels
  /\ cur \in Queues
  /\ iter \in Idx
  /\ skb \in Seq0

\* A packet has been copied out of the current queue and not yet delivered.
Holding == pc \in {"recycle", "setcdp", "enable", "deliver"}

\* The work item holds a packet of queue q.
Holds(q) == cur = q /\ Holding

\* The chain of queue q still ends at its last descriptor.  It does until the
\* last descriptor is reset (see ResetKeepsChain).
ChainOpen(q) == link[q][NumDesc - 1] = End

\* xpnet_rx_queue_process hands the packets of a queue over in the order in
\* which the engine received them, none lost, none twice, whatever errors
\* were met, as long as the chain is open.
InOrder == Holding /\ ChainOpen(cur) => skb = expect[cur]

\* q->tail == 0, "cdp resetting": the descriptor pointer is rewritten only
\* when the engine has reached the end of the chain and stopped, and every
\* descriptor is its own again.
RestartOnlyAtEnd ==
  pc = "setcdp" /\ ChainOpen(cur) => /\ cdp[cur] = End
                                     /\ ~en[cur]
                                     /\ \A i \in Idx : own[cur][i]

\* An enabled queue never meets a packet the driver has still to read: no
\* packet is refused by the engine before the end of the chain, except while
\* it waits for the driver to reset a descriptor it reported an error on.
EngineNeverBlocked ==
  \A q \in Queues : en[q] /\ ChainOpen(q) =>
                      cdp[q] # End /\ (own[q][cdp[q]] \/ err[q][cdp[q]])

GivenBackStep ==
  \A q \in Queues, i \in Idx :
    ~own[q][i] /\ ~err[q][i] /\ own'[q][i] =>
      \/ ~pkt[q][i].fits
      \/ Holds(q) /\ pc = "recycle" /\ skb = pkt[q][i].num

\* A descriptor with a packet is given back to the engine only when that packet
\* is in the skb which goes to xp_rx_skb_process, or was rejected; whatever the
\* engine fills and reports between the copy and this, and also when a reset has
\* closed the chain.
GivenBackRead == [][GivenBackStep]_vars

\* Every descriptor the engine fills goes back to the engine: the packets of
\* every queue are read although other queues are never empty.
FilledIsServed ==
  \A q \in Queues : \A i \in Idx : ~own[q][i] ~> own[q][i]

\* A queue that stopped at the end of its chain is enabled again.
StoppedIsRestarted == \A q \in Queues : ~en[q] ~> en[q]

\* __xpnet_rx_desc_reset: "Does not set qword[3] to next for chaining".
ResetKeepsChain == [][link' = link]_link

----------------------------------------------------------------------------
(* The inductive invariant behind InOrder and RestartOnlyAtEnd.            *)

\* Number of the first packet the ring of q should hold.
Base(q) == IF Holds(q) /\ pc # "recycle" THEN NextSeq(skb) ELSE expect[q]

\* The driver has rejected a packet and waits at a descriptor the engine has
\* already passed: nothing is delivered any more.
Stalled(q) ==
  /\ tail[q] < cdp[q]
  /\ own[q][tail[q]]
  /\ ~err[q][tail[q]]
  /\ ~Holds(q)

\* The engine is stopped at the end and the whole ring is its own.
AtEnd(q) ==
  /\ tail[q] = 0
  /\ cdp[q] = End
  /\ ~en[q]
  /\ \A i \in Idx : own[q][i] /\ ~err[q][i]
  /\ seq[q] = Base(q)

\* The ring holds consecutive packets from tail to the engine's position, and
\* all other descriptors are the engine's.
Flowing(q) ==
  /\ tail[q] <= cdp[q]
  /\ en[q] => cdp[q] # End
  /\ \A i \in Idx : /\ own[q][i] <=> ~(err[q][i] \/ (tail[q] <= i /\ i < cdp[q]))
                    /\ err[q][i] => i = cdp[q]
  /\ tail[q] = cdp[q] => seq[q] = Base(q)
  /\ tail[q] < cdp[q] => /\ pkt[q][tail[q]].num = Base(q)
                         /\ seq[q] = NextSeq(pkt[q][cdp[q] - 1].num)
  /\ \A i \in Idx : tail[q] <= i /\ i + 1 < cdp[q]
                      => pkt[q][i + 1].num = NextSeq(pkt[q][i].num)
  /\ Holds(q) /\ pc = "recycle" => tail[q] < cdp[q]
  /\ Holds(q) /\ pc = "enable" => cdp[q] = 0 /\ ~en[q]

QueueInv(q) ==
  /\ Holds(q) => skb = expect[q]
  /\ \/ Stalled(q)
     \/ Holds(q) /\ pc = "setcdp" /\ AtEnd(q)
     \/ ~(Holds(q) /\ pc = "setcdp") /\ Flowing(q)

\* Every descriptor is chained to the next, and what a queue that is not yet
\* started or not yet rechained looks like.
RxInv ==
  /\ TypeOK
  /\ trigger => started = NumQueues
  /\ pc # "idle" => trigger
  /\ \A q \in Queues :
       /\ q >= started => tail[q] = 0 /\ cdp[q] = 0 /\ ~en[q]
       /\ \A i \in Idx : i # NumDesc - 1 => link[q][i] = i + 1
       /\ ChainOpen(q) => QueueInv(q)

\* Without faults of the engine no chain is ever closed, no descriptor reset and
\* no queue stalled.
FaultFree ==
  \A q \in Queues :
    /\ ChainOpen(q)
    /\ ~Stalled(q)
    /\ \A i \in Idx : ~err[q][i] /\ pkt[q][i].fits

----------------------------------------------------------------------------
(* The abstract specification.                                             *)

\* What is in the channel of queue q: the packet being handed over, if it is
\* of this queue and its descriptor was given back, and then the packets in
\* the ring from tail to where the engine is.
Pending(q) ==
  LET top == IF cur = q /\ pc = "setcdp" THEN 0 ELSE cdp[q]
      inRing == [n \in 1 .. top - tail[q] |-> pkt[q][tail[q] + n - 1].num]
  IN IF cur = q /\ Holding /\ pc # "recycle" THEN <<skb>> \o inRing
                                              ELSE inRing

Fifo == INSTANCE RxFifo WITH
  FifoQueues <- Queues, Capacity <- NumDesc + 1, FifoMod <- SeqMod,
  chan <- [q \in Queues |-> Pending(q)], sent <- seq, got <- expect

\* Without faults of the engine each RX ring with the work item that empties
\* it is a bounded lossless FIFO of one packet more than it has descriptors.
RefinesFifo == Fifo!FifoSpec

=============================================================================
