------------------------------ MODULE XpnetTx ------------------------------
(***************************************************************************)
(* The transmit side of the xpnet driver (xpnet/src/xp_netdev_core.c): one *)
(* TX descriptor ring shared by the driver and the DMA engine, the calls   *)
(* of xpnet_start_xmit() that compete for it, and the register accesses    *)
(* that take the same lock, tx_dma_read_lock.                              *)
(*                                                                         *)
(* The ring is driven in A0 mode, the only one the driver sets (hw_flags = *)
(* XPNET_HWFLAG_A0): a frame is written from descriptor `tail` on, the DMA *)
(* engine is pointed at its first descriptor and enabled, and when         *)
(* xpnet_tx_complete() is done the ring is rewound whatever the engine did.*)
(*                                                                         *)
(* The DMA engine is external: it owns a descriptor from the moment the    *)
(* ownership bit is set until it clears it, works from the current         *)
(* descriptor pointer (cdp) to the descriptor marked EOP, and then stops.  *)
(* It may be slow, it may never answer, and it may report an error.        *)
(***************************************************************************)
EXTENDS Integers, FiniteSets

CONSTANTS NumDesc,      \* q->xpq_num_desc (XPNET_TX_NUM_DESCS)
          Senders,      \* contexts that call xpnet_start_xmit
          RegUsers,     \* contexts that read or write registers
          ShardCounts,  \* possible lengths of an skb, in 4 kB segments
          Payloads,     \* possible contents of an skb
          MaxAttempts,  \* XPNET_MAX_ATTEMPTS
          MaxCalls,     \* bound: how many calls are explored
          None          \* "no skb", "no lock holder", content of a fresh buffer

ASSUME NumDescAssumption == NumDesc \in Nat /\ NumDesc >= 2
ASSUME ShardAssumption == ShardCounts \subseteq Nat
ASSUME AttemptsAssumption == MaxAttempts \in Nat /\ MaxCalls \in Nat
ASSUME ActorAssumption == /\ Senders \cap RegUsers = {}
                          /\ None \notin Senders \cup RegUsers \cup Payloads

VARIABLES
  trigger,   \* net_priv->dma_trigger
  active,    \* q->status = XPNET_QUEUE_ACTIVE
  head,      \* q->head
  tail,      \* q->tail
  desc,      \* descriptors: ownership, error, SOP and EOP bits of qword[0]
  buf,       \* contents of the DMA buffer of each descriptor
  want,      \* history: what the driver published in each descriptor
  cdp,       \* current descriptor pointer register of the queue
  en,        \* enable bit of the queue's command register
  lock,      \* holder of tx_dma_read_lock, or None
  pc,        \* where each sender is
  skb,       \* the skb a sender's call owns, None when freed or not calling
  k,         \* lock holder's loop index over the shards
  chead,     \* xpnet_tx_complete: local head
  iter,      \* xpnet_tx_complete: iterations left
  attempt,   \* xpnet_tx_complete: polls of the current descriptor
  rc,        \* return value of xpnet_hard_start_xmit
  gaveUp,    \* history: a completion loop ended before the engine was done
  stats,     \* net_priv->stats
  exact,     \* net_priv->stats.tx_bytes is the sum of the lengths sent
  freed,     \* history: skbs freed by xpnet_hard_start_xmit
  calls      \* bound: calls made so far

ring == <<head, tail, desc, buf, want>>
dma  == <<cdp, en>>
loc  == <<k, chead, iter, attempt, rc>>
hist == <<gaveUp, stats, exact, freed>>
vars == <<trigger, active, ring, dma, lock, pc, skb, loc, hist, calls>>

Idx == 0 .. NumDesc - 1
Skb == [shards : ShardCounts, frag : BOOLEAN, data : Payloads]
Desc == [own : BOOLEAN, err : BOOLEAN, sop : BOOLEAN, eop : BOOLEAN]
Counters == [packets : Nat, errors : Nat, dropped : Nat, aborted : Nat]

ASSUME SkbAssumption == None \notin Skb

xpnet_add_and_wrap(i, incr, limit) == ((i + limit) + incr) % limit

xpnet_get_busy_desc == (NumDesc + tail - (head + 1)) % NumDesc

xpnet_get_free_desc == NumDesc - 1 - xpnet_get_busy_desc

\* The descriptor of the n-th shard of the frame that starts at tail.
Slot(n) == xpnet_add_and_wrap(tail, n, NumDesc)

----------------------------------------------------------------------------
(* xpnet_tx_queue_init: the ring is empty, nothing linked, cdp at 0.  When *)
(* the allocation failed (the result of xpnet_tx_queue_setup is ignored)   *)
(* the status was never set to active.                                     *)

Init ==
  /\ trigger = FALSE
  /\ active \in BOOLEAN
  /\ head = NumDesc - 1
  /\ tail = 0
  /\ desc = [i \in Idx |-> [own |-> FALSE, err |-> FALSE,
                            sop |-> FALSE, eop |-> FALSE]]
  /\ buf = [i \in Idx |-> None]
  /\ want = [i \in Idx |-> None]
  /\ cdp = 0
  /\ en = FALSE
  /\ lock = None
  /\ pc = [s \in Senders |-> "idle"]
  /\ skb = [s \in Senders |-> None]
  /\ k = 0 /\ chead = 0 /\ iter = 0 /\ attempt = 0 /\ rc = "OK"
  /\ gaveUp = FALSE
  /\ stats = [packets |-> 0, errors |-> 0, dropped |-> 0, aborted |-> 0]
  /\ exact = TRUE
  /\ freed = 0
  /\ calls = 0

\* End of xp_netdev_init: the DMA is declared usable.  Nothing clears it.
EnableDma ==
  /\ ~trigger
  /\ trigger' = TRUE
  /\ UNCHANGED <<active, ring, dma, lock, pc, skb, loc, hist, calls>>

Goto(s, l) == pc' = [pc EXCEPT ![s] = l]

\* Entry of xpnet_start_xmit.  Before the DMA is enabled the skb is freed at
\* once (and not counted) and the call is over.
StartXmit(s) ==
  /\ pc[s] = "idle"
  /\ calls < MaxCalls
  /\ calls' = calls + 1
  /\ \E b \in Skb : skb' = [skb EXCEPT ![s] = IF trigger THEN b ELSE None]
  /\ Goto(s, IF trigger THEN "lock" ELSE "idle")
  /\ UNCHANGED <<trigger, active, ring, dma, lock, loc, hist>>

AcquireTx(s) ==
  /\ pc[s] = "lock"
  /\ lock = None
  /\ lock' = s
  /\ Goto(s, "check")
  /\ UNCHANGED <<trigger, active, ring, dma, skb, loc, hist, calls>>

\* Faulty variant of the length test: off by one.
Fault_TooLong(b) == b.shards > xpnet_get_free_desc + 1

\* Why xpnet_hard_start_xmit drops a packet, and why it drops it with
\* tx_errors counted: the three tests made before the ring is touched.
TooLong(b) == b.shards > xpnet_get_free_desc
Rejected(b) == b.shards = 0 \/ TooLong(b) \/ b.frag

\* ret_txdrop: the skb is freed, the call will return NETDEV_TX_OK, and so
\* xpnet_tx_complete runs as after a transmission.
DropSkb(s) ==
  /\ pc[s] = "check"
  /\ \/ ~active
     \/ active /\ xpnet_get_free_desc # 0 /\ Rejected(skb[s])
  /\ skb' = [skb EXCEPT ![s] = None]
  /\ freed' = freed + 1
  /\ stats' = [stats EXCEPT !.errors = @ + 1, !.dropped = @ + 1]
  /\ rc' = "OK"
  /\ Goto(s, "complete")
  /\ UNCHANGED <<trigger, active, ring, dma, lock, k, chead, iter, attempt,
                 gaveUp, exact, calls>>

\* ret_txbusy before anything was copied: the ring is full, or the first
\* descriptor is still the engine's, or it carries an error (for which
\* start_dma_reset does nothing).
RefuseSkb(s) ==
  /\ pc[s] = "check"
  /\ active
  /\ \/ xpnet_get_free_desc = 0
     \/ ~Rejected(skb[s]) /\ (desc[tail].own \/ desc[tail].err)
  /\ rc' = "BUSY"
  /\ Goto(s, "unlock")
  /\ UNCHANGED <<trigger, active, ring, dma, lock, skb, k, chead, iter,
                 attempt, hist, calls>>

\* Faulty variant: the ownership bit of the first descriptor is not tested.
Fault_AcceptUnchecked(s) ==
  /\ pc[s] = "check"
  /\ active
  /\ xpnet_get_free_desc # 0
  /\ ~Rejected(skb[s])
  /\ ~desc[tail].err
  /\ k' = 0
  /\ Goto(s, "copy")
  /\ UNCHANGED <<trigger, active, ring, dma, lock, skb, chead, iter, attempt,
                 rc, hist, calls>>

AcceptSkb(s) ==
  /\ pc[s] = "check"
  /\ active
  /\ xpnet_get_free_desc # 0
  /\ ~Rejected(skb[s])
  /\ ~desc[tail].own
  /\ ~desc[tail].err
  /\ k' = 0
  /\ Goto(s, "copy")
  /\ UNCHANGED <<trigger, active, ring, dma, lock, skb, chead, iter, attempt,
                 rc, hist, calls>>

----------------------------------------------------------------------------
(* __xpnet_skb_to_shards: one segment of the skb into one buffer a step,   *)
(* whoever owns the descriptor of that buffer.                             *)

LastShard(s) == k + 1 = skb[s].shards

Advance(s, next) ==
  /\ k' = IF LastShard(s) THEN 0 ELSE k + 1
  /\ Goto(s, IF LastShard(s) THEN next ELSE pc[s])

CopyShard(s) ==
  /\ pc[s] = "copy"
  /\ buf' = [buf EXCEPT ![Slot(k)] = skb[s].data]
  /\ Advance(s, "verify")
  /\ UNCHANGED <<trigger, active, head, tail, desc, want, dma, lock, skb,
                 chead, iter, attempt, rc, hist, calls>>

(* __xpnet_skb_stat_enqueue: first every descriptor is looked at ...       *)

\* Faulty variant: the later descriptors are not looked at.
Fault_VerifyFirstOnly(s) ==
  /\ pc[s] = "verify"
  /\ k # 0 \/ (~desc[Slot(k)].own /\ ~desc[Slot(k)].err)
  /\ Advance(s, "write")
  /\ UNCHANGED <<trigger, active, ring, dma, lock, skb, chead, iter, attempt,
                 rc, hist, calls>>

VerifyShard(s) ==
  /\ pc[s] = "verify"
  /\ ~desc[Slot(k)].own
  /\ ~desc[Slot(k)].err
  /\ Advance(s, "write")
  /\ UNCHANGED <<trigger, active, ring, dma, lock, skb, chead, iter, attempt,
                 rc, hist, calls>>

\* A later descriptor is still the engine's.
VerifyBusy(s) ==
  /\ pc[s] = "verify"
  /\ desc[Slot(k)].own
  /\ rc' = "BUSY"
  /\ Goto(s, "unlock")
  /\ UNCHANGED <<trigger, active, ring, dma, lock, skb, k, chead, iter,
                 attempt, hist, calls>>

\* Faulty variant: the skb counted as dropped is freed, and BUSY returned.
Fault_VerifyErrorFrees(s) ==
  /\ pc[s] = "verify"
  /\ ~desc[Slot(k)].own
  /\ desc[Slot(k)].err
  /\ stats' = [stats EXCEPT !.aborted = @ + 1, !.dropped = @ + 1]
  /\ skb' = [skb EXCEPT ![s] = None]
  /\ rc' = "BUSY"
  /\ Goto(s, "unlock")
  /\ UNCHANGED <<trigger, active, ring, dma, lock, k, chead, iter,
                 attempt, gaveUp, exact, freed, calls>>

\* A later descriptor carries an error: counted as an abort and as a drop,
\* although the caller keeps the skb.
VerifyError(s) ==
  /\ pc[s] = "verify"
  /\ ~desc[Slot(k)].own
  /\ desc[Slot(k)].err
  /\ stats' = [stats EXCEPT !.aborted = @ + 1, !.dropped = @ + 1]
  /\ rc' = "BUSY"
  /\ Goto(s, "unlock")
  /\ UNCHANGED <<trigger, active, ring, dma, lock, skb, k, chead, iter,
                 attempt, gaveUp, exact, freed, calls>>

(* ... then every descriptor is written, all but the first handed over ... *)

WriteDesc(s) ==
  /\ pc[s] = "write"
  /\ desc' = [desc EXCEPT ![Slot(k)] =
                [own |-> k # 0, err |-> FALSE, sop |-> k = 0, eop |-> FALSE]]
  /\ want' = [want EXCEPT ![Slot(k)] = skb[s].data]
  /\ Advance(s, "eop")
  /\ UNCHANGED <<trigger, active, head, tail, buf, dma, lock, skb, chead,
                 iter, attempt, rc, hist, calls>>

\* Faulty variant: EOP one descriptor too far.
Fault_EopPastEnd(s) ==
  /\ pc[s] = "eop"
  /\ desc' = [desc EXCEPT ![Slot(skb[s].shards)].eop = TRUE]
  /\ Goto(s, "publish")
  /\ UNCHANGED <<trigger, active, head, tail, buf, want, dma, lock, skb, loc,
                 hist, calls>>

\* The last descriptor written is marked EOP.
MarkEop(s) ==
  /\ pc[s] = "eop"
  /\ desc' = [desc EXCEPT ![Slot(skb[s].shards - 1)].eop = TRUE]
  /\ Goto(s, "publish")
  /\ UNCHANGED <<trigger, active, head, tail, buf, want, dma, lock, skb, loc,
                 hist, calls>>

\* The first descriptor is handed over last.
PublishFirst(s) ==
  /\ pc[s] = "publish"
  /\ desc' = [desc EXCEPT ![tail].own = TRUE]
  /\ Goto(s, "cdp")
  /\ UNCHANGED <<trigger, active, head, tail, buf, want, dma, lock, skb, loc,
                 hist, calls>>

\* xpnet_set_q_cdp(q, q->tail): the engine is pointed at the frame.
SetCdp(s) ==
  /\ pc[s] = "cdp"
  /\ cdp' = tail
  /\ Goto(s, "enable")
  /\ UNCHANGED <<trigger, active, ring, en, lock, skb, loc, hist, calls>>

\* xpnet_queue_en_dis(q, 1), and the rest of xpnet_hard_start_xmit: the skb
\* is freed, then its length is read for tx_bytes (whatever the freed memory
\* holds by then), and tail moves past the frame.
EnableQueue(s) ==
  /\ pc[s] = "enable"
  /\ en' = TRUE
  /\ skb' = [skb EXCEPT ![s] = None]
  /\ freed' = freed + 1
  /\ stats' = [stats EXCEPT !.packets = @ + 1]
  /\ exact' \in {exact, FALSE}
  /\ tail' = xpnet_add_and_wrap(tail, skb[s].shards, NumDesc)
  /\ rc' = "OK"
  /\ Goto(s, "complete")
  /\ UNCHANGED <<trigger, active, head, desc, buf, want, cdp, lock, k, chead,
                 iter, attempt, gaveUp, calls>>

----------------------------------------------------------------------------
(* xpnet_tx_complete: look at the busy descriptors in order, polling each  *)
(* at most MaxAttempts times, then rewind the ring.                        *)

CompleteBegin(s) ==
  /\ pc[s] = "complete"
  /\ chead' = head
  /\ iter' = xpnet_get_busy_desc
  /\ Goto(s, "next")
  /\ UNCHANGED <<trigger, active, ring, dma, lock, skb, k, attempt, rc, hist,
                 calls>>

NextHead == xpnet_add_and_wrap(chead, 1, NumDesc)

\* Top of the loop: go to the next descriptor unless it carries an error.
CompleteNext(s) ==
  /\ pc[s] = "next"
  /\ iter > 0
  /\ NextHead # tail
  /\ ~desc[NextHead].err
  /\ chead' = NextHead
  /\ attempt' = 0
  /\ Goto(s, "poll")
  /\ UNCHANGED <<trigger, active, ring, dma, lock, skb, k, iter, rc, hist,
                 calls>>

\* All three ways out of the loop at its top.
CompleteLeave(s) ==
  /\ pc[s] = "next"
  /\ iter = 0 \/ NextHead = tail \/ desc[NextHead].err
  /\ gaveUp' = (gaveUp \/ iter # 0)
  /\ Goto(s, "rewind")
  /\ UNCHANGED <<trigger, active, ring, dma, lock, skb, loc, stats, exact,
                 freed, calls>>

\* Faulty variant: the attempts are not counted.
Fault_PollForever(s) ==
  /\ pc[s] = "poll"
  /\ desc[chead].own
  /\ attempt < MaxAttempts
  /\ attempt' = 0
  /\ UNCHANGED <<trigger, active, ring, dma, lock, pc, skb, k, chead, iter,
                 rc, hist, calls>>

PollAgain(s) ==
  /\ pc[s] = "poll"
  /\ desc[chead].own
  /\ attempt < MaxAttempts
  /\ attempt' = attempt + 1
  /\ UNCHANGED <<trigger, active, ring, dma, lock, pc, skb, k, chead, iter,
                 rc, hist, calls>>

PollGiveUp(s) ==
  /\ pc[s] = "poll"
  /\ desc[chead].own
  /\ attempt >= MaxAttempts
  /\ gaveUp' = TRUE
  /\ Goto(s, "rewind")
  /\ UNCHANGED <<trigger, active, ring, dma, lock, skb, loc, stats, exact,
                 freed, calls>>

PollDone(s) ==
  /\ pc[s] = "poll"
  /\ ~desc[chead].own
  /\ head' = xpnet_add_and_wrap(head, 1, NumDesc)
  /\ iter' = iter - 1
  /\ Goto(s, "next")
  /\ UNCHANGED <<trigger, active, tail, desc, buf, want, dma, lock, skb, k,
                 chead, attempt, rc, hist, calls>>

\* A0: the ring is rewound even if the engine still owns descriptors.
Rewind(s) ==
  /\ pc[s] = "rewind"
  /\ head' = NumDesc - 1
  /\ tail' = 0
  /\ Goto(s, "unlock")
  /\ UNCHANGED <<trigger, active, desc, buf, want, dma, lock, skb, loc, hist,
                 calls>>

\* xpnet_start_xmit returns rc: after BUSY the skb is the caller's again.
ReleaseTx(s) ==
  /\ pc[s] = "unlock"
  /\ lock' = None
  /\ skb' = [skb EXCEPT ![s] = None]
  /\ Goto(s, "idle")
  /\ UNCHANGED <<trigger, active, ring, dma, loc, hist, calls>>

----------------------------------------------------------------------------
(* xp_dev_reg_read and xp_dev_reg_write: the access is made with           *)
(* tx_dma_read_lock held.                                                  *)

\* Faulty variant: the register is accessed without waiting for the lock.
Fault_RegNoLock(r) ==
  /\ lock \notin RegUsers
  /\ lock' = r
  /\ UNCHANGED <<trigger, active, ring, dma, pc, skb, loc, hist, calls>>

RegLock(r) ==
  /\ lock = None
  /\ lock' = r
  /\ UNCHANGED <<trigger, active, ring, dma, pc, skb, loc, hist, calls>>

RegUnlock(r) ==
  /\ lock = r
  /\ lock' = None
  /\ UNCHANGED <<trigger, active, ring, dma, pc, skb, loc, hist, calls>>

----------------------------------------------------------------------------
(* The DMA engine (external).                                              *)

HwTransmit ==
  /\ en
  /\ desc[cdp].own
  /\ desc' = [desc EXCEPT ![cdp].own = FALSE]
  /\ cdp' = xpnet_add_and_wrap(cdp, 1, NumDesc)
  /\ en' = ~desc[cdp].eop
  /\ UNCHANGED <<trigger, active, head, tail, buf, want, lock, pc, skb, loc,
                 hist, calls>>

HwError ==
  /\ en
  /\ desc[cdp].own
  /\ desc' = [desc EXCEPT ![cdp].own = FALSE, ![cdp].err = TRUE]
  /\ en' = FALSE
  /\ UNCHANGED <<trigger, active, head, tail, buf, want, cdp, lock, pc, skb,
                 loc, hist, calls>>

----------------------------------------------------------------------------

XmitStep(s) ==
  \/ DropSkb(s) \/ RefuseSkb(s) \/ AcceptSkb(s)
  \/ CopyShard(s)
  \/ VerifyShard(s) \/ VerifyBusy(s) \/ VerifyError(s)
  \/ WriteDesc(s) \/ MarkEop(s) \/ PublishFirst(s) \/ SetCdp(s)
  \/ EnableQueue(s)
  \/ CompleteBegin(s) \/ CompleteNext(s) \/ CompleteLeave(s)
  \/ PollAgain(s) \/ PollGiveUp(s) \/ PollDone(s)
  \/ Rewind(s) \/ ReleaseTx(s)

Hw == HwTransmit \/ HwError

Next ==
  \/ EnableDma
  \/ \E s \in Senders : StartXmit(s) \/ AcquireTx(s) \/ XmitStep(s)
  \/ \E r \in RegUsers : RegLock(r) \/ RegUnlock(r)
  \/ Hw

Spec == Init /\ [][Next]_vars

(* The code of a running call and of a register access makes progress; the *)
(* kernel's queued spinlocks hand the lock over in arrival order, so no    *)
(* waiter is passed over for ever.  Nothing is assumed of the DMA engine   *)
(* or of the callers.                                                      *)
Fairness ==
  /\ \A s \in Senders : WF_vars(XmitStep(s)) /\ SF_vars(AcquireTx(s))
  /\ \A r \in RegUsers : WF_vars(RegUnlock(r))

FairSpec == Spec /\ Fairness

----------------------------------------------------------------------------
(* Properties.                                                             *)

Labels == {"idle", "lock", "check", "copy", "verify", "write", "eop",
           "publish", "cdp", "enable", "complete", "next", "poll", "rewind",
           "unlock"}

\* Every variable of the TX path stays in its range; indices stay in the ring.
TypeOK ==
  /\ trigger \in BOOLEAN /\ active \in BOOLEAN
  /\ head \in Idx /\ tail \in Idx
  /\ desc \in [Idx -> Desc]
  /\ buf \in [Idx -> Payloads \cup {None}]
  /\ want \in [Idx -> Payloads \cup {None}]
  /\ cdp \in Idx /\ en \in BOOLEAN
  /\ lock \in Senders \cup RegUsers \cup {None}
  /\ pc \in [Senders -> Labels]
  /\ skb \in [Senders -> Skb \cup {None}]
  /\ k \in Nat /\ chead \in Idx /\ iter \in Nat /\ attempt \in Nat
  /\ rc \in {"OK", "BUSY"}
  /\ gaveUp \in BOOLEAN
  /\ stats \in Counters
  /\ exact \in BOOLEAN
  /\ freed \in Nat /\ calls \in Nat

InFrame == {"copy", "verify", "write", "eop", "publish", "cdp", "enable"}

\* What a step may change of a descriptor the engine owns before and after it.
StableStep ==
  \A i \in Idx :
    desc[i].own /\ desc'[i].own =>
      /\ want'[i] = want[i]
      /\ desc'[i] = desc[i] \/ ~en \/ gaveUp

\* __xpnet_skb_stat_enqueue: what the engine was given to send is never
\* replaced while it owns the descriptor, however late it is.  The bits of a
\* descriptor may still change after the hand-over (the EOP bit of the last
\* shard is set last), but then the engine is stopped, unless a completion
\* loop gave up on it before.
OwnedDescStable == [][StableStep]_vars

\* xpnet_tx_complete: between two calls the ring is rewound, so that every
\* call finds the whole ring free, after a timeout and after an error too.
RewoundBetweenCalls ==
  lock \notin Senders => /\ head = NumDesc - 1
                         /\ tail = 0
                         /\ xpnet_get_free_desc = NumDesc - 1

\* xpnet_hard_start_xmit reports "CORRUPTION" when a frame has more shards
\* than there are free descriptors: it never has.
NoCorruption ==
  \A s \in Senders : pc[s] \in InFrame => /\ skb[s].shards <= xpnet_get_free_desc
                                          /\ k < skb[s].shards

\* When the engine is enabled on a descriptor it owns, the rest of the frame
\* is in place: it owns every descriptor up to the one marked EOP, and no
\* second frame starts before it.  (After a completion loop gave up, the next
\* frame may be written under an engine that is still enabled.)
WholeFrame ==
  ~gaveUp /\ en /\ desc[cdp].own =>
    \E e \in cdp .. NumDesc - 1 :
      /\ desc[e].eop
      /\ \A i \in cdp .. e : desc[i].own
      /\ \A i \in cdp + 1 .. e : ~desc[i].sop
      /\ \A i \in cdp .. e - 1 : ~desc[i].eop

\* xpnet_hard_start_xmit: the skb is freed exactly when the call will return
\* NETDEV_TX_OK; a caller told BUSY still has it.
BusyKeepsSkb ==
  \A s \in Senders : pc[s] = "unlock" => (rc = "BUSY" <=> skb[s] # None)

\* The counters account for every skb freed: each was sent or dropped, and
\* the aborted transmissions are the drops that freed nothing.
Accounting == freed = stats.packets + stats.dropped - stats.aborted

\* What becomes of an skb, on every path of the error labels: it is the
\* caller's again exactly if the caller is told BUSY, and otherwise it is freed
\* and counted as sent or as dropped.
SkbAccounted == BusyKeepsSkb /\ Accounting

\* What the engine is given to send is what the driver published: the buffer
\* of a descriptor it owns still holds the skb's data.
OwnedIntact == \A i \in Idx : desc[i].own => buf[i] = want[i]

\* The same as far as the code ensures it: for the first descriptor, whose
\* ownership is tested before anything is copied, always; for the others as
\* long as no completion loop gave up on the engine.
SentIntact ==
  \A i \in Idx : desc[i].own /\ (i = 0 \/ ~gaveUp) => buf[i] = want[i]

\* tx_dma_read_lock keeps register accesses and TX DMA apart as long as the
\* engine answers in time and without error.
RegAccessExclusive ==
  lock \in RegUsers /\ ~gaveUp => \A i \in Idx : ~desc[i].own

\* xp_pcie_slave.h: "Lock to make tx DMA and reg read mutual exclusive."
RegAccessAlwaysExclusive ==
  lock \in RegUsers => \A i \in Idx : ~desc[i].own

\* "Data is copied, don't need skb anymore": tx_bytes adds the length of the
\* skb that was sent.
BytesExact == exact

----------------------------------------------------------------------------
(* The inductive invariant from which the safety properties follow.        *)

\* Where the call is that holds tx_dma_read_lock, and its skb.
Place == IF lock \in Senders THEN pc[lock] ELSE "free"
Held == skb[lock]

Sent == {"cdp", "enable"}
Completing == {"complete", "next", "poll"}

\* The n-th descriptor of the frame in work has been written.
Written(n) ==
  \/ Place = "write" /\ n < k
  \/ Place \in {"eop", "publish"} \cup Sent

\* A call is past the spinlock exactly when it holds the lock.
LockInv == \A s \in Senders : lock = s <=> pc[s] \notin {"idle", "lock"}

\* A call owns its skb until it has freed it.
SkbInv ==
  \A s \in Senders :
    /\ pc[s] \in {"lock", "check"} \cup InFrame => skb[s] \in Skb
    /\ pc[s] \in Completing \cup {"rewind"} => skb[s] = None /\ rc = "OK"
    /\ pc[s] = "unlock" => (rc = "BUSY" <=> skb[s] # None)

\* A frame is written into a ring that is rewound; xpnet_tx_complete goes
\* through exactly the descriptors of that frame.
RingInv ==
  /\ Place \notin Completing \cup {"rewind"} => head = NumDesc - 1 /\ tail = 0
  /\ Place = "complete" => head = NumDesc - 1
  /\ Place = "next" => chead = head /\ NextHead <= tail /\ iter = tail - NextHead
  /\ Place = "poll" => /\ chead = xpnet_add_and_wrap(head, 1, NumDesc)
                       /\ chead < tail
                       /\ iter = tail - chead

\* The frame in work fits the ring, what it has copied and written so far is
\* its data, and the engine owns no descriptor that is still to be written,
\* however late it is.
FrameInv ==
  Place \in InFrame =>
    /\ Held.shards \in 1 .. NumDesc - 1
    /\ k < Held.shards
    /\ Place \notin {"copy", "verify", "write"} => k = 0
    /\ \A i \in Idx : i < Held.shards =>
         /\ Place # "copy" \/ i < k => buf[i] = Held.data
         /\ Written(i) => want[i] = Held.data
         /\ Place = "verify" /\ i < k => ~desc[i].own
         /\ Place = "write" /\ i >= k => ~desc[i].own
    /\ Place \notin Sent => ~desc[0].own

\* As long as no completion loop gave up, the engine owns only descriptors of
\* the frame in work, and works only while xpnet_tx_complete waits for it.
EngineInv ==
  ~gaveUp =>
    /\ Place \notin Completing => ~en
    /\ Place \in {"free", "check", "copy", "verify", "rewind", "unlock"} =>
         \A i \in Idx : ~desc[i].own
    /\ Place \in {"write", "eop", "publish"} \cup Sent =>
         \A i \in Idx :
           /\ desc[i].own <=> i < Held.shards /\ Written(i) /\ (i # 0 \/ Place \in Sent)
           /\ i < Held.shards /\ Written(i) =>
                /\ desc[i].sop <=> i = 0
                /\ desc[i].eop <=> i = Held.shards - 1 /\ Place \in {"publish"} \cup Sent
    /\ Place = "enable" => cdp = 0
    /\ Place \in Completing =>
         /\ \A i \in Idx : desc[i].own =>
              /\ i < tail
              /\ Place = "next" => i >= NextHead
              /\ Place = "poll" => i >= chead
         /\ en => /\ cdp < tail
                  /\ \A i \in Idx : cdp <= i /\ i < tail =>
                       /\ desc[i].own
                       /\ desc[i].eop <=> i = tail - 1
                       /\ desc[i].sop => i = 0

TxInv ==
  TypeOK /\ LockInv /\ SkbInv /\ RingInv /\ FrameInv /\ EngineInv /\ SentIntact /\ Accounting

----------------------------------------------------------------------------

\* Every call that waits for the lock gets it and returns, even if the engine
\* never completes a descriptor: the polling in xpnet_tx_complete is bounded.
XmitReturns == \A s \in Senders : pc[s] = "lock" ~> pc[s] = "idle"

=============================================================================
