---------------------------- MODULE XpnetTxProof ----------------------------
(***************************************************************************)
(* Proofs about XpnetTx, for any number of descriptors, senders and        *)
(* register users, any frames, and a DMA engine that may be late, fail or  *)
(* never answer.                                                           *)
(***************************************************************************)
EXTENDS XpnetTx, TLAPS

\* The wrap-around macro steps through the ring: i + 1, and 0 after the last.
LEMMA WrapNext ==
  \A i \in Idx : xpnet_add_and_wrap(i, 1, NumDesc)
                   = IF i = NumDesc - 1 THEN 0 ELSE i + 1
BY NumDescAssumption DEF Idx, xpnet_add_and_wrap

\* In a ring that is rewound the n-th shard has the n-th descriptor.
LEMMA SlotIsIndex ==
  ASSUME tail = 0, NEW n \in Idx
  PROVE  Slot(n) = n
BY NumDescAssumption DEF Idx, Slot, xpnet_add_and_wrap

\* When the frame of a rewound ring is complete, tail is its length.
LEMMA TailIsLength ==
  ASSUME tail = 0, NEW n \in Idx
  PROVE  xpnet_add_and_wrap(tail, n, NumDesc) = n
BY NumDescAssumption DEF Idx, xpnet_add_and_wrap

\* Before the completion the descriptors up to tail are busy, the others free.
LEMMA BusyIsTail ==
  ASSUME head = NumDesc - 1, tail \in Idx
  PROVE  /\ xpnet_get_busy_desc = tail
         /\ xpnet_get_free_desc = NumDesc - 1 - tail
BY NumDescAssumption DEF Idx, xpnet_get_busy_desc, xpnet_get_free_desc

\* A call past the spinlock is the holder of the lock.
LEMMA IsHolder ==
  ASSUME LockInv, NEW s \in Senders, pc[s] \notin {"idle", "lock"}
  PROVE  lock = s /\ Place = pc[s] /\ Held = skb[s]
BY DEF LockInv, Place, Held

\* It keeps the lock when it goes on.
LEMMA HolderMoves ==
  ASSUME TypeOK, LockInv, NEW s \in Senders, pc[s] \notin {"idle", "lock"},
         NEW l \in Labels \ {"idle", "lock"}, Goto(s, l), lock' = lock
  PROVE  LockInv' /\ Place' = l /\ Held' = skb'[s] /\ pc' \in [Senders -> Labels]
<1>1. lock = s /\ \A t \in Senders : pc'[t] = IF t = s THEN l ELSE pc[t]
  BY IsHolder DEF TypeOK, Goto
<1> QED
  BY <1>1 DEF LockInv, Place, Held, TypeOK, Goto

\* What a step of the holder leaves to check of SkbInv.
LEMMA HolderSkb ==
  ASSUME TypeOK, LockInv, SkbInv, NEW s \in Senders, pc[s] \notin {"idle", "lock"},
         NEW l \in Labels \ {"idle", "lock"}, Goto(s, l),
         \A t \in Senders \ {s} : skb'[t] = skb[t],
         l \in {"check"} \cup InFrame => skb'[s] \in Skb,
         l \in Completing \cup {"rewind"} => skb'[s] = None /\ rc' = "OK",
         l = "unlock" => (rc' = "BUSY" <=> skb'[s] # None)
  PROVE  SkbInv'
<1>1. \A t \in Senders : pc'[t] = IF t = s THEN l ELSE pc[t]
  BY DEF TypeOK, Goto
<1>2. \A t \in Senders \ {s} : pc[t] \in {"idle", "lock"}
  BY IsHolder DEF LockInv
<1> QED
  BY <1>1, <1>2 DEF SkbInv, InFrame, Completing

Freed(st) == st.packets + st.dropped - st.aborted

\* The counters stay counters; a drop and a transmission account for one skb
\* more, an abort for none.
LEMMA StatsStep ==
  ASSUME NEW st \in Counters
  PROVE  /\ [st EXCEPT !.errors = @ + 1, !.dropped = @ + 1] \in Counters
         /\ [st EXCEPT !.aborted = @ + 1, !.dropped = @ + 1] \in Counters
         /\ [st EXCEPT !.packets = @ + 1] \in Counters
         /\ Freed(st) \in Int
         /\ Freed([st EXCEPT !.errors = @ + 1, !.dropped = @ + 1]) = Freed(st) + 1
         /\ Freed([st EXCEPT !.aborted = @ + 1, !.dropped = @ + 1]) = Freed(st)
         /\ Freed([st EXCEPT !.packets = @ + 1]) = Freed(st) + 1
<1>0. st.errors + 1 \in Nat /\ st.dropped + 1 \in Nat /\ st.aborted + 1 \in Nat
  BY DEF Counters
<1>1. [st EXCEPT !.errors = @ + 1, !.dropped = @ + 1] \in Counters
  <2>1. \A x, y \in Nat : [st EXCEPT !.errors = x, !.dropped = y] \in Counters
    BY DEF Counters
  <2> QED
    BY <1>0, <2>1
<1>2. [st EXCEPT !.aborted = @ + 1, !.dropped = @ + 1] \in Counters
  <2>1. \A x, y \in Nat : [st EXCEPT !.aborted = x, !.dropped = y] \in Counters
    BY DEF Counters
  <2> QED
    BY <1>0, <2>1
<1>3. [st EXCEPT !.packets = @ + 1] \in Counters
  BY DEF Counters
<1>4. st.errors \in Nat /\ st.dropped \in Nat /\ st.aborted \in Nat /\ st.packets \in Nat
  BY DEF Counters
<1>5. Freed([st EXCEPT !.errors = @ + 1, !.dropped = @ + 1]) = Freed(st) + 1
  BY <1>4 DEF Freed, Counters
<1>6. Freed([st EXCEPT !.aborted = @ + 1, !.dropped = @ + 1]) = Freed(st)
  BY <1>4 DEF Freed, Counters
<1>7. Freed([st EXCEPT !.packets = @ + 1]) = Freed(st) + 1
  BY <1>4 DEF Freed, Counters
<1>8. Freed(st) \in Int
  BY <1>4 DEF Freed
<1> QED
  BY <1>1, <1>2, <1>3, <1>5, <1>6, <1>7, <1>8

----------------------------------------------------------------------------
(* Steps of xpnet_hard_start_xmit before the ring is touched.              *)

\* A packet is dropped: nothing was given to the engine, and nothing is.
LEMMA DropStep ==
  ASSUME TxInv, NEW s \in Senders, DropSkb(s)
  PROVE  TxInv'
<1> USE DEF TxInv
<1>1. pc[s] = "check" /\ Place = "check" /\ lock = s
  BY IsHolder DEF DropSkb
<1>2. LockInv' /\ Place' = "complete" /\ pc' \in [Senders -> Labels]
  BY <1>1, HolderMoves DEF DropSkb, Labels
<1>3. SkbInv'
  BY <1>1, HolderSkb DEF DropSkb, Labels, InFrame, Completing, TypeOK
<1>4. /\ UNCHANGED <<trigger, active, ring, dma, lock, k, chead, iter, attempt, gaveUp,
                     exact, calls>>
      /\ skb' = [skb EXCEPT ![s] = None] /\ rc' = "OK" /\ freed' = freed + 1
  BY DEF DropSkb
<1>s. stats' \in Counters /\ Freed(stats') = Freed(stats) + 1 /\ Freed(stats) \in Int
  BY StatsStep DEF DropSkb, TypeOK
<1>t. TypeOK'
  BY <1>2, <1>4, <1>s DEF TypeOK, ring, dma
<1>5. RingInv'
  BY <1>1, <1>2 DEF RingInv, DropSkb, ring, Completing
<1>6. FrameInv'
  BY <1>2 DEF FrameInv, InFrame
<1>7. EngineInv'
  BY <1>1, <1>2 DEF EngineInv, DropSkb, ring, dma, Completing, Sent
<1>8. SentIntact'
  BY <1>4 DEF SentIntact, ring
<1>9. Accounting'
  BY <1>4, <1>s DEF Accounting, Freed
<1> QED
  BY <1>2, <1>3, <1>t, <1>5, <1>6, <1>7, <1>8, <1>9

\* The caller is told BUSY before anything was copied.
LEMMA RefuseStep ==
  ASSUME TxInv, NEW s \in Senders, RefuseSkb(s)
  PROVE  TxInv'
<1> USE DEF TxInv
<1>1. pc[s] = "check" /\ Place = "check" /\ lock = s /\ skb[s] \in Skb
  BY IsHolder DEF RefuseSkb, SkbInv
<1>2. LockInv' /\ Place' = "unlock" /\ pc' \in [Senders -> Labels]
  BY <1>1, HolderMoves DEF RefuseSkb, Labels
<1>3. SkbInv'
  BY <1>1, HolderSkb, SkbAssumption DEF RefuseSkb, Labels, InFrame, Completing, TypeOK
<1>4. TypeOK'
  BY <1>2 DEF TypeOK, RefuseSkb, ring, dma, hist
<1>5. RingInv'
  BY <1>1, <1>2 DEF RingInv, RefuseSkb, ring, Completing
<1>6. FrameInv'
  BY <1>2 DEF FrameInv, InFrame
<1>7. EngineInv'
  BY <1>1, <1>2 DEF EngineInv, RefuseSkb, ring, dma, hist, Completing, Sent
<1>8. SentIntact' /\ Accounting'
  BY DEF SentIntact, Accounting, RefuseSkb, ring, hist
<1> QED
  BY <1>2, <1>3, <1>4, <1>5, <1>6, <1>7, <1>8

\* A frame is accepted: it fits the ring, and its first descriptor is free.
LEMMA AcceptStep ==
  ASSUME TxInv, NEW s \in Senders, AcceptSkb(s)
  PROVE  TxInv'
<1> USE DEF TxInv
<1>1. pc[s] = "check" /\ Place = "check" /\ lock = s /\ skb[s] \in Skb
  BY IsHolder DEF AcceptSkb, SkbInv
<1>2. /\ LockInv' /\ Place' = "copy" /\ Held' = skb[s] /\ pc' \in [Senders -> Labels]
      /\ k' = 0
  BY <1>1, HolderMoves DEF AcceptSkb, Labels
<1>3. SkbInv'
  BY <1>1, HolderSkb DEF AcceptSkb, Labels, InFrame, Completing, TypeOK
<1>4. TypeOK'
  BY <1>2 DEF TypeOK, AcceptSkb, ring, dma, hist
<1>5. head = NumDesc - 1 /\ tail = 0 /\ ~desc[0].own /\ skb[s].shards \in 1 .. NumDesc - 1
  <2>1. head = NumDesc - 1 /\ tail = 0
    BY <1>1 DEF RingInv, Completing
  <2>2. xpnet_get_free_desc = NumDesc - 1
    BY <2>1, BusyIsTail, NumDescAssumption DEF TypeOK
  <2>3. skb[s].shards \in Nat
    BY <1>1, ShardAssumption DEF Skb
  <2>4. skb[s].shards # 0 /\ ~(skb[s].shards > xpnet_get_free_desc) /\ ~desc[tail].own
    BY DEF AcceptSkb, Rejected, TooLong
  <2> QED
    BY <2>1, <2>2, <2>3, <2>4, NumDescAssumption
<1>6. RingInv'
  BY <1>2, <1>5 DEF RingInv, AcceptSkb, ring, Completing
<1>7. FrameInv'
  BY <1>2, <1>5 DEF FrameInv, InFrame, AcceptSkb, ring, Idx, Written, Sent
<1>8. EngineInv'
  BY <1>1, <1>2 DEF EngineInv, AcceptSkb, ring, dma, hist, Completing, Sent
<1>9. SentIntact' /\ Accounting'
  BY DEF SentIntact, Accounting, AcceptSkb, ring, hist
<1> QED
  BY <1>2, <1>3, <1>4, <1>6, <1>7, <1>8, <1>9

----------------------------------------------------------------------------
(* Steps that write the frame.                                             *)

\* The ring is rewound while a frame is written, and the next shard is a
\* shard of the frame.
LEMMA FrameFacts ==
  ASSUME TxInv, NEW s \in Senders, pc[s] \in InFrame
  PROVE  /\ lock = s /\ Place = pc[s] /\ Held = skb[s] /\ skb[s] \in Skb
         /\ head = NumDesc - 1 /\ tail = 0
         /\ k \in Idx /\ Slot(k) = k /\ k \in Nat
         /\ skb[s].shards \in 1 .. NumDesc - 1 /\ k < skb[s].shards
         /\ skb[s].data \in Payloads
<1> USE DEF TxInv
<1>1. lock = s /\ Place = pc[s] /\ Held = skb[s] /\ skb[s] \in Skb
  BY IsHolder DEF InFrame, SkbInv
<1>2. head = NumDesc - 1 /\ tail = 0
  BY <1>1 DEF RingInv, InFrame, Completing
<1>3. skb[s].shards \in 1 .. NumDesc - 1 /\ k < skb[s].shards
  BY <1>1 DEF FrameInv
<1>4. k \in Nat
  BY DEF TypeOK
<1>5. k \in Idx
  BY <1>3, <1>4, NumDescAssumption DEF Idx
<1>6. skb[s].data \in Payloads
  BY <1>1 DEF Skb
<1> QED
  BY <1>1, <1>2, <1>3, <1>4, <1>5, <1>6, SlotIsIndex

\* Going to the next shard, or to the next loop after the last one.
LEMMA AdvanceFacts ==
  ASSUME TxInv, NEW s \in Senders, pc[s] \in InFrame,
         NEW l \in Labels \ {"idle", "lock"}, Advance(s, l), lock' = lock, skb' = skb
  PROVE  /\ LockInv' /\ pc' \in [Senders -> Labels] /\ Held' = skb[s]
         /\ k' \in Nat /\ k' < skb[s].shards
         /\ \/ k + 1 = skb[s].shards /\ k' = 0 /\ Place' = l
            \/ k + 1 < skb[s].shards /\ k' = k + 1 /\ Place' = pc[s]
         /\ l \in InFrame => SkbInv'
<1> USE DEF TxInv
<1>1. lock = s /\ k \in Nat /\ skb[s].shards \in 1 .. NumDesc - 1 /\ k < skb[s].shards
      /\ skb[s] \in Skb
  BY FrameFacts
<1>2. CASE LastShard(s)
  <2>1. Goto(s, l) /\ k' = 0
    BY <1>2 DEF Advance
  <2>2. LockInv' /\ Place' = l /\ Held' = skb[s] /\ pc' \in [Senders -> Labels]
    BY <2>1, HolderMoves DEF InFrame
  <2>3. l \in InFrame => SkbInv'
    BY <1>1, <2>1, HolderSkb DEF InFrame, Completing
  <2> QED
    BY <1>1, <1>2, <2>1, <2>2, <2>3 DEF LastShard
<1>3. CASE ~LastShard(s)
  <2>1. Goto(s, pc[s]) /\ k' = k + 1
    BY <1>3 DEF Advance
  <2>2. pc[s] \in Labels \ {"idle", "lock"}
    BY DEF TypeOK, InFrame, Labels
  <2>3. LockInv' /\ Place' = pc[s] /\ Held' = skb[s] /\ pc' \in [Senders -> Labels]
    BY <2>1, <2>2, HolderMoves DEF InFrame
  <2>4. SkbInv'
    BY <1>1, <2>1, <2>2, HolderSkb DEF InFrame, Completing
  <2> QED
    BY <1>1, <1>3, <2>1, <2>3, <2>4 DEF LastShard
<1> QED
  BY <1>2, <1>3

\* A segment is copied; if the engine is late it may own the descriptor, but
\* not the first one.
LEMMA CopyStep ==
  ASSUME TxInv, NEW s \in Senders, CopyShard(s)
  PROVE  TxInv'
<1> USE DEF TxInv
<1>0. pc[s] = "copy" /\ pc[s] \in InFrame /\ "verify" \in Labels \ {"idle", "lock"} /\ "verify" \in InFrame
  BY DEF CopyShard, InFrame, Labels
<1>1. /\ UNCHANGED <<trigger, active, head, tail, desc, want, dma, lock, skb,
                     chead, iter, attempt, rc, hist, calls>>
      /\ Advance(s, "verify")
  BY DEF CopyShard
<1>2. /\ lock = s /\ Place = "copy" /\ Held = skb[s]
      /\ head = NumDesc - 1 /\ tail = 0
      /\ k \in Idx /\ k \in Nat /\ skb[s].shards \in 1 .. NumDesc - 1 /\ k < skb[s].shards
      /\ skb[s].data \in Payloads
      /\ buf' = [buf EXCEPT ![k] = skb[s].data]
  BY <1>0, FrameFacts DEF CopyShard
<1>3. /\ LockInv' /\ pc' \in [Senders -> Labels] /\ Held' = skb[s] /\ SkbInv'
      /\ k' \in Nat /\ k' < skb[s].shards
      /\ \/ k + 1 = skb[s].shards /\ k' = 0 /\ Place' = "verify"
         \/ k + 1 < skb[s].shards /\ k' = k + 1 /\ Place' = "copy"
  BY <1>0, <1>1, AdvanceFacts
<1>4. TypeOK'
  BY <1>1, <1>2, <1>3 DEF TypeOK, dma, hist
<1>5. RingInv'
  BY <1>1, <1>2, <1>3 DEF RingInv, Completing
<1>6. FrameInv'
  <2>1. ~desc[0].own
    BY <1>0, <1>2 DEF FrameInv, Sent, InFrame
  <2>2. \A i \in Idx : i < skb[s].shards /\ (Place' = "copy" => i < k') => buf'[i] = skb[s].data
    BY <1>0, <1>2, <1>3 DEF FrameInv, InFrame, Idx, TypeOK
  <2> QED
    BY <1>1, <1>2, <1>3, <2>1, <2>2 DEF FrameInv, Written, InFrame, Sent, Idx
<1>7. EngineInv'
  BY <1>1, <1>2, <1>3 DEF EngineInv, Completing, Sent, dma, hist
<1>8. SentIntact'
  <2>1. ~desc[0].own /\ (~gaveUp => \A i \in Idx : ~desc[i].own)
    BY <1>0, <1>2 DEF FrameInv, EngineInv, InFrame, Sent
  <2> QED
    BY <1>1, <2>1 DEF SentIntact, hist
<1>9. Accounting'
  BY <1>1 DEF Accounting, hist
<1> QED
  BY <1>3, <1>4, <1>5, <1>6, <1>7, <1>8, <1>9

\* A descriptor is found free; the engine takes none back.
LEMMA VerifyStep ==
  ASSUME TxInv, NEW s \in Senders, VerifyShard(s)
  PROVE  TxInv'
<1> USE DEF TxInv
<1>0. pc[s] = "verify" /\ pc[s] \in InFrame /\ "write" \in Labels \ {"idle", "lock"} /\ "write" \in InFrame
  BY DEF VerifyShard, InFrame, Labels
<1>1. /\ UNCHANGED <<trigger, active, ring, dma, lock, skb, chead, iter, attempt,
                     rc, hist, calls>>
      /\ Advance(s, "write")
  BY DEF VerifyShard
<1>2. /\ lock = s /\ Place = "verify" /\ Held = skb[s]
      /\ head = NumDesc - 1 /\ tail = 0
      /\ k \in Idx /\ k \in Nat /\ skb[s].shards \in 1 .. NumDesc - 1 /\ k < skb[s].shards
      /\ ~desc[k].own
  BY <1>0, FrameFacts DEF VerifyShard
<1>3. /\ LockInv' /\ pc' \in [Senders -> Labels] /\ Held' = skb[s] /\ SkbInv'
      /\ k' \in Nat /\ k' < skb[s].shards
      /\ \/ k + 1 = skb[s].shards /\ k' = 0 /\ Place' = "write"
         \/ k + 1 < skb[s].shards /\ k' = k + 1 /\ Place' = "verify"
  BY <1>0, <1>1, AdvanceFacts
<1>4. TypeOK'
  BY <1>1, <1>2, <1>3 DEF TypeOK, ring, dma, hist
<1>5. RingInv'
  BY <1>1, <1>2, <1>3 DEF RingInv, Completing, ring
<1>6. FrameInv'
  <2>1. \A i \in Idx : i < skb[s].shards => buf[i] = skb[s].data
    BY <1>0, <1>2 DEF FrameInv
  <2>2. \A i \in Idx : i <= k => ~desc[i].own
    BY <1>0, <1>2 DEF FrameInv, Idx
  <2>3. ~desc[0].own
    BY <1>2, <2>2, NumDescAssumption DEF Idx
  <2>4. \A i \in Idx : Written(i)' => Place' = "write" /\ i < 0
    BY <1>3 DEF Written, Sent
  <2> QED
    BY <1>1, <1>2, <1>3, <2>1, <2>2, <2>3, <2>4 DEF FrameInv, InFrame, Sent, Idx, ring
<1>7. EngineInv'
  <2>1. \A i \in Idx : Written(i)' => Place' = "write" /\ i < 0
    BY <1>3 DEF Written, Sent
  <2>2. \A i \in Idx : ~Written(i)'
    BY <2>1 DEF Idx
  <2> QED
    BY <1>1, <1>2, <1>3, <2>2 DEF EngineInv, Completing, Sent, ring, dma, hist
<1>8. SentIntact' /\ Accounting'
  BY <1>1 DEF SentIntact, Accounting, ring, hist
<1> QED
  BY <1>3, <1>4, <1>5, <1>6, <1>7, <1>8

\* A later descriptor is the engine's, or carries an error: BUSY.
LEMMA VerifyFails ==
  ASSUME TxInv, NEW s \in Senders, VerifyBusy(s) \/ VerifyError(s)
  PROVE  TxInv'
<1> USE DEF TxInv
<1>0. /\ pc[s] = "verify" /\ pc[s] \in InFrame
      /\ UNCHANGED <<trigger, active, ring, dma, lock, skb, k, chead, iter, attempt,
                     gaveUp, exact, freed, calls>>
      /\ rc' = "BUSY" /\ Goto(s, "unlock")
  BY DEF VerifyBusy, VerifyError, InFrame, hist
<1>1. stats' \in Counters /\ Freed(stats') = Freed(stats)
  <2>1. CASE VerifyBusy(s)
    BY <2>1 DEF VerifyBusy, hist, TypeOK
  <2>2. CASE VerifyError(s)
    BY <2>2, StatsStep DEF VerifyError, TypeOK
  <2> QED
    BY <2>1, <2>2
<1>2. /\ lock = s /\ Place = "verify" /\ head = NumDesc - 1 /\ tail = 0 /\ skb[s] # None
  BY <1>0, FrameFacts, SkbAssumption
<1>3. LockInv' /\ Place' = "unlock" /\ pc' \in [Senders -> Labels]
  BY <1>0, HolderMoves DEF Labels
<1>4. SkbInv'
  BY <1>0, <1>2, HolderSkb DEF Labels, InFrame, Completing
<1>5. TypeOK'
  BY <1>0, <1>1, <1>3 DEF TypeOK, ring, dma
<1>6. RingInv'
  BY <1>0, <1>2, <1>3 DEF RingInv, Completing, ring
<1>7. FrameInv'
  BY <1>3 DEF FrameInv, InFrame
<1>8. EngineInv'
  BY <1>0, <1>2, <1>3 DEF EngineInv, Completing, Sent, ring, dma
<1>9. SentIntact' /\ Accounting'
  BY <1>0, <1>1 DEF SentIntact, Accounting, Freed, ring
<1> QED
  BY <1>3, <1>4, <1>5, <1>6, <1>7, <1>8, <1>9

\* The bits of a descriptor as __xpnet_skb_stat_enqueue writes it.
LEMMA WrittenBits ==
  ASSUME NEW n \in Nat, NEW d,
         d = [own |-> n # 0, err |-> FALSE, sop |-> n = 0, eop |-> FALSE]
  PROVE  (d.own <=> n # 0) /\ (d.sop <=> n = 0) /\ ~d.eop
<1>1. d.own <=> n # 0
  OBVIOUS
<1>2. d.sop <=> n = 0
  OBVIOUS
<1> QED
  BY <1>1, <1>2

\* A descriptor is written, and handed over unless it is the first.
LEMMA WriteStep ==
  ASSUME TxInv, NEW s \in Senders, WriteDesc(s)
  PROVE  TxInv'
<1> USE DEF TxInv
<1>0. pc[s] = "write" /\ pc[s] \in InFrame /\ "eop" \in Labels \ {"idle", "lock"} /\ "eop" \in InFrame
  BY DEF WriteDesc, InFrame, Labels
<1>1. /\ UNCHANGED <<trigger, active, head, tail, buf, dma, lock, skb, chead,
                     iter, attempt, rc, hist, calls>>
      /\ Advance(s, "eop")
  BY DEF WriteDesc
<1>2. /\ lock = s /\ Place = "write" /\ Held = skb[s]
      /\ head = NumDesc - 1 /\ tail = 0
      /\ k \in Idx /\ k \in Nat /\ skb[s].shards \in 1 .. NumDesc - 1 /\ k < skb[s].shards
      /\ skb[s].data \in Payloads
      /\ want' = [want EXCEPT ![k] = skb[s].data]
      /\ desc' = [desc EXCEPT ![k] =
                   [own |-> k # 0, err |-> FALSE, sop |-> k = 0, eop |-> FALSE]]
  BY <1>0, FrameFacts DEF WriteDesc
<1>3. /\ LockInv' /\ pc' \in [Senders -> Labels] /\ Held' = skb[s] /\ SkbInv'
      /\ k' \in Nat /\ k' < skb[s].shards
      /\ \/ k + 1 = skb[s].shards /\ k' = 0 /\ Place' = "eop"
         \/ k + 1 < skb[s].shards /\ k' = k + 1 /\ Place' = "write"
  BY <1>0, <1>1, AdvanceFacts
<1>d. /\ desc'[k].own <=> k # 0
      /\ desc'[k].sop <=> k = 0
      /\ ~desc'[k].eop
      /\ \A i \in Idx : i # k => desc'[i] = desc[i]
      /\ \A i \in Idx : want'[i] = IF i = k THEN skb[s].data ELSE want[i]
      /\ desc' \in [Idx -> Desc]
  <2>1. [own |-> k # 0, err |-> FALSE, sop |-> k = 0, eop |-> FALSE] \in Desc
    BY DEF Desc
  <2>2. desc'[k] = [own |-> k # 0, err |-> FALSE, sop |-> k = 0, eop |-> FALSE]
    BY <1>2 DEF TypeOK
  <2>3. /\ desc' \in [Idx -> Desc]
        /\ \A i \in Idx : i # k => desc'[i] = desc[i]
        /\ \A i \in Idx : want'[i] = IF i = k THEN skb[s].data ELSE want[i]
    BY <1>2, <2>1 DEF TypeOK
  <2> QED
    BY <1>2, <2>2, <2>3, WrittenBits
<1>w. /\ \A i \in Idx : Written(i) <=> i < k
      /\ \A i \in Idx : i < skb[s].shards => (Written(i)' <=> i <= k)
  BY <1>2, <1>3 DEF Written, Sent, Idx
<1>b. \A i \in Idx : i < skb[s].shards => buf[i] = skb[s].data
  BY <1>0, <1>2 DEF FrameInv
<1>4. TypeOK'
  <2>1. want' \in [Idx -> Payloads \cup {None}]
    BY <1>2 DEF TypeOK
  <2> QED
    BY <1>1, <1>3, <1>d, <2>1 DEF TypeOK, dma, hist
<1>5. RingInv'
  BY <1>1, <1>2, <1>3 DEF RingInv, Completing
<1>6. FrameInv'
  <2>1. \A i \in Idx : i < skb[s].shards /\ i <= k => want'[i] = skb[s].data
    BY <1>0, <1>2, <1>d, <1>w DEF FrameInv, Idx
  <2>2. \A i \in Idx : i < skb[s].shards /\ i > k => ~desc'[i].own
    BY <1>0, <1>2, <1>d DEF FrameInv, Idx
  <2>3. ~desc'[0].own
    BY <1>0, <1>2, <1>d, NumDescAssumption DEF FrameInv, Sent, Idx
  <2> QED
    BY <1>1, <1>2, <1>3, <1>b, <1>w, <2>1, <2>2, <2>3 DEF FrameInv, InFrame, Sent, Idx
<1>7. EngineInv'
  <2> SUFFICES ASSUME ~gaveUp PROVE EngineInv'
    BY <1>1 DEF EngineInv, hist
  <2>1. ~en /\ ~en'
    BY <1>1, <1>2 DEF EngineInv, Completing, dma
  <2>2. \A i \in Idx : /\ desc[i].own <=> i < skb[s].shards /\ i < k /\ i # 0
                       /\ i < skb[s].shards /\ i < k => (desc[i].sop <=> i = 0) /\ ~desc[i].eop
    BY <1>2, <1>w DEF EngineInv, Sent
  <2>3. \A i \in Idx : /\ desc'[i].own <=> i < skb[s].shards /\ i <= k /\ i # 0
                       /\ i < skb[s].shards /\ i <= k => (desc'[i].sop <=> i = 0) /\ ~desc'[i].eop
    BY <1>2, <1>d, <2>2 DEF Idx
  <2> QED
    BY <1>1, <1>3, <1>w, <2>1, <2>3 DEF EngineInv, Completing, Sent, hist
<1>8. SentIntact'
  BY <1>1, <1>2, <1>b, <1>d DEF SentIntact, hist
<1>9. Accounting'
  BY <1>1 DEF Accounting, hist
<1> QED
  BY <1>3, <1>4, <1>5, <1>6, <1>7, <1>8, <1>9

\* Setting one bit of a descriptor leaves the others.
LEMMA DescBits ==
  ASSUME NEW d \in Desc
  PROVE  /\ [d EXCEPT !.eop = TRUE] \in Desc
         /\ [d EXCEPT !.eop = TRUE].eop = TRUE
         /\ [d EXCEPT !.eop = TRUE].own = d.own
         /\ [d EXCEPT !.eop = TRUE].sop = d.sop
         /\ [d EXCEPT !.own = TRUE] \in Desc
         /\ [d EXCEPT !.own = TRUE].own = TRUE
         /\ [d EXCEPT !.own = TRUE].eop = d.eop
         /\ [d EXCEPT !.own = TRUE].sop = d.sop
         /\ [d EXCEPT !.own = FALSE] \in Desc
         /\ [d EXCEPT !.own = FALSE].own = FALSE
         /\ d.own \in BOOLEAN /\ d.sop \in BOOLEAN /\ d.eop \in BOOLEAN
BY DEF Desc

\* The last descriptor of the frame is marked.
LEMMA EopStep ==
  ASSUME TxInv, NEW s \in Senders, MarkEop(s)
  PROVE  TxInv'
<1> USE DEF TxInv
<1>0. /\ pc[s] = "eop" /\ pc[s] \in InFrame
      /\ UNCHANGED <<trigger, active, head, tail, buf, want, dma, lock, skb, loc, hist, calls>>
      /\ Goto(s, "publish")
  BY DEF MarkEop, InFrame
<1>1. /\ lock = s /\ Place = "eop" /\ Held = skb[s] /\ skb[s] \in Skb
      /\ head = NumDesc - 1 /\ tail = 0
      /\ skb[s].shards \in 1 .. NumDesc - 1
  BY <1>0, FrameFacts
<1> DEFINE e == skb[s].shards - 1
<1>2. e \in Idx /\ Slot(e) = e
  BY <1>1, NumDescAssumption, SlotIsIndex DEF Idx
<1>3. /\ desc' \in [Idx -> Desc]
      /\ desc'[e] = [desc[e] EXCEPT !.eop = TRUE]
      /\ \A i \in Idx : i # e => desc'[i] = desc[i]
  <2> DEFINE d == [desc[e] EXCEPT !.eop = TRUE]
  <2>1. desc' = [desc EXCEPT ![e] = d]
    BY <1>2 DEF MarkEop
  <2>2. desc \in [Idx -> Desc] /\ d \in Desc
    BY <1>2, DescBits DEF TypeOK
  <2> HIDE DEF d, e
  <2>3. desc' \in [Idx -> Desc] /\ desc'[e] = d /\ \A i \in Idx : i # e => desc'[i] = desc[i]
    BY <1>2, <2>1, <2>2
  <2> QED
    BY <2>3 DEF d
<1>4. /\ desc'[e].own = desc[e].own /\ desc'[e].sop = desc[e].sop /\ desc'[e].eop = TRUE
  BY <1>2, <1>3, DescBits DEF TypeOK
<1>5. LockInv' /\ Place' = "publish" /\ Held' = skb[s] /\ pc' \in [Senders -> Labels]
  BY <1>0, HolderMoves DEF Labels
<1>6. SkbInv'
  BY <1>0, <1>1, HolderSkb DEF Labels, InFrame, Completing
<1>7. TypeOK'
  BY <1>0, <1>3, <1>5 DEF TypeOK, dma, loc, hist
<1>8. RingInv'
  BY <1>0, <1>1, <1>5 DEF RingInv, Completing, loc
<1>o. \A i \in Idx : desc'[i].own = desc[i].own /\ desc'[i].sop = desc[i].sop
  BY <1>3, <1>4
<1>w. \A i \in Idx : Written(i) /\ Written(i)'
  BY <1>1, <1>5 DEF Written
<1>9. FrameInv'
  <2>1. /\ \A i \in Idx : i < skb[s].shards => buf[i] = skb[s].data /\ want[i] = skb[s].data
        /\ k = 0 /\ ~desc[0].own
    BY <1>0, <1>1, <1>w DEF FrameInv, Sent
  <2>2. ~desc'[0].own
    BY <1>o, <2>1, NumDescAssumption DEF Idx
  <2> QED
    BY <1>0, <1>1, <1>5, <2>1, <2>2 DEF FrameInv, InFrame, Sent, loc
<1>10. EngineInv'
  <2> SUFFICES ASSUME ~gaveUp PROVE EngineInv'
    BY <1>0 DEF EngineInv, hist
  <2>1. ~en /\ ~en'
    BY <1>0, <1>1 DEF EngineInv, Completing, dma
  <2>2. \A i \in Idx : /\ desc[i].own <=> i < skb[s].shards /\ i # 0
                       /\ i < skb[s].shards => (desc[i].sop <=> i = 0) /\ ~desc[i].eop
    BY <1>1, <1>w DEF EngineInv, Sent
  <2>3. \A i \in Idx : i < skb[s].shards => (desc'[i].eop <=> i = e)
    BY <1>2, <1>3, <1>4, <2>2
  <2> QED
    BY <1>0, <1>5, <1>w, <1>o, <2>1, <2>2, <2>3 DEF EngineInv, Completing, Sent, hist
<1>11. SentIntact' /\ Accounting'
  BY <1>0, <1>o DEF SentIntact, Accounting, hist
<1> QED
  BY <1>5, <1>6, <1>7, <1>8, <1>9, <1>10, <1>11

\* The first descriptor is handed over: its buffer holds the frame's data.
LEMMA PublishStep ==
  ASSUME TxInv, NEW s \in Senders, PublishFirst(s)
  PROVE  TxInv'
<1> USE DEF TxInv
<1>0. /\ pc[s] = "publish" /\ pc[s] \in InFrame
      /\ UNCHANGED <<trigger, active, head, tail, buf, want, dma, lock, skb, loc, hist, calls>>
      /\ Goto(s, "cdp")
  BY DEF PublishFirst, InFrame
<1>1. /\ lock = s /\ Place = "publish" /\ Held = skb[s] /\ skb[s] \in Skb
      /\ head = NumDesc - 1 /\ tail = 0
      /\ skb[s].shards \in 1 .. NumDesc - 1
  BY <1>0, FrameFacts
<1>2. 0 \in Idx
  BY NumDescAssumption DEF Idx
<1>3. /\ desc' \in [Idx -> Desc]
      /\ desc'[0] = [desc[0] EXCEPT !.own = TRUE]
      /\ \A i \in Idx : i # 0 => desc'[i] = desc[i]
  <2> DEFINE d == [desc[0] EXCEPT !.own = TRUE]
  <2>1. desc' = [desc EXCEPT ![0] = d]
    BY <1>1 DEF PublishFirst
  <2>2. desc \in [Idx -> Desc] /\ d \in Desc
    BY <1>2, DescBits DEF TypeOK
  <2> HIDE DEF d
  <2>3. desc' \in [Idx -> Desc] /\ desc'[0] = d /\ \A i \in Idx : i # 0 => desc'[i] = desc[i]
    BY <1>2, <2>1, <2>2
  <2> QED
    BY <2>3 DEF d
<1>4. /\ desc'[0].own = TRUE /\ desc'[0].sop = desc[0].sop /\ desc'[0].eop = desc[0].eop
  BY <1>2, <1>3, DescBits DEF TypeOK
<1>5. LockInv' /\ Place' = "cdp" /\ Held' = skb[s] /\ pc' \in [Senders -> Labels]
  BY <1>0, HolderMoves DEF Labels
<1>6. SkbInv'
  BY <1>0, <1>1, HolderSkb DEF Labels, InFrame, Completing
<1>7. TypeOK'
  BY <1>0, <1>3, <1>5 DEF TypeOK, dma, loc, hist
<1>8. RingInv'
  BY <1>0, <1>1, <1>5 DEF RingInv, Completing, loc
<1>w. \A i \in Idx : Written(i) /\ Written(i)'
  BY <1>1, <1>5 DEF Written, Sent
<1>f. /\ \A i \in Idx : i < skb[s].shards => buf[i] = skb[s].data /\ want[i] = skb[s].data
      /\ k = 0
  BY <1>0, <1>1, <1>w DEF FrameInv, Sent
<1>9. FrameInv'
  BY <1>0, <1>1, <1>5, <1>f DEF FrameInv, InFrame, Sent, loc
<1>10. EngineInv'
  <2> SUFFICES ASSUME ~gaveUp PROVE EngineInv'
    BY <1>0 DEF EngineInv, hist
  <2>1. ~en /\ ~en'
    BY <1>0, <1>1 DEF EngineInv, Completing, dma
  <2>2. \A i \in Idx : /\ desc[i].own <=> i < skb[s].shards /\ i # 0
                       /\ i < skb[s].shards => /\ desc[i].sop <=> i = 0
                                               /\ desc[i].eop <=> i = skb[s].shards - 1
    BY <1>1, <1>w DEF EngineInv, Sent
  <2>3. \A i \in Idx : /\ desc'[i].own <=> i < skb[s].shards
                       /\ i < skb[s].shards => /\ desc'[i].sop <=> i = 0
                                               /\ desc'[i].eop <=> i = skb[s].shards - 1
    <3>1. ASSUME NEW i \in Idx, i # 0
          PROVE  /\ desc'[i].own <=> i < skb[s].shards
                 /\ i < skb[s].shards => /\ desc'[i].sop <=> i = 0
                                         /\ desc'[i].eop <=> i = skb[s].shards - 1
      BY <1>3, <2>2, <3>1
    <3>2. /\ desc'[0].own /\ 0 < skb[s].shards
          /\ desc'[0].sop
          /\ desc'[0].eop <=> 0 = skb[s].shards - 1
      BY <1>1, <1>2, <1>4, <2>2
    <3> QED
      BY <3>1, <3>2
  <2> QED
    BY <1>0, <1>5, <1>w, <2>1, <2>3 DEF EngineInv, Completing, Sent, hist
<1>11. SentIntact'
  <2>1. buf'[0] = want'[0]
    BY <1>0, <1>1, <1>2, <1>f
  <2> QED
    BY <1>0, <1>3, <2>1 DEF SentIntact, hist
<1>12. Accounting'
  BY <1>0 DEF Accounting, hist
<1> QED
  BY <1>5, <1>6, <1>7, <1>8, <1>9, <1>10, <1>11, <1>12

\* The engine, if it is stopped, is pointed at the frame.
LEMMA CdpStep ==
  ASSUME TxInv, NEW s \in Senders, SetCdp(s)
  PROVE  TxInv'
<1> USE DEF TxInv
<1>0. /\ pc[s] = "cdp" /\ pc[s] \in InFrame
      /\ UNCHANGED <<trigger, active, ring, en, lock, skb, loc, hist, calls>>
      /\ cdp' = tail
      /\ Goto(s, "enable")
  BY DEF SetCdp, InFrame
<1>1. /\ lock = s /\ Place = "cdp" /\ Held = skb[s] /\ skb[s] \in Skb
      /\ head = NumDesc - 1 /\ tail = 0
      /\ skb[s].shards \in 1 .. NumDesc - 1
  BY <1>0, FrameFacts
<1>5. LockInv' /\ Place' = "enable" /\ Held' = skb[s] /\ pc' \in [Senders -> Labels]
  BY <1>0, HolderMoves DEF Labels
<1>6. SkbInv'
  BY <1>0, <1>1, HolderSkb DEF Labels, InFrame, Completing
<1>7. TypeOK'
  BY <1>0, <1>5 DEF TypeOK, ring, loc, hist
<1>8. RingInv'
  BY <1>0, <1>1, <1>5 DEF RingInv, Completing, loc, ring
<1>w. \A i \in Idx : Written(i) /\ Written(i)'
  BY <1>1, <1>5 DEF Written, Sent
<1>9. FrameInv'
  BY <1>0, <1>1, <1>5, <1>w DEF FrameInv, InFrame, Sent, loc, ring
<1>10. EngineInv'
  BY <1>0, <1>1, <1>5, <1>w DEF EngineInv, Completing, Sent, hist, ring
<1>11. SentIntact' /\ Accounting'
  BY <1>0 DEF SentIntact, Accounting, hist, ring
<1> QED
  BY <1>5, <1>6, <1>7, <1>8, <1>9, <1>10, <1>11

\* The engine is started; tail moves to the end of the frame.
LEMMA EnableStep ==
  ASSUME TxInv, NEW s \in Senders, EnableQueue(s)
  PROVE  TxInv'
<1> USE DEF TxInv
<1>0. /\ pc[s] = "enable" /\ pc[s] \in InFrame
      /\ UNCHANGED <<trigger, active, head, desc, buf, want, cdp, lock, k, chead, iter,
                     attempt, gaveUp, calls>>
      /\ en' = TRUE /\ skb' = [skb EXCEPT ![s] = None] /\ rc' = "OK" /\ freed' = freed + 1
      /\ exact' \in {exact, FALSE}
      /\ Goto(s, "complete")
  BY DEF EnableQueue, InFrame
<1>1. /\ lock = s /\ Place = "enable" /\ Held = skb[s] /\ skb[s] \in Skb
      /\ head = NumDesc - 1 /\ tail = 0
      /\ skb[s].shards \in 1 .. NumDesc - 1
  BY <1>0, FrameFacts
<1>2. tail' = skb[s].shards /\ tail' \in Idx
  BY <1>1, TailIsLength, NumDescAssumption DEF EnableQueue, Idx
<1>3. stats' \in Counters /\ Freed(stats') = Freed(stats) + 1 /\ Freed(stats) \in Int
  BY StatsStep DEF EnableQueue, TypeOK
<1>5. LockInv' /\ Place' = "complete" /\ pc' \in [Senders -> Labels]
  BY <1>0, HolderMoves DEF Labels
<1>6. SkbInv'
  BY <1>0, <1>1, HolderSkb DEF Labels, InFrame, Completing, TypeOK
<1>7. TypeOK'
  <2>1. skb' \in [Senders -> Skb \cup {None}] /\ freed' \in Nat
    BY <1>0 DEF TypeOK
  <2>2. exact' \in BOOLEAN
    BY <1>0, Zenon DEF TypeOK
  <2>3. /\ UNCHANGED <<trigger, active, head, desc, buf, want, cdp, lock, k, chead, iter,
                       attempt, gaveUp, calls>>
        /\ en' = TRUE /\ rc' = "OK"
    BY <1>0
  <2> QED
    BY <1>2, <1>3, <1>5, <2>1, <2>2, <2>3 DEF TypeOK
<1>8. RingInv'
  BY <1>0, <1>1, <1>5 DEF RingInv, Completing
<1>9. FrameInv'
  BY <1>5 DEF FrameInv, InFrame
<1>10. EngineInv'
  <2> SUFFICES ASSUME ~gaveUp PROVE EngineInv'
    BY <1>0 DEF EngineInv
  <2>1. \A i \in Idx : Written(i)
    BY <1>1 DEF Written, Sent
  <2>2. \A i \in Idx : /\ desc[i].own <=> i < skb[s].shards
                       /\ i < skb[s].shards => /\ desc[i].sop <=> i = 0
                                               /\ desc[i].eop <=> i = skb[s].shards - 1
    BY <1>1, <2>1 DEF EngineInv, Sent
  <2>3. cdp = 0
    BY <1>1 DEF EngineInv
  <2> QED
    BY <1>0, <1>1, <1>2, <1>5, <2>2, <2>3 DEF EngineInv, Completing, Sent
<1>11. SentIntact' /\ Accounting'
  BY <1>0, <1>3 DEF SentIntact, Accounting, Freed
<1> QED
  BY <1>5, <1>6, <1>7, <1>8, <1>9, <1>10, <1>11

----------------------------------------------------------------------------
(* Steps of xpnet_tx_complete.                                             *)

\* The loop of xpnet_tx_complete starts before the first descriptor of the frame.
LEMMA BeginStep ==
  ASSUME TxInv, NEW s \in Senders, CompleteBegin(s)
  PROVE  TxInv'
<1> USE DEF TxInv
<1>0. /\ pc[s] = "complete" /\ chead' = head /\ iter' = xpnet_get_busy_desc /\ Goto(s, "next")
      /\ UNCHANGED <<trigger, active, ring, dma, lock, skb, k, attempt, rc, hist, calls>>
  BY DEF CompleteBegin
<1>1. lock = s /\ Place = "complete" /\ head = NumDesc - 1 /\ skb[s] = None /\ rc = "OK"
  BY <1>0, IsHolder DEF RingInv, SkbInv, Completing
<1>2. xpnet_get_busy_desc = tail /\ head \in Idx /\ tail \in Idx /\ tail \in Nat
  BY <1>1, BusyIsTail DEF TypeOK, Idx
<1>3. LockInv' /\ Place' = "next" /\ pc' \in [Senders -> Labels]
  BY <1>0, HolderMoves DEF Labels
<1>4. SkbInv'
  BY <1>0, <1>1, HolderSkb DEF Labels, InFrame, Completing
<1>5. TypeOK'
  BY <1>0, <1>2, <1>3 DEF TypeOK, ring, dma, hist
<1>6. NextHead' = 0
  BY <1>0, <1>1, <1>2, WrapNext DEF NextHead
<1>7. RingInv'
  BY <1>0, <1>2, <1>3, <1>6 DEF RingInv, Completing, ring, Idx
<1>8. FrameInv'
  BY <1>3 DEF FrameInv, InFrame
<1>9. EngineInv'
  BY <1>0, <1>1, <1>3, <1>6 DEF EngineInv, Completing, Sent, ring, dma, hist, Idx
<1>10. SentIntact' /\ Accounting'
  BY <1>0 DEF SentIntact, Accounting, ring, hist
<1> QED
  BY <1>3, <1>4, <1>5, <1>7, <1>8, <1>9, <1>10

\* At the top of the loop the next descriptor is chosen.
LEMMA NextStep ==
  ASSUME TxInv, NEW s \in Senders, CompleteNext(s)
  PROVE  TxInv'
<1> USE DEF TxInv
<1>0. /\ pc[s] = "next" /\ iter > 0 /\ NextHead # tail /\ chead' = NextHead /\ attempt' = 0
      /\ Goto(s, "poll")
      /\ UNCHANGED <<trigger, active, ring, dma, lock, skb, k, iter, rc, hist, calls>>
  BY DEF CompleteNext
<1>1. /\ lock = s /\ Place = "next" /\ skb[s] = None /\ rc = "OK"
      /\ chead = head /\ NextHead <= tail /\ iter = tail - NextHead
  BY <1>0, IsHolder DEF RingInv, SkbInv, Completing
<1>2. NextHead \in Idx /\ NextHead < tail
  BY <1>0, <1>1, WrapNext, NumDescAssumption DEF NextHead, TypeOK, Idx
<1>3. LockInv' /\ Place' = "poll" /\ pc' \in [Senders -> Labels]
  BY <1>0, HolderMoves DEF Labels
<1>4. SkbInv'
  BY <1>0, <1>1, HolderSkb DEF Labels, InFrame, Completing
<1>5. TypeOK'
  BY <1>0, <1>2, <1>3 DEF TypeOK, ring, dma, hist
<1>7. RingInv'
  BY <1>0, <1>1, <1>2, <1>3 DEF RingInv, Completing, ring, NextHead
<1>8. FrameInv'
  BY <1>3 DEF FrameInv, InFrame
<1>9. EngineInv'
  BY <1>0, <1>1, <1>3 DEF EngineInv, Completing, Sent, ring, dma, hist
<1>10. SentIntact' /\ Accounting'
  BY <1>0 DEF SentIntact, Accounting, ring, hist
<1> QED
  BY <1>3, <1>4, <1>5, <1>7, <1>8, <1>9, <1>10

\* The loop ends: either all descriptors of the frame are done, or the driver
\* gives up on the engine.
LEMMA LeaveStep ==
  ASSUME TxInv, NEW s \in Senders, CompleteLeave(s) \/ PollGiveUp(s)
  PROVE  TxInv'
<1> USE DEF TxInv
<1>0. /\ pc[s] \in {"next", "poll"} /\ Goto(s, "rewind")
      /\ UNCHANGED <<trigger, active, ring, dma, lock, skb, loc, stats, exact, freed, calls>>
      /\ gaveUp' \in BOOLEAN
      /\ ~gaveUp' => ~gaveUp /\ pc[s] = "next" /\ iter = 0
  BY DEF CompleteLeave, PollGiveUp, TypeOK
<1>1. /\ lock = s /\ Place = pc[s] /\ skb[s] = None /\ rc = "OK"
  BY <1>0, IsHolder DEF SkbInv, Completing
<1>3. LockInv' /\ Place' = "rewind" /\ pc' \in [Senders -> Labels]
  BY <1>0, HolderMoves DEF Labels
<1>4. SkbInv'
  BY <1>0, <1>1, HolderSkb DEF Labels, InFrame, Completing, loc
<1>5. TypeOK'
  BY <1>0, <1>3 DEF TypeOK, ring, dma, loc
<1>7. RingInv'
  BY <1>3 DEF RingInv, Completing
<1>8. FrameInv'
  BY <1>3 DEF FrameInv, InFrame
<1>9. EngineInv'
  <2> SUFFICES ASSUME ~gaveUp' PROVE EngineInv'
    BY DEF EngineInv
  <2>1. Place = "next" /\ ~gaveUp /\ iter = 0
    BY <1>0, <1>1
  <2>2. NextHead \in Int /\ tail \in Int /\ cdp \in Idx /\ NextHead = tail
    BY <2>1, WrapNext, NumDescAssumption DEF RingInv, NextHead, TypeOK, Idx
  <2>3. \A i \in Idx : ~desc[i].own
    BY <2>1, <2>2 DEF EngineInv, Completing, Idx
  <2>4. ~en
    BY <2>1, <2>2, <2>3 DEF EngineInv, Completing, Idx
  <2> QED
    BY <1>0, <1>3, <2>3, <2>4 DEF EngineInv, Completing, Sent, ring, dma
<1>10. SentIntact'
  BY <1>0, Zenon DEF SentIntact, ring
<1>11. Accounting'
  BY <1>0 DEF Accounting
<1> QED
  BY <1>3, <1>4, <1>5, <1>7, <1>8, <1>9, <1>10, <1>11

\* The descriptor is still the engine's.
LEMMA PollStep ==
  ASSUME TxInv, NEW s \in Senders, PollAgain(s)
  PROVE  TxInv'
<1> USE DEF TxInv
<1>0. /\ UNCHANGED <<trigger, active, ring, dma, lock, pc, skb, k, chead, iter, rc, hist, calls>>
      /\ attempt' = attempt + 1
  BY DEF PollAgain
<1>1. Place' = Place /\ Held' = Held
  BY <1>0 DEF Place, Held
<1>2. TypeOK'
  BY <1>0 DEF TypeOK, ring, dma, hist
<1>3. LockInv' /\ SkbInv'
  BY <1>0 DEF LockInv, SkbInv
<1>4. RingInv'
  BY <1>0, <1>1 DEF RingInv, ring, NextHead
<1>5. FrameInv'
  BY <1>0, <1>1 DEF FrameInv, ring, Written
<1>6. EngineInv'
  BY <1>0, <1>1 DEF EngineInv, ring, dma, hist, Written, NextHead
<1>7. SentIntact' /\ Accounting'
  BY <1>0 DEF SentIntact, Accounting, ring, hist
<1> QED
  BY <1>2, <1>3, <1>4, <1>5, <1>6, <1>7

\* The engine has given the descriptor back.
LEMMA PollDoneStep ==
  ASSUME TxInv, NEW s \in Senders, PollDone(s)
  PROVE  TxInv'
<1> USE DEF TxInv
<1>0. /\ pc[s] = "poll" /\ ~desc[chead].own /\ Goto(s, "next")
      /\ head' = xpnet_add_and_wrap(head, 1, NumDesc) /\ iter' = iter - 1
      /\ UNCHANGED <<trigger, active, tail, desc, buf, want, dma, lock, skb, k,
                     chead, attempt, rc, hist, calls>>
  BY DEF PollDone
<1>1. /\ lock = s /\ Place = "poll" /\ skb[s] = None /\ rc = "OK"
      /\ chead = xpnet_add_and_wrap(head, 1, NumDesc) /\ chead < tail /\ iter = tail - chead
  BY <1>0, IsHolder DEF RingInv, SkbInv, Completing
<1>2. chead \in Idx /\ tail \in Idx /\ head' = chead
  BY <1>0, <1>1 DEF TypeOK
<1>3. LockInv' /\ Place' = "next" /\ pc' \in [Senders -> Labels]
  BY <1>0, HolderMoves DEF Labels
<1>4. SkbInv'
  BY <1>0, <1>1, HolderSkb DEF Labels, InFrame, Completing
<1>5. iter' \in Nat /\ NextHead' = chead + 1 /\ iter' = tail - NextHead' /\ NextHead' <= tail
  <2>1. NextHead = IF chead = NumDesc - 1 THEN 0 ELSE chead + 1
    BY <1>2, WrapNext DEF NextHead
  <2>2. NextHead = chead + 1
    BY <1>1, <1>2, <2>1, NumDescAssumption DEF Idx
  <2>3. NextHead' = NextHead
    BY <1>0 DEF NextHead
  <2> QED
    BY <1>0, <1>1, <1>2, <2>2, <2>3, NumDescAssumption DEF Idx
<1>6. TypeOK'
  BY <1>0, <1>2, <1>3, <1>5 DEF TypeOK, dma, hist
<1>7. RingInv'
  BY <1>0, <1>2, <1>3, <1>5 DEF RingInv, Completing
<1>8. FrameInv'
  BY <1>3 DEF FrameInv, InFrame
<1>9. EngineInv'
  <2> SUFFICES ASSUME ~gaveUp PROVE EngineInv'
    BY <1>0 DEF EngineInv, hist
  <2>1. \A i \in Idx : desc[i].own => i < tail /\ i >= chead + 1
    BY <1>0, <1>1, <1>2 DEF EngineInv, Completing, Idx
  <2> QED
    BY <1>0, <1>1, <1>3, <1>5, <2>1 DEF EngineInv, Completing, Sent, dma, hist
<1>10. SentIntact' /\ Accounting'
  BY <1>0 DEF SentIntact, Accounting, hist
<1> QED
  BY <1>3, <1>4, <1>6, <1>7, <1>8, <1>9, <1>10

\* The ring is rewound; if the driver did not give up the engine is idle.
LEMMA RewindStep ==
  ASSUME TxInv, NEW s \in Senders, Rewind(s)
  PROVE  TxInv'
<1> USE DEF TxInv
<1>0. /\ pc[s] = "rewind" /\ head' = NumDesc - 1 /\ tail' = 0 /\ Goto(s, "unlock")
      /\ UNCHANGED <<trigger, active, desc, buf, want, dma, lock, skb, loc, hist, calls>>
  BY DEF Rewind
<1>1. lock = s /\ Place = "rewind" /\ skb[s] = None /\ rc = "OK"
  BY <1>0, IsHolder DEF SkbInv
<1>3. LockInv' /\ Place' = "unlock" /\ pc' \in [Senders -> Labels]
  BY <1>0, HolderMoves DEF Labels
<1>4. SkbInv'
  BY <1>0, <1>1, HolderSkb DEF Labels, InFrame, Completing, loc
<1>5. TypeOK'
  BY <1>0, <1>3, NumDescAssumption DEF TypeOK, dma, loc, hist, Idx
<1>7. RingInv'
  BY <1>0, <1>3 DEF RingInv, Completing
<1>8. FrameInv'
  BY <1>3 DEF FrameInv, InFrame
<1>9. EngineInv'
  BY <1>0, <1>1, <1>3 DEF EngineInv, Completing, Sent, dma, hist
<1>10. SentIntact' /\ Accounting'
  BY <1>0 DEF SentIntact, Accounting, hist
<1> QED
  BY <1>3, <1>4, <1>5, <1>7, <1>8, <1>9, <1>10

----------------------------------------------------------------------------
(* Steps that leave the ring and the engine alone.                         *)

\* A step of the lock, or of a caller that does not hold it.
LEMMA RingKept ==
  ASSUME TxInv, UNCHANGED <<ring, dma, loc, hist>>,
         \/ Place \in {"free", "unlock"} /\ Place' \in {"free", "check"}
         \/ Place' = Place /\ (Place # "free" => Held' = Held)
  PROVE  RingInv' /\ FrameInv' /\ EngineInv' /\ SentIntact' /\ Accounting'
<1> USE DEF TxInv
<1>1. SentIntact' /\ Accounting'
  BY DEF SentIntact, Accounting, ring, hist
<1>2. CASE Place \in {"free", "unlock"} /\ Place' \in {"free", "check"}
  <2>1. RingInv'
    BY <1>2 DEF RingInv, ring, Completing
  <2>2. FrameInv'
    BY <1>2 DEF FrameInv, InFrame
  <2>3. EngineInv'
    BY <1>2 DEF EngineInv, ring, dma, hist, Completing, Sent
  <2> QED
    BY <1>1, <2>1, <2>2, <2>3
<1>3. CASE Place' = Place /\ (Place # "free" => Held' = Held)
  <2>1. RingInv'
    BY <1>3 DEF RingInv, ring, loc, NextHead
  <2>2. FrameInv'
    BY <1>3 DEF FrameInv, InFrame, ring, loc, Written
  <2>3. EngineInv'
    <3>1. CASE Place = "free"
      BY <1>3, <3>1 DEF EngineInv, ring, dma, hist, Completing, Sent
    <3>2. CASE Place # "free"
      BY <1>3, <3>2 DEF EngineInv, ring, dma, loc, hist, Written, NextHead
    <3> QED
      BY <3>1, <3>2
  <2> QED
    BY <1>1, <2>1, <2>2, <2>3
<1> QED
  BY <1>2, <1>3

\* A caller enters: it waits for the lock, or its skb is freed at once.
LEMMA StartStep ==
  ASSUME TxInv, NEW s \in Senders, StartXmit(s)
  PROVE  TxInv'
<1> USE DEF TxInv
<1>0. /\ pc[s] = "idle" /\ calls' = calls + 1
      /\ UNCHANGED <<trigger, active, ring, dma, lock, loc, hist>>
  BY DEF StartXmit
<1>1. PICK b \in Skb : skb' = [skb EXCEPT ![s] = IF trigger THEN b ELSE None]
  BY DEF StartXmit
<1>2. PICK l \in {"lock", "idle"} : Goto(s, l) /\ (l = "lock" => trigger)
  BY DEF StartXmit
<1>3. /\ \A t \in Senders : pc'[t] = IF t = s THEN l ELSE pc[t]
      /\ \A t \in Senders \ {s} : skb'[t] = skb[t]
      /\ l = "lock" => skb'[s] = b
      /\ pc' \in [Senders -> Labels] /\ skb' \in [Senders -> Skb \cup {None}]
  BY <1>1, <1>2 DEF TypeOK, Goto, Labels
<1>4. lock # s
  BY <1>0 DEF LockInv
<1>5. TypeOK'
  BY <1>0, <1>3 DEF TypeOK, ring, dma, loc, hist
<1>6. LockInv'
  BY <1>0, <1>3 DEF LockInv
<1>7. SkbInv'
  BY <1>0, <1>3 DEF SkbInv, InFrame, Completing, loc
<1>8. Place' = Place /\ (Place # "free" => Held' = Held)
  BY <1>0, <1>3, <1>4 DEF Place, Held
<1> QED
  BY <1>0, <1>5, <1>6, <1>7, <1>8, RingKept

\* The spinlock is free and one of the waiting calls gets it.
LEMMA AcquireStep ==
  ASSUME TxInv, NEW s \in Senders, AcquireTx(s)
  PROVE  TxInv'
<1> USE DEF TxInv
<1>0. /\ pc[s] = "lock" /\ lock = None /\ lock' = s /\ Goto(s, "check")
      /\ UNCHANGED <<trigger, active, ring, dma, skb, loc, hist, calls>>
  BY DEF AcquireTx
<1>1. \A t \in Senders : pc'[t] = IF t = s THEN "check" ELSE pc[t]
  BY <1>0 DEF TypeOK, Goto
<1>2. pc' \in [Senders -> Labels]
  BY <1>0 DEF TypeOK, Goto, Labels
<1>3. Place = "free" /\ Place' = "check" /\ \A t \in Senders : pc[t] \in {"idle", "lock"}
  BY <1>0, <1>1, ActorAssumption DEF Place, LockInv
<1>4. TypeOK'
  BY <1>0, <1>2 DEF TypeOK, ring, dma, loc, hist
<1>5. LockInv'
  BY <1>0, <1>1, <1>3 DEF LockInv
<1>6. SkbInv'
  BY <1>0, <1>1 DEF SkbInv, InFrame, Completing, loc
<1> QED
  BY <1>0, <1>3, <1>4, <1>5, <1>6, RingKept

\* xpnet_start_xmit returns.
LEMMA ReleaseStep ==
  ASSUME TxInv, NEW s \in Senders, ReleaseTx(s)
  PROVE  TxInv'
<1> USE DEF TxInv
<1>0. /\ pc[s] = "unlock" /\ lock' = None /\ skb' = [skb EXCEPT ![s] = None] /\ Goto(s, "idle")
      /\ UNCHANGED <<trigger, active, ring, dma, loc, hist, calls>>
  BY DEF ReleaseTx
<1>1. lock = s /\ Place = "unlock"
  BY <1>0, IsHolder
<1>2. /\ \A t \in Senders : pc'[t] = IF t = s THEN "idle" ELSE pc[t]
      /\ \A t \in Senders : skb'[t] = IF t = s THEN None ELSE skb[t]
      /\ pc' \in [Senders -> Labels] /\ skb' \in [Senders -> Skb \cup {None}]
  BY <1>0 DEF TypeOK, Goto, Labels
<1>3. Place' = "free" /\ \A t \in Senders : pc'[t] \in {"idle", "lock"}
  BY <1>0, <1>1, <1>2, ActorAssumption DEF Place, LockInv
<1>4. TypeOK'
  BY <1>0, <1>2 DEF TypeOK, ring, dma, loc, hist
<1>5. LockInv'
  BY <1>0, <1>3, ActorAssumption DEF LockInv
<1>6. SkbInv'
  BY <1>0, <1>2, <1>3 DEF SkbInv, InFrame, Completing, loc
<1> QED
  BY <1>0, <1>1, <1>3, <1>4, <1>5, <1>6, RingKept

\* A register access takes or gives back the lock, and is no call.
LEMMA RegStep ==
  ASSUME TxInv, NEW r \in RegUsers, RegLock(r) \/ RegUnlock(r)
  PROVE  TxInv'
<1> USE DEF TxInv
<1>0. /\ lock \notin Senders /\ lock' \notin Senders /\ lock' \in RegUsers \cup {None}
      /\ UNCHANGED <<trigger, active, ring, dma, pc, skb, loc, hist, calls>>
  BY ActorAssumption DEF RegLock, RegUnlock
<1>1. Place = "free" /\ Place' = "free"
  BY <1>0 DEF Place
<1>2. TypeOK'
  BY <1>0 DEF TypeOK, ring, dma, loc, hist
<1>3. LockInv'
  BY <1>0 DEF LockInv
<1>4. SkbInv'
  BY <1>0 DEF SkbInv, loc
<1> QED
  BY <1>0, <1>1, <1>2, <1>3, <1>4, RingKept

\* The DMA is declared usable, or nothing happens at all.
LEMMA EnableDmaStep ==
  ASSUME TxInv, EnableDma \/ UNCHANGED vars
  PROVE  TxInv'
<1> USE DEF TxInv
<1>0. /\ trigger' \in BOOLEAN
      /\ UNCHANGED <<active, ring, dma, lock, pc, skb, loc, hist, calls>>
  BY DEF EnableDma, vars, TypeOK
<1>1. Place' = Place /\ Held' = Held
  BY <1>0 DEF Place, Held
<1>2. TypeOK'
  BY <1>0 DEF TypeOK, ring, dma, loc, hist
<1>3. LockInv' /\ SkbInv'
  BY <1>0 DEF LockInv, SkbInv, loc
<1> QED
  BY <1>0, <1>1, <1>2, <1>3, RingKept

----------------------------------------------------------------------------
(* Steps of the DMA engine.                                                *)

\* The engine gives back the current descriptor and leaves the others alone.
LEMMA HwGivesBack ==
  ASSUME TypeOK, HwTransmit \/ HwError
  PROVE  /\ en /\ desc[cdp].own /\ cdp \in Idx
         /\ desc' \in [Idx -> Desc]
         /\ ~desc'[cdp].own
         /\ desc'[cdp].sop = desc[cdp].sop /\ desc'[cdp].eop = desc[cdp].eop
         /\ \A i \in Idx \ {cdp} : desc'[i] = desc[i]
         /\ UNCHANGED <<trigger, active, head, tail, buf, want, lock, pc, skb, loc, hist, calls>>
<1>0. /\ en /\ desc[cdp].own /\ cdp \in Idx /\ desc \in [Idx -> Desc]
      /\ UNCHANGED <<trigger, active, head, tail, buf, want, lock, pc, skb, loc, hist, calls>>
  BY DEF HwTransmit, HwError, TypeOK
<1>d. desc[cdp] \in Desc
  BY <1>0
<1>1. CASE HwTransmit
  <2> DEFINE d == [desc[cdp] EXCEPT !.own = FALSE]
  <2>1. desc' = [desc EXCEPT ![cdp] = d]
    BY <1>1 DEF HwTransmit
  <2>2. d \in Desc /\ ~d.own /\ d.sop = desc[cdp].sop /\ d.eop = desc[cdp].eop
    BY <1>d DEF Desc
  <2> HIDE DEF d
  <2> QED
    BY <1>0, <2>1, <2>2
<1>2. CASE HwError
  <2> DEFINE d == [desc[cdp] EXCEPT !.own = FALSE, !.err = TRUE]
  <2>1. desc' = [desc EXCEPT ![cdp] = d]
    BY <1>0, <1>2 DEF HwError
  <2>2. d \in Desc /\ ~d.own /\ d.sop = desc[cdp].sop /\ d.eop = desc[cdp].eop
    BY <1>d DEF Desc
  <2> HIDE DEF d
  <2> QED
    BY <1>0, <2>1, <2>2
<1> QED
  BY <1>1, <1>2

\* The engine works on: it goes to the next descriptor or stops.
LEMMA HwGoesOn ==
  ASSUME TypeOK, HwTransmit \/ HwError
  PROVE  /\ cdp' \in Idx /\ en' \in BOOLEAN
         /\ en' => ~desc[cdp].eop /\ cdp' = xpnet_add_and_wrap(cdp, 1, NumDesc)
<1>1. cdp \in Idx /\ desc[cdp] \in Desc /\ desc[cdp].eop \in BOOLEAN
  BY DEF TypeOK, Desc
<1>2. xpnet_add_and_wrap(cdp, 1, NumDesc) \in Idx
  BY <1>1, WrapNext, NumDescAssumption DEF Idx
<1> QED
  BY <1>1, <1>2 DEF HwTransmit, HwError

\* Whatever the engine does, the driver's invariant holds on.
LEMMA HwStep ==
  ASSUME TxInv, HwTransmit \/ HwError
  PROVE  TxInv'
<1> USE DEF TxInv
<1>1. /\ en /\ desc[cdp].own /\ cdp \in Idx /\ desc' \in [Idx -> Desc] /\ ~desc'[cdp].own
      /\ desc'[cdp].sop = desc[cdp].sop /\ desc'[cdp].eop = desc[cdp].eop
      /\ \A i \in Idx \ {cdp} : desc'[i] = desc[i]
      /\ UNCHANGED <<trigger, active, head, tail, buf, want, lock, pc, skb, loc, hist, calls>>
  BY HwGivesBack
<1>2. /\ cdp' \in Idx /\ en' \in BOOLEAN
      /\ en' => ~desc[cdp].eop /\ cdp' = xpnet_add_and_wrap(cdp, 1, NumDesc)
  BY HwGoesOn
<1>3. Place' = Place /\ Held' = Held /\ NextHead' = NextHead
  BY <1>1 DEF Place, Held, NextHead, loc
<1>4. \A i \in Idx : desc'[i].own => desc[i].own /\ i # cdp
  BY <1>1
<1>5. TypeOK'
  BY <1>1, <1>2 DEF TypeOK, loc, hist
<1>6. LockInv' /\ SkbInv'
  BY <1>1 DEF LockInv, SkbInv, loc
<1>7. RingInv'
  BY <1>1, <1>3 DEF RingInv, loc
<1>8. FrameInv'
  <2>1. 0 \in Idx
    BY NumDescAssumption DEF Idx
  <2> QED
    BY <1>1, <1>3, <1>4, <2>1 DEF FrameInv, Written, loc
<1>9. EngineInv'
  <2> SUFFICES ASSUME ~gaveUp PROVE EngineInv'
    BY <1>1 DEF EngineInv, hist
  <2>1. /\ Place \in Completing
        /\ cdp < tail
        /\ \A i \in Idx : cdp <= i /\ i < tail =>
             desc[i].own /\ (desc[i].eop <=> i = tail - 1) /\ (desc[i].sop => i = 0)
    BY <1>1 DEF EngineInv
  <2>2. en' => cdp' = cdp + 1 /\ cdp' < tail
    <3> SUFFICES ASSUME en' PROVE cdp' = cdp + 1 /\ cdp' < tail
      OBVIOUS
    <3>1. cdp # tail - 1
      BY <1>1, <1>2, <2>1 DEF Idx
    <3> QED
      BY <1>1, <1>2, <2>1, <3>1, WrapNext, NumDescAssumption DEF Idx, TypeOK
  <2>3. \A i \in Idx : desc'[i].own =>
          i < tail /\ (Place = "next" => i >= NextHead) /\ (Place = "poll" => i >= chead)
    BY <1>4, <2>1 DEF EngineInv
  <2>4. en' => \A i \in Idx : cdp' <= i /\ i < tail =>
                 desc'[i].own /\ (desc'[i].eop <=> i = tail - 1) /\ (desc'[i].sop => i = 0)
    BY <1>1, <2>1, <2>2 DEF Idx
  <2> QED
    BY <1>1, <1>3, <2>1, <2>2, <2>3, <2>4 DEF EngineInv, Completing, Sent, loc
<1>10. SentIntact' /\ Accounting'
  BY <1>1, <1>4 DEF SentIntact, Accounting, hist
<1> QED
  BY <1>5, <1>6, <1>7, <1>8, <1>9, <1>10

----------------------------------------------------------------------------
(* The invariant.                                                          *)

\* xpnet_tx_queue_init sets up a ring in which nothing is the engine's.
LEMMA InvInit == Init => TxInv
<1> SUFFICES ASSUME Init PROVE TxInv
  OBVIOUS
<1>1. \A i \in Idx : desc[i].own = FALSE
  BY DEF Init
<1>2. Place = "free"
  BY ActorAssumption DEF Init, Place
<1>3. TypeOK
  <2>1. desc \in [Idx -> Desc]
    BY DEF Init, Desc
  <2>2. stats \in Counters
    BY DEF Init, Counters
  <2>3. head \in Idx /\ tail \in Idx /\ cdp \in Idx /\ chead \in Idx
    BY NumDescAssumption DEF Init, Idx
  <2> QED
    BY <2>1, <2>2, <2>3 DEF Init, TypeOK, Labels
<1>4. LockInv
  BY ActorAssumption DEF Init, LockInv
<1>5. SkbInv
  BY DEF Init, SkbInv, InFrame, Completing
<1>6. RingInv
  BY <1>2 DEF Init, RingInv, Completing
<1>7. FrameInv
  BY <1>2 DEF FrameInv, InFrame
<1>8. EngineInv
  BY <1>1, <1>2 DEF Init, EngineInv, Completing, Sent
<1>9. SentIntact
  BY <1>1 DEF SentIntact
<1>10. Accounting
  BY DEF Init, Accounting
<1> QED
  BY <1>3, <1>4, <1>5, <1>6, <1>7, <1>8, <1>9, <1>10 DEF TxInv

\* Every step of a call, of a register access and of the engine preserves it.
LEMMA InvNext == TxInv /\ [Next]_vars => TxInv'
<1> SUFFICES ASSUME TxInv, [Next]_vars PROVE TxInv'
  OBVIOUS
<1>1. CASE EnableDma \/ UNCHANGED vars
  BY <1>1, EnableDmaStep
<1>2. ASSUME NEW s \in Senders, StartXmit(s) \/ AcquireTx(s) \/ XmitStep(s)
      PROVE  TxInv'
  <2>1. CASE StartXmit(s) \/ AcquireTx(s) \/ ReleaseTx(s)
    BY <2>1, StartStep, AcquireStep, ReleaseStep
  <2>2. CASE DropSkb(s) \/ RefuseSkb(s) \/ AcceptSkb(s)
    BY <2>2, DropStep, RefuseStep, AcceptStep
  <2>3. CASE CopyShard(s)
    BY <2>3, CopyStep
  <2>4. CASE VerifyShard(s) \/ VerifyBusy(s) \/ VerifyError(s)
    BY <2>4, VerifyStep, VerifyFails
  <2>5. CASE WriteDesc(s) \/ MarkEop(s) \/ PublishFirst(s)
    BY <2>5, WriteStep, EopStep, PublishStep
  <2>6. CASE SetCdp(s) \/ EnableQueue(s)
    BY <2>6, CdpStep, EnableStep
  <2>7. CASE CompleteBegin(s) \/ CompleteNext(s) \/ CompleteLeave(s)
    BY <2>7, BeginStep, NextStep, LeaveStep
  <2>8. CASE PollAgain(s) \/ PollGiveUp(s) \/ PollDone(s)
    BY <2>8, PollStep, LeaveStep, PollDoneStep
  <2>9. CASE Rewind(s)
    BY <2>9, RewindStep
  <2> QED
    BY <1>2, <2>1, <2>2, <2>3, <2>4, <2>5, <2>6, <2>7, <2>8, <2>9 DEF XmitStep
<1>3. ASSUME NEW r \in RegUsers, RegLock(r) \/ RegUnlock(r)
      PROVE  TxInv'
  BY <1>3, RegStep
<1>4. CASE Hw
  BY <1>4, HwStep DEF Hw
<1> QED
  BY <1>1, <1>2, <1>3, <1>4 DEF Next

\* The TX path of xp_netdev_core.c never leaves the invariant, however the
\* calls, the register accesses and the engine interleave.
THEOREM Invariance == Spec => []TxInv
BY InvInit, InvNext, PTL DEF Spec

----------------------------------------------------------------------------
(* What follows from it.                                                   *)

\* The variables of the TX path keep their ranges: no index leaves the ring.
THEOREM TypeCorrect == Spec => []TypeOK
<1>1. TxInv => TypeOK
  BY DEF TxInv
<1> QED
  BY <1>1, Invariance, PTL

\* The "CORRUPTION" test of xpnet_hard_start_xmit never hits: a frame that is
\* copied into the ring fits it.
THEOREM CorruptionFree == Spec => []NoCorruption
<1>1. TxInv => NoCorruption
  <2> SUFFICES ASSUME TxInv, NEW s \in Senders, pc[s] \in InFrame
               PROVE  skb[s].shards <= xpnet_get_free_desc /\ k < skb[s].shards
    BY DEF NoCorruption
  <2>1. /\ head = NumDesc - 1 /\ tail = 0
        /\ skb[s].shards \in 1 .. NumDesc - 1 /\ k < skb[s].shards
    BY FrameFacts
  <2>2. xpnet_get_free_desc = NumDesc - 1
    BY <2>1, BusyIsTail, NumDescAssumption DEF Idx
  <2> QED
    BY <2>1, <2>2, NumDescAssumption
<1> QED
  BY <1>1, Invariance, PTL

\* xpnet_tx_complete leaves a rewound ring to the next call, after a timeout
\* and after an error of the engine too.
THEOREM AlwaysRewound == Spec => []RewoundBetweenCalls
<1>1. TxInv => RewoundBetweenCalls
  <2> SUFFICES ASSUME TxInv, lock \notin Senders
               PROVE  head = NumDesc - 1 /\ tail = 0 /\ xpnet_get_free_desc = NumDesc - 1
    BY DEF RewoundBetweenCalls
  <2>1. head = NumDesc - 1 /\ tail = 0
    BY DEF TxInv, RingInv, Place, Completing
  <2> QED
    BY <2>1, BusyIsTail, NumDescAssumption DEF Idx
<1> QED
  BY <1>1, Invariance, PTL

\* An engine that is enabled on a descriptor it owns finds the rest of the
\* frame, up to and including EOP.
THEOREM FrameIsWhole == Spec => []WholeFrame
<1>1. TxInv => WholeFrame
  <2> SUFFICES ASSUME TxInv, ~gaveUp, en, desc[cdp].own
               PROVE  \E e \in cdp .. NumDesc - 1 :
                        /\ desc[e].eop
                        /\ \A i \in cdp .. e : desc[i].own
                        /\ \A i \in cdp + 1 .. e : ~desc[i].sop
                        /\ \A i \in cdp .. e - 1 : ~desc[i].eop
    BY DEF WholeFrame
  <2>1. /\ cdp < tail
        /\ \A i \in Idx : cdp <= i /\ i < tail =>
             desc[i].own /\ (desc[i].eop <=> i = tail - 1) /\ (desc[i].sop => i = 0)
    BY DEF TxInv, EngineInv
  <2>2. cdp \in Idx /\ tail \in Idx
    BY DEF TxInv, TypeOK
  <2>3. tail - 1 \in cdp .. NumDesc - 1
    BY <2>1, <2>2, NumDescAssumption DEF Idx
  <2>4. /\ desc[tail - 1].eop
        /\ \A i \in cdp .. tail - 1 : desc[i].own
        /\ \A i \in cdp + 1 .. tail - 1 : ~desc[i].sop
        /\ \A i \in cdp .. (tail - 1) - 1 : ~desc[i].eop
    BY <2>1, <2>2, <2>3, NumDescAssumption DEF Idx
  <2> QED
    BY <2>3, <2>4
<1> QED
  BY <1>1, Invariance, PTL

\* A caller told NETDEV_TX_BUSY still has its skb, one told OK has not, and the
\* statistics of xpnet_hard_start_xmit account for every skb freed: each was sent
\* or dropped, and the aborted transmissions are drops that freed nothing.
THEOREM EverySkbAccounted == Spec => []SkbAccounted
<1>1. TxInv => BusyKeepsSkb
  BY DEF TxInv, SkbInv, BusyKeepsSkb
<1>2. TxInv => Accounting
  BY DEF TxInv
<1> QED
  BY <1>1, <1>2, Invariance, PTL DEF SkbAccounted

\* What the engine is given to send is what __xpnet_skb_stat_enqueue published:
\* in the first descriptor always, in the others as long as no completion loop
\* gave up on the engine.
THEOREM SentAsPublished == Spec => []SentIntact
<1>1. TxInv => SentIntact
  BY DEF TxInv
<1> QED
  BY <1>1, Invariance, PTL

\* A register access that holds tx_dma_read_lock meets no TX DMA, as long as
\* no completion loop gave up on the engine.
THEOREM RegAccessAlone == Spec => []RegAccessExclusive
<1>1. TxInv => RegAccessExclusive
  BY ActorAssumption DEF TxInv, EngineInv, Place, RegAccessExclusive
<1> QED
  BY <1>1, Invariance, PTL

\* __xpnet_skb_stat_enqueue never touches the content of a descriptor that is
\* the engine's, and its EOP bit only under a stopped engine, unless a
\* completion loop gave up on the engine before.
THEOREM OwnedStable == Spec => OwnedDescStable
<1>1. TxInv /\ [Next]_vars => [StableStep]_vars
  <2> SUFFICES ASSUME TxInv, Next PROVE StableStep
    OBVIOUS
  <2> USE DEF TxInv
  <2>t. desc \in [Idx -> Desc] /\ want \in [Idx -> Payloads \cup {None}]
    BY DEF TypeOK
  <2>1. CASE desc' = desc /\ want' = want
    BY <2>1 DEF StableStep
  <2>2. ASSUME NEW s \in Senders, WriteDesc(s) PROVE StableStep
    <3>1. pc[s] \in InFrame /\ pc[s] = "write"
      BY <2>2 DEF WriteDesc, InFrame
    <3>2. k \in Idx /\ Slot(k) = k /\ Place = "write" /\ Held = skb[s] /\ k < skb[s].shards
      BY <3>1, FrameFacts
    <3>3. ~desc[k].own
      BY <3>1, <3>2 DEF FrameInv, Idx
    <3>4. \A i \in Idx \ {k} : desc'[i] = desc[i] /\ want'[i] = want[i]
      BY <2>t, <2>2, <3>2 DEF WriteDesc
    <3> QED
      BY <3>3, <3>4 DEF StableStep
  <2>3. ASSUME NEW s \in Senders, MarkEop(s) PROVE StableStep
    <3>1. Place = "eop" /\ want' = want
      BY <2>3, IsHolder DEF MarkEop
    <3>2. ~en \/ gaveUp
      BY <3>1 DEF EngineInv, Completing
    <3> QED
      BY <3>1, <3>2 DEF StableStep
  <2>4. ASSUME NEW s \in Senders, PublishFirst(s) PROVE StableStep
    <3>1. tail = 0 /\ Place = "publish" /\ want' = want
      BY <2>4, FrameFacts DEF PublishFirst, InFrame
    <3>2. ~desc[0].own
      BY <3>1 DEF FrameInv, InFrame, Sent
    <3>3. \A i \in Idx \ {0} : desc'[i] = desc[i]
      BY <2>t, <2>4, <3>1 DEF PublishFirst
    <3> QED
      BY <3>1, <3>2, <3>3 DEF StableStep
  <2>5. CASE Hw
    BY <2>5, HwGivesBack DEF Hw, StableStep
  <2>6. ASSUME NEW s \in Senders, XmitStep(s),
               ~WriteDesc(s), ~MarkEop(s), ~PublishFirst(s)
        PROVE  desc' = desc /\ want' = want
    BY <2>6 DEF XmitStep, ring, DropSkb, RefuseSkb, AcceptSkb, CopyShard, VerifyShard,
       VerifyBusy, VerifyError, SetCdp, EnableQueue, CompleteBegin, CompleteNext,
       CompleteLeave, PollAgain, PollGiveUp, PollDone, Rewind, ReleaseTx
  <2>7. ASSUME NEW s \in Senders, StartXmit(s) \/ AcquireTx(s)
        PROVE  desc' = desc /\ want' = want
    BY <2>7 DEF StartXmit, AcquireTx, ring
  <2>8. ASSUME NEW r \in RegUsers, RegLock(r) \/ RegUnlock(r)
        PROVE  desc' = desc /\ want' = want
    BY <2>8 DEF RegLock, RegUnlock, ring
  <2>9. ASSUME EnableDma PROVE desc' = desc /\ want' = want
    BY <2>9 DEF EnableDma, ring
  <2> QED
    BY <2>1, <2>2, <2>3, <2>4, <2>5, <2>6, <2>7, <2>8, <2>9 DEF Next
<1> QED
  BY <1>1, Invariance, PTL DEF Spec, OwnedDescStable

=============================================================================
