---------------------------- MODULE XpnetRxProof ----------------------------
(***************************************************************************)
(* Proofs about XpnetRx, for any number of queues and descriptors and any  *)
(* faults of the engine.                                                   *)
(***************************************************************************)
EXTENDS XpnetRx, TLAPS

\* The wrap-around macro steps through the ring: i + 1, and 0 after the last.
LEMMA WrapNext ==
  \A i \in Idx : xpnet_add_and_wrap(i, 1, NumDesc)
                   = IF i = NumDesc - 1 THEN 0 ELSE i + 1
BY NumDescAssumption DEF Idx, xpnet_add_and_wrap

\* The number after a packet number is a packet number.
LEMMA NextSeqType == \A n \in Seq0 : NextSeq(n) \in Seq0
BY NumDescAssumption, SeqModAssumption DEF Seq0, NextSeq

\* The ranges of TypeOK hold initially.
LEMMA TypeInit == Init => TypeOK
<1>1. 0 \in Queues /\ 0 \in Idx /\ 0 \in Seq0
  BY NumQueuesAssumption, NumDescAssumption, SeqModAssumption
     DEF Queues, Idx, Seq0
<1>2. \A i \in Idx : i + 1 \in 0 .. NumDesc
  BY NumDescAssumption DEF Idx
<1> SUFFICES ASSUME Init PROVE TypeOK
  OBVIOUS
<1>3. /\ own \in [Queues -> [Idx -> BOOLEAN]]
      /\ err \in [Queues -> [Idx -> BOOLEAN]]
      /\ link \in [Queues -> [Idx -> 0 .. NumDesc]]
  BY <1>2 DEF Init
<1>4. pkt \in [Queues -> [Idx -> [num : Seq0, fits : BOOLEAN]]]
  BY <1>1 DEF Init
<1>5. /\ started \in 0 .. NumQueues
      /\ cdp \in [Queues -> 0 .. NumDesc]
  BY NumQueuesAssumption, NumDescAssumption DEF Init
<1>6. /\ tail \in [Queues -> Idx]
      /\ en \in [Queues -> BOOLEAN]
      /\ seq \in [Queues -> Seq0]
      /\ expect \in [Queues -> Seq0]
      /\ cur \in Queues /\ iter \in Idx /\ skb \in Seq0
      /\ pc \in Labels /\ trigger \in BOOLEAN
  BY <1>1 DEF Init, Labels
<1> QED
  BY <1>3, <1>4, <1>5, <1>6 DEF TypeOK

\* Every step of the driver and of the engine preserves the ranges.
LEMMA TypeNext == TypeOK /\ [Next]_vars => TypeOK'
<1> SUFFICES ASSUME TypeOK, [Next]_vars PROVE TypeOK'
  OBVIOUS
<1> USE NumQueuesAssumption, NumDescAssumption
<1>n. ASSUME NextQueue PROVE pc' \in Labels /\ cur' \in Queues /\ iter' \in Idx
  <2>1. cur \in Queues
    BY DEF TypeOK
  <2> QED
    BY <1>n, <2>1 DEF NextQueue, Labels, Queues, Idx
<1>z. 0 \in Queues /\ 0 \in Idx
  BY DEF Queues, Idx
<1>d. cur \in Queues /\ d \in Idx /\ d \in Int
  BY DEF TypeOK, d, Idx
<1>w. \A i \in Idx : xpnet_add_and_wrap(i, 1, NumDesc) \in Idx
  BY WrapNext DEF Idx
<1>s. Idx \subseteq 0 .. NumDesc
  BY DEF Idx
<1>r. ASSUME ResetDesc(cur, d)
      PROVE  /\ own' \in [Queues -> [Idx -> BOOLEAN]]
             /\ err' \in [Queues -> [Idx -> BOOLEAN]]
             /\ link' \in [Queues -> [Idx -> 0 .. NumDesc]]
             /\ pkt' = pkt /\ tail' = tail
  BY <1>r, <1>d, <1>w, <1>s DEF ResetDesc, TypeOK
<1>1. CASE StartQueue
  <2>1. started' \in 0 .. NumQueues
    BY <1>1 DEF StartQueue, TypeOK
  <2> QED
    BY <1>1, <2>1 DEF StartQueue, TypeOK, ring
<1>2. CASE SetTrigger
  BY <1>2 DEF SetTrigger, TypeOK, ring, hw
<1>3. CASE StartPass
  BY <1>3, <1>z DEF StartPass, TypeOK, ring, hw, Labels
<1>4. CASE DmaError
  BY <1>4, <1>n, <1>r DEF DmaError, TypeOK, hw
<1>5. CASE StillOwned
  BY <1>5, <1>n DEF StillOwned, TypeOK, ring, hw
<1>6. CASE SizeError
  BY <1>6, <1>n, <1>r DEF SizeError, TypeOK, hw
<1>7. CASE NoSkb
  BY <1>7, <1>n DEF NoSkb, TypeOK, ring, hw
<1>8. CASE CopyPacket
  BY <1>8, <1>d DEF CopyPacket, TypeOK, ring, hw, Labels
<1>9. CASE Recycle
  BY <1>9, <1>d, <1>w DEF Recycle, TypeOK, hw, Labels
<1>10. CASE SetCdp
  BY <1>10 DEF SetCdp, TypeOK, ring, Labels
<1>11. CASE EnableQueue
  BY <1>11 DEF EnableQueue, TypeOK, ring, Labels
<1>12. CASE Deliver
  <2>1. expect' \in [Queues -> Seq0]
    BY <1>12, NextSeqType DEF Deliver, TypeOK
  <2>2. pc' \in Labels /\ cur' \in Queues /\ iter' \in Idx
    BY <1>12, <1>n DEF Deliver, TypeOK, Labels, Idx
  <2> QED
    BY <1>12, <2>1, <2>2 DEF Deliver, TypeOK, ring, hw
<1>13. ASSUME NEW q \in Queues, HwFill(q) PROVE TypeOK'
  <2>1. cdp[q] \in Idx
    BY <1>13 DEF HwFill, CanFill, TypeOK, Idx, End
  <2>2. PICK fits \in BOOLEAN :
          pkt' = [pkt EXCEPT ![q][cdp[q]] = [num |-> seq[q], fits |-> fits]]
    BY <1>13 DEF HwFill
  <2>4. pkt' \in [Queues -> [Idx -> [num : Seq0, fits : BOOLEAN]]]
    BY <2>1, <2>2 DEF TypeOK
  <2>3. seq' \in [Queues -> Seq0]
    BY <1>13, NextSeqType DEF HwFill, TypeOK
  <2> QED
    BY <1>13, <2>1, <2>3, <2>4 DEF HwFill, TypeOK
<1>14. ASSUME NEW q \in Queues, HwError(q) PROVE TypeOK'
  <2>1. cdp[q] \in Idx
    BY <1>14 DEF HwError, CanFill, TypeOK, Idx, End
  <2> QED
    BY <1>14, <2>1 DEF HwError, TypeOK, hw
<1>15. CASE UNCHANGED vars
  BY <1>15 DEF vars, TypeOK, ring, hw
<1> QED
  BY <1>1, <1>2, <1>3, <1>4, <1>5, <1>6, <1>7, <1>8, <1>9, <1>10, <1>11,
     <1>12, <1>13, <1>14, <1>15 DEF Next, Work

\* Every variable of the receive path always stays in its range.
THEOREM TypeCorrect == Spec => []TypeOK
BY TypeInit, TypeNext, PTL DEF Spec

----------------------------------------------------------------------------

\* A step that leaves the ring of q alone, and before and after which the
\* work item holds no packet of q, preserves the invariant of q.
LEMMA Untouched ==
  ASSUME NEW q \in Queues, QueueInv(q), ~Holds(q), ~Holds(q)',
         own'[q] = own[q], err'[q] = err[q], pkt'[q] = pkt[q],
         tail'[q] = tail[q], cdp'[q] = cdp[q], en'[q] = en[q],
         seq'[q] = seq[q], expect'[q] = expect[q]
  PROVE  QueueInv(q)'
BY DEF QueueInv, Stalled, Flowing, Base

\* Initially every ring is empty and the engine's.
LEMMA InvInit == Init => RxInv
<1> SUFFICES ASSUME Init PROVE RxInv
  OBVIOUS
<1>1. TypeOK
  BY TypeInit
<1>2. ASSUME NEW q \in Queues PROVE QueueInv(q)
  <2>1. ~Holds(q)
    BY DEF Init, Holds, Holding
  <2>2. tail[q] = 0 /\ cdp[q] = 0 /\ ~en[q] /\ seq[q] = 0 /\ expect[q] = 0
    BY DEF Init
  <2>3. \A i \in Idx : own[q][i] /\ ~err[q][i] /\ ~(i < 0) /\ i \in Int
    BY DEF Init, Idx
  <2>4. Flowing(q)
    BY <2>1, <2>2, <2>3, NumDescAssumption DEF Flowing, Base
  <2> QED
    BY <2>1, <2>4 DEF QueueInv
<1>3. \A q \in Queues : /\ tail[q] = 0 /\ cdp[q] = 0 /\ ~en[q]
                        /\ \A i \in Idx : link[q][i] = i + 1
  BY DEF Init
<1>4. ~trigger /\ pc = "idle"
  BY DEF Init
<1> QED
  BY <1>1, <1>2, <1>3, <1>4 DEF RxInv

\* A pass never starts before all queues are started, so a step of the work
\* item on a queue finds them all started.
LEMMA AllStarted ==
  ASSUME RxInv, pc # "idle"
  PROVE  trigger /\ started = NumQueues /\ \A q \in Queues : ~(q >= started)
BY NumQueuesAssumption DEF RxInv, Queues

\* Going to the next queue, or ending the pass, leaves no packet held.
LEMMA NextQueueHolds == NextQueue => \A q \in Queues : ~Holds(q)'
BY DEF NextQueue, Holds, Holding

\* The steps of the work item that change no ring.
LEMMA InvIdleSteps ==
  ASSUME RxInv, StartPass \/ StillOwned \/ NoSkb PROVE RxInv'
<1>1. TypeOK'
  BY TypeNext DEF RxInv, Next, Work
<1>2. UNCHANGED <<started, trigger, ring, hw, expect>> /\ trigger
  BY AllStarted DEF StartPass, StillOwned, NoSkb, Filled
<1>3. \A q \in Queues : ~Holds(q) /\ ~Holds(q)'
  <2>1. CASE StartPass
    BY <2>1 DEF StartPass, Holds, Holding
  <2>2. CASE StillOwned \/ NoSkb
    BY <2>2, NextQueueHolds DEF StillOwned, NoSkb, Filled, Holds, Holding
  <2> QED
    BY <2>1, <2>2
<1>4. ASSUME NEW q \in Queues, ChainOpen(q)' PROVE QueueInv(q)'
  <2>1. QueueInv(q)
    BY <1>2, <1>4 DEF RxInv, ChainOpen, ring
  <2> QED
    BY <1>2, <1>3, <2>1, Untouched DEF ring, hw
<1> QED
  BY <1>1, <1>2, <1>4 DEF RxInv, ring, hw

\* A reset hands the descriptor at tail back.  If the chain is still open it
\* was not the last one: after an error the engine is waiting for it, after a
\* rejected packet the engine is past it and the queue is stalled.
LEMMA InvReset ==
  ASSUME RxInv, DmaError \/ SizeError PROVE RxInv'
<1> USE NumDescAssumption
<1>1. TypeOK'
  BY TypeNext DEF RxInv, Next, Work
<1>2. /\ UNCHANGED <<started, trigger, hw, expect>>
      /\ pc = "scan" /\ trigger /\ \A q \in Queues : ~(q >= started)
  BY AllStarted DEF DmaError, SizeError, Filled
<1>3. \A q \in Queues : ~Holds(q) /\ ~Holds(q)'
  BY NextQueueHolds, <1>2 DEF DmaError, SizeError, Filled, Holds, Holding
<1>4. ResetDesc(cur, d) /\ cur \in Queues /\ d \in Idx /\ d = tail[cur]
  BY DEF DmaError, SizeError, RxInv, TypeOK, d
<1>5. /\ link' = [link EXCEPT ![cur][d] = IF d = NumDesc - 1 THEN 0 ELSE d + 1]
      /\ own' = [own EXCEPT ![cur][d] = TRUE]
      /\ err' = [err EXCEPT ![cur][d] = FALSE]
      /\ pkt' = pkt /\ tail' = tail
  BY <1>4, WrapNext DEF ResetDesc
<1>6. \A q \in Queues : \A i \in Idx : i # NumDesc - 1 => link'[q][i] = i + 1
  BY <1>4, <1>5 DEF RxInv, TypeOK
<1>7. ASSUME NEW q \in Queues, ChainOpen(q)' PROVE QueueInv(q)'
  <2>0. NumDesc - 1 \in Idx /\ End # 0
    BY DEF Idx, End
  <2>1. ChainOpen(q) /\ (q = cur => d # NumDesc - 1)
    BY <1>4, <1>5, <1>7, <2>0 DEF ChainOpen, RxInv, TypeOK
  <2>2. QueueInv(q)
    BY <2>1 DEF RxInv
  <2>3. CASE q # cur
    <3>1. own'[q] = own[q] /\ err'[q] = err[q]
      BY <1>4, <1>5, <2>3 DEF RxInv, TypeOK
    <3> QED
      BY <1>2, <1>3, <1>5, <2>2, <3>1, Untouched DEF hw
  <2>4. CASE q = cur
    <3>1. /\ own'[q][d] /\ ~err'[q][d]
          /\ \A i \in Idx : i # d => /\ own'[q][i] <=> own[q][i]
                                     /\ err'[q][i] <=> err[q][i]
      BY <1>4, <1>5, <2>4 DEF RxInv, TypeOK
    <3>2. ~own[q][d] \/ err[q][d]
      BY <2>4 DEF DmaError, SizeError, Filled
    <3>3. Flowing(q)
      BY <1>2, <1>4, <2>2, <2>4, <3>2 DEF QueueInv, Stalled
    <3>4. CASE err[q][d]
      <4>1. tail[q] = cdp[q]
        BY <1>4, <2>4, <3>3, <3>4 DEF Flowing
      <4>2. \A i \in Idx :
              /\ own'[q][i] <=> ~(err'[q][i] \/ (tail[q] <= i /\ i < cdp[q]))
              /\ err'[q][i] => i = cdp[q]
        BY <1>4, <2>4, <3>1, <3>3, <4>1 DEF Flowing, Idx
      <4>3. Flowing(q)'
        BY <1>2, <1>3, <1>5, <3>3, <4>1, <4>2 DEF Flowing, Base, hw
      <4> QED
        BY <1>3, <4>3 DEF QueueInv
    <3>5. CASE ~err[q][d]
      <4>1. tail[q] < cdp[q]
        BY <1>4, <2>4, <3>2, <3>3, <3>5 DEF Flowing
      <4>2. Stalled(q)'
        BY <1>2, <1>3, <1>4, <1>5, <2>4, <3>1, <4>1 DEF Stalled, hw
      <4> QED
        BY <1>3, <4>2 DEF QueueInv
    <3> QED
      BY <3>4, <3>5
  <2> QED
    BY <2>3, <2>4
<1> QED
  BY <1>1, <1>2, <1>6, <1>7 DEF RxInv, hw

\* The packet copied out of the descriptor at tail is the next one expected.
LEMMA InvCopy == ASSUME RxInv, CopyPacket PROVE RxInv'
<1>1. TypeOK'
  BY TypeNext DEF RxInv, Next, Work
<1>2. /\ UNCHANGED <<started, trigger, ring, hw, expect, cur>>
      /\ pc = "scan" /\ pc' = "recycle" /\ trigger
      /\ cur \in Queues /\ d = tail[cur]
      /\ ~own[cur][d] /\ skb' = pkt[cur][d].num
  BY AllStarted DEF CopyPacket, Filled, RxInv, TypeOK, d
<1>3. ASSUME NEW q \in Queues, ChainOpen(q)' PROVE QueueInv(q)'
  <2>1. QueueInv(q)
    BY <1>2, <1>3 DEF RxInv, ChainOpen, ring
  <2>2. ~Holds(q)
    BY <1>2 DEF Holds, Holding
  <2>3. CASE q # cur
    <3>1. ~Holds(q)'
      BY <1>2, <2>3 DEF Holds
    <3> QED
      BY <1>2, <2>1, <2>2, <3>1, Untouched DEF ring, hw
  <2>4. CASE q = cur
    <3>1. Flowing(q)
      BY <1>2, <2>1, <2>4 DEF QueueInv, Stalled, Holds
    <3>2. tail[q] < cdp[q] /\ skb' = expect[q] /\ tail[q] \in Idx
      <4>1. tail[q] \in Idx /\ cdp[q] \in Int /\ tail[q] \in Int
        BY DEF RxInv, TypeOK, Idx
      <4>2. ~err[q][d]
        BY <2>4 DEF CopyPacket, Filled
      <4>3. tail[q] < cdp[q]
        BY <1>2, <2>4, <3>1, <4>1, <4>2 DEF Flowing
      <4> QED
        BY <1>2, <2>2, <2>4, <3>1, <4>1, <4>3 DEF Flowing, Base
    <3>3. Flowing(q)'
      BY <1>2, <2>2, <2>4, <3>1, <3>2 DEF Flowing, Base, ring, hw
    <3> QED
      BY <1>2, <3>2, <3>3 DEF QueueInv
  <2> QED
    BY <2>3, <2>4
<1> QED
  BY <1>1, <1>2, <1>3 DEF RxInv, ring, hw, ChainOpen

\* Giving the copied descriptor back leaves the rest of the packets, which
\* continue the sequence; behind the last descriptor the ring is empty and
\* the engine stopped at its end.
LEMMA InvRecycle == ASSUME RxInv, Recycle PROVE RxInv'
<1> USE NumDescAssumption
<1>1. TypeOK'
  BY TypeNext DEF RxInv, Next, Work
<1>2. /\ UNCHANGED <<started, trigger, err, link, pkt, hw, expect, cur, skb>>
      /\ pc = "recycle" /\ trigger /\ \A q \in Queues : ~(q >= started)
      /\ cur \in Queues /\ d \in Idx /\ d = tail[cur] /\ d \in Int
  <2>1. cur \in Queues /\ d \in Idx /\ d = tail[cur]
    BY DEF RxInv, TypeOK, d
  <2>2. d \in Int
    BY <2>1 DEF Idx
  <2>3. /\ UNCHANGED <<started, trigger, err, link, pkt, hw, expect, cur, skb>>
        /\ pc = "recycle"
    BY DEF Recycle
  <2> QED
    BY <2>1, <2>2, <2>3, AllStarted
<1>3. /\ own' = [own EXCEPT ![cur][d] = TRUE]
      /\ tail' = [tail EXCEPT ![cur] = IF d = NumDesc - 1 THEN 0 ELSE d + 1]
      /\ pc' = IF tail'[cur] = 0 THEN "setcdp" ELSE "deliver"
  BY <1>2, WrapNext DEF Recycle
<1>4. ASSUME NEW q \in Queues, ChainOpen(q)' PROVE QueueInv(q)'
  <2>1. QueueInv(q)
    BY <1>2, <1>4 DEF RxInv, ChainOpen
  <2>2. CASE q # cur
    <3>1. ~Holds(q) /\ ~Holds(q)'
      BY <1>2, <2>2 DEF Holds
    <3>2. own'[q] = own[q] /\ tail'[q] = tail[q]
      BY <1>2, <1>3, <2>2 DEF RxInv, TypeOK
    <3> QED
      BY <1>2, <2>1, <3>1, <3>2, Untouched DEF hw
  <2>3. CASE q = cur
    <3>1. Holds(q) /\ Holds(q)' /\ skb = expect[q] /\ pc' # "recycle"
      BY <1>2, <1>3, <2>1, <2>3 DEF QueueInv, Holds, Holding
    <3>2. Flowing(q) /\ tail[q] < cdp[q] /\ d = tail[q]
      BY <1>2, <2>1, <2>3, <3>1 DEF QueueInv, Stalled, Flowing
    <3>3. /\ own'[q][d]
          /\ \A i \in Idx : i # d => (own'[q][i] <=> own[q][i])
      BY <1>2, <1>3, <2>3 DEF RxInv, TypeOK
    <3>4. cdp[q] \in 0 .. NumDesc /\ Idx \subseteq Int
      BY DEF RxInv, TypeOK, Idx
    <3>5. /\ pkt[q][d].num = skb
          /\ seq[q] = NextSeq(pkt[q][cdp[q] - 1].num)
          /\ Base(q)' = NextSeq(skb)
      BY <1>2, <3>1, <3>2 DEF Flowing, Base
    <3>6. CASE d = NumDesc - 1
      <4>1. tail'[q] = 0 /\ pc' = "setcdp"
        BY <1>2, <1>3, <2>3, <3>6 DEF RxInv, TypeOK
      <4>2. cdp[q] = End /\ cdp[q] - 1 = d
        BY <1>2, <3>2, <3>4, <3>6 DEF End
      <4>3. ~en[q] /\ \A i \in Idx : own'[q][i] /\ ~err[q][i]
        BY <1>2, <3>2, <3>3, <3>4, <3>6, <4>2 DEF Flowing, Idx, End
      <4>4. AtEnd(q)'
        BY <1>2, <3>5, <4>1, <4>2, <4>3 DEF AtEnd, hw, End
      <4> QED
        BY <1>2, <3>1, <4>1, <4>4 DEF QueueInv
    <3>7. CASE d # NumDesc - 1
      <4>1. tail'[q] = d + 1 /\ pc' = "deliver" /\ d + 1 \in Idx
        BY <1>2, <1>3, <2>3, <3>7 DEF RxInv, TypeOK, Idx
      <4>2. \A i \in Idx :
              /\ own'[q][i] <=> ~(err[q][i] \/ (d + 1 <= i /\ i < cdp[q]))
              /\ err[q][i] => i = cdp[q]
        BY <1>2, <3>2, <3>3, <3>4 DEF Flowing, Idx
      <4>3. d + 1 = cdp[q] => seq[q] = NextSeq(skb)
        BY <1>2, <3>4, <3>5
      <4>4. d + 1 < cdp[q] => pkt[q][d + 1].num = NextSeq(skb)
        BY <1>2, <3>2, <3>5 DEF Flowing
      <4>5. Flowing(q)'
        BY <1>2, <3>2, <3>4, <3>5, <4>1, <4>2, <4>3, <4>4 DEF Flowing, hw
      <4> QED
        BY <1>2, <3>1, <4>1, <4>5 DEF QueueInv
    <3> QED
      BY <3>6, <3>7
  <2> QED
    BY <2>2, <2>3
<1> QED
  BY <1>1, <1>2, <1>3, <1>4 DEF RxInv, hw

\* The engine is pointed at the start of a ring that is all its own.
LEMMA InvSetCdp == ASSUME RxInv, SetCdp PROVE RxInv'
<1> USE NumDescAssumption
<1>1. TypeOK'
  BY TypeNext DEF RxInv, Next, Work
<1>2. /\ UNCHANGED <<started, trigger, ring, en, seq, expect, cur, skb>>
      /\ pc = "setcdp" /\ pc' = "enable" /\ trigger
      /\ \A q \in Queues : ~(q >= started)
      /\ cur \in Queues /\ cdp' = [cdp EXCEPT ![cur] = 0]
  BY AllStarted DEF SetCdp, RxInv, TypeOK
<1>3. ASSUME NEW q \in Queues, ChainOpen(q)' PROVE QueueInv(q)'
  <2>1. QueueInv(q)
    BY <1>2, <1>3 DEF RxInv, ChainOpen, ring
  <2>2. CASE q # cur
    <3>1. ~Holds(q) /\ ~Holds(q)'
      BY <1>2, <2>2 DEF Holds
    <3>2. cdp'[q] = cdp[q]
      BY <1>2, <2>2 DEF RxInv, TypeOK
    <3> QED
      BY <1>2, <2>1, <3>1, <3>2, Untouched DEF ring
  <2>3. CASE q = cur
    <3>1. Holds(q) /\ Holds(q)' /\ AtEnd(q) /\ skb = expect[q]
      BY <1>2, <2>1, <2>3 DEF QueueInv, Holds, Holding, Stalled
    <3>2. cdp'[q] = 0
      BY <1>2, <2>3 DEF RxInv, TypeOK
    <3>3. Base(q)' = Base(q)
      BY <1>2, <3>1 DEF Base
    <3>4. Flowing(q)'
      BY <1>2, <3>1, <3>2, <3>3 DEF Flowing, AtEnd, ring, Idx, End
    <3> QED
      BY <1>2, <3>1, <3>4 DEF QueueInv
  <2> QED
    BY <2>2, <2>3
<1> QED
  BY <1>1, <1>2, <1>3 DEF RxInv, ring, ChainOpen

\* Enabling the queue: the engine is at descriptor 0.
LEMMA InvEnable == ASSUME RxInv, EnableQueue PROVE RxInv'
<1> USE NumDescAssumption
<1>1. TypeOK'
  BY TypeNext DEF RxInv, Next, Work
<1>2. /\ UNCHANGED <<started, trigger, ring, cdp, seq, expect, cur, skb>>
      /\ pc = "enable" /\ pc' = "deliver" /\ trigger
      /\ \A q \in Queues : ~(q >= started)
      /\ cur \in Queues /\ en' = [en EXCEPT ![cur] = TRUE]
  BY AllStarted DEF EnableQueue, RxInv, TypeOK
<1>3. ASSUME NEW q \in Queues, ChainOpen(q)' PROVE QueueInv(q)'
  <2>1. QueueInv(q)
    BY <1>2, <1>3 DEF RxInv, ChainOpen, ring
  <2>2. CASE q # cur
    <3>1. ~Holds(q) /\ ~Holds(q)'
      BY <1>2, <2>2 DEF Holds
    <3>2. en'[q] = en[q]
      BY <1>2, <2>2 DEF RxInv, TypeOK
    <3> QED
      BY <1>2, <2>1, <3>1, <3>2, Untouched DEF ring
  <2>3. CASE q = cur
    <3>1. Holds(q) /\ Holds(q)' /\ Flowing(q) /\ skb = expect[q]
      BY <1>2, <2>1, <2>3 DEF QueueInv, Holds, Holding, Stalled
    <3>2. cdp[q] = 0 /\ End # 0
      BY <1>2, <3>1 DEF Flowing, End
    <3>3. Base(q)' = Base(q)
      BY <1>2, <3>1 DEF Base
    <3>4. Flowing(q)'
      BY <1>2, <3>1, <3>2, <3>3 DEF Flowing, ring, End
    <3> QED
      BY <1>2, <3>1, <3>4 DEF QueueInv
  <2> QED
    BY <2>2, <2>3
<1> QED
  BY <1>1, <1>2, <1>3 DEF RxInv, ring, ChainOpen

\* Delivering the packet makes the one after it the next expected.
LEMMA InvDeliver == ASSUME RxInv, Deliver PROVE RxInv'
<1>1. TypeOK'
  BY TypeNext DEF RxInv, Next, Work
<1>2. /\ UNCHANGED <<started, trigger, ring, hw, skb>>
      /\ pc = "deliver" /\ trigger /\ cur \in Queues
      /\ expect' = [expect EXCEPT ![cur] = NextSeq(skb)]
  BY AllStarted DEF Deliver, RxInv, TypeOK
<1>3. \A q \in Queues : ~Holds(q)'
  BY NextQueueHolds DEF Deliver, Holds, Holding
<1>4. ASSUME NEW q \in Queues, ChainOpen(q)' PROVE QueueInv(q)'
  <2>1. QueueInv(q)
    BY <1>2, <1>4 DEF RxInv, ChainOpen, ring
  <2>2. CASE q # cur
    <3>1. ~Holds(q) /\ expect'[q] = expect[q]
      BY <1>2, <2>2 DEF Holds, RxInv, TypeOK
    <3> QED
      BY <1>2, <1>3, <2>1, <3>1, Untouched DEF ring, hw
  <2>3. CASE q = cur
    <3>1. Holds(q) /\ Flowing(q)
      BY <1>2, <2>1, <2>3 DEF QueueInv, Holds, Holding, Stalled
    <3>2. expect'[q] = NextSeq(skb)
      BY <1>2, <2>3 DEF RxInv, TypeOK
    <3>3. Base(q)' = Base(q)
      BY <1>2, <1>3, <3>1, <3>2 DEF Base
    <3>4. Flowing(q)'
      BY <1>2, <1>3, <3>1, <3>3 DEF Flowing, ring, hw
    <3> QED
      BY <1>3, <3>4 DEF QueueInv
  <2> QED
    BY <2>2, <2>3
<1> QED
  BY <1>1, <1>2, <1>4 DEF RxInv, ring, hw, ChainOpen

\* Starting a queue: it has not run, so the engine is at descriptor 0.
LEMMA InvStart == ASSUME RxInv, StartQueue \/ SetTrigger PROVE RxInv'
<1> USE NumDescAssumption, NumQueuesAssumption
<1>1. TypeOK'
  BY TypeNext DEF RxInv, Next
<1>2. CASE SetTrigger
  <2>1. /\ UNCHANGED <<started, ring, hw, expect, pc, cur, skb>>
        /\ trigger' /\ started = NumQueues
    BY <1>2 DEF SetTrigger
  <2>2. ASSUME NEW q \in Queues, QueueInv(q) PROVE QueueInv(q)'
    BY <2>1, <2>2 DEF QueueInv, Stalled, AtEnd, Flowing, Base, Holds, Holding,
                      ring, hw
  <2> QED
    BY <1>1, <2>1, <2>2 DEF RxInv, ChainOpen, ring, hw
<1>3. CASE StartQueue
  <2>1. /\ UNCHANGED <<trigger, ring, cdp, seq, expect, pc, cur, skb>>
        /\ started' = started + 1 /\ started \in Queues /\ ~trigger
        /\ en' = [en EXCEPT ![started] = TRUE]
    BY <1>3 DEF StartQueue, RxInv, TypeOK, Queues
  <2>2. pc = "idle"
    BY <2>1 DEF RxInv
  <2>3. \A q \in Queues : ~Holds(q) /\ ~Holds(q)'
    BY <2>1, <2>2 DEF Holds, Holding
  <2>4. ASSUME NEW q \in Queues, ChainOpen(q) PROVE QueueInv(q)'
    <3>1. QueueInv(q)
      BY <2>4 DEF RxInv
    <3>2. CASE q # started
      <4>1. en'[q] = en[q]
        BY <2>1, <3>2 DEF RxInv, TypeOK
      <4> QED
        BY <2>1, <2>3, <3>1, <4>1, Untouched DEF ring
    <3>3. CASE q = started
      <4>1. cdp[q] = 0 /\ tail[q] = 0 /\ End # 0
        BY <3>3 DEF RxInv, End, Queues
      <4>2. Flowing(q)
        BY <2>3, <3>1, <4>1 DEF QueueInv, Stalled
      <4>3. Flowing(q)'
        BY <2>1, <2>2, <2>3, <4>1, <4>2 DEF Flowing, Base, ring, End
      <4> QED
        BY <2>3, <4>3 DEF QueueInv
    <3> QED
      BY <3>2, <3>3
  <2>5. ASSUME NEW q \in Queues, q >= started + 1
        PROVE  tail[q] = 0 /\ cdp[q] = 0 /\ ~en'[q]
    <3>1. q >= started /\ q # started
      BY <2>1, <2>5 DEF Queues
    <3> QED
      BY <2>1, <3>1 DEF RxInv, TypeOK
  <2> QED
    BY <1>1, <2>1, <2>2, <2>4, <2>5 DEF RxInv, ChainOpen, ring
<1> QED
  BY <1>2, <1>3

\* The engine fills or fails the descriptor it is at.  It can do neither on a
\* queue that the driver is restarting.
LEMMA InvEngine ==
  ASSUME RxInv, NEW c \in Queues, HwFill(c) \/ HwError(c) PROVE RxInv'
<1> USE NumDescAssumption
<1> DEFINE e == cdp[c]
<1>1. TypeOK'
  BY TypeNext DEF RxInv, Next
<1>2. /\ UNCHANGED <<started, trigger, link, tail, expect, pc, cur, skb>>
      /\ en[c] /\ e \in Idx /\ own[c][e] /\ e \in Int
  <2>1. cdp[c] \in 0 .. NumDesc
    BY DEF RxInv, TypeOK
  <2>2. CanFill(c)
    BY DEF HwFill, HwError
  <2>3. e \in Idx /\ e \in Int
    BY <2>1, <2>2 DEF CanFill, Idx, End
  <2>4. UNCHANGED <<started, trigger, link, tail, expect, pc, cur, skb>>
    BY DEF HwFill, HwError
  <2> QED
    BY <2>2, <2>3, <2>4 DEF CanFill
<1>3. \A q \in Queues : Holds(q)' <=> Holds(q)
  BY <1>2 DEF Holds, Holding
<1>4. ~(c >= started)
  BY <1>2 DEF RxInv
<1>5. \A q \in Queues : q # c => /\ own'[q] = own[q] /\ err'[q] = err[q]
                                 /\ pkt'[q] = pkt[q] /\ cdp'[q] = cdp[q]
                                 /\ en'[q] = en[q] /\ seq'[q] = seq[q]
  BY <1>2 DEF HwFill, HwError, RxInv, TypeOK, hw
<1>6. /\ ~own'[c][e]
      /\ \A i \in Idx : i # e => /\ own'[c][i] <=> own[c][i]
                                 /\ err'[c][i] <=> err[c][i]
                                 /\ pkt'[c][i] = pkt[c][i]
  <2>1. own' = [own EXCEPT ![c][e] = FALSE]
    BY DEF HwFill, HwError
  <2>2. err' = err \/ err' = [err EXCEPT ![c][e] = TRUE]
    BY DEF HwFill, HwError
  <2>3. pkt' = pkt \/ \E p : pkt' = [pkt EXCEPT ![c][e] = p]
    BY DEF HwFill, HwError
  <2>4. ~own'[c][e] /\ \A i \in Idx : i # e => (own'[c][i] <=> own[c][i])
    BY <1>2, <2>1 DEF RxInv, TypeOK
  <2>5. \A i \in Idx : i # e => (err'[c][i] <=> err[c][i])
    BY <1>2, <2>2 DEF RxInv, TypeOK
  <2>6. \A i \in Idx : i # e => pkt'[c][i] = pkt[c][i]
    BY <1>2, <2>3 DEF RxInv, TypeOK
  <2> QED
    BY <2>4, <2>5, <2>6
<1>7. ASSUME NEW q \in Queues, q # c, QueueInv(q) PROVE QueueInv(q)'
  BY <1>2, <1>3, <1>5, <1>7
     DEF QueueInv, Stalled, AtEnd, Flowing, Base
<1>8. ASSUME ChainOpen(c), QueueInv(c), HwFill(c) PROVE QueueInv(c)'
  <2>1. link[c][e] = e + 1
    BY <1>2, <1>8 DEF RxInv, ChainOpen, End, Idx
  <2>2. /\ cdp'[c] = e + 1 /\ (en'[c] <=> e + 1 # End)
        /\ seq'[c] = NextSeq(seq[c]) /\ err' = err
    BY <1>8, <2>1 DEF HwFill, RxInv, TypeOK
  <2>3. pkt'[c][e].num = seq[c]
    BY <1>2, <1>8 DEF HwFill, RxInv, TypeOK
  <2>4. tail[c] \in Idx /\ tail[c] \in Int /\ Idx \subseteq Int
    BY DEF RxInv, TypeOK, Idx
  <2>5. CASE Stalled(c)
    <3>1. Stalled(c)'
      BY <1>2, <1>3, <1>6, <2>2, <2>4, <2>5 DEF Stalled
    <3> QED
      BY <1>2, <1>3, <1>8, <3>1 DEF QueueInv
  <2>6. CASE ~Stalled(c)
    <3>1. Flowing(c) /\ ~(Holds(c) /\ pc \in {"setcdp", "enable"})
      BY <1>2, <1>8, <2>6 DEF QueueInv, AtEnd, Flowing
    <3>2. Base(c)' = Base(c)
      BY <1>2, <1>3 DEF Base
    <3>3. \A i \in Idx :
            /\ own'[c][i] <=> ~(err'[c][i] \/ (tail[c] <= i /\ i < e + 1))
            /\ err'[c][i] => i = e + 1
      BY <1>2, <1>6, <2>2, <2>4, <3>1 DEF Flowing
    <3>4. /\ tail[c] <= e /\ (tail[c] = e => seq[c] = Base(c))
          /\ tail[c] < e => /\ pkt[c][tail[c]].num = Base(c)
                            /\ seq[c] = NextSeq(pkt[c][e - 1].num)
      BY <3>1 DEF Flowing
    <3>5. pkt'[c][tail[c]].num = Base(c)
      BY <1>2, <1>6, <2>3, <2>4, <3>4
    <3>6. ASSUME NEW i \in Idx, tail[c] <= i, i + 1 < e + 1
          PROVE  pkt'[c][i + 1].num = NextSeq(pkt'[c][i].num)
      <4>1. i \in Int /\ i # e /\ pkt'[c][i] = pkt[c][i]
        BY <1>2, <1>6, <2>4, <3>6
      <4>2. CASE i + 1 = e
        <5>1. i = e - 1 /\ tail[c] < e
          BY <1>2, <2>4, <3>6, <4>1, <4>2
        <5> QED
          BY <2>3, <3>4, <4>1, <4>2, <5>1
      <4>3. CASE i + 1 # e
        <5>1. i + 1 < e /\ i + 1 \in Idx
          BY <1>2, <3>6, <4>1, <4>3 DEF Idx
        <5>2. pkt[c][i + 1].num = NextSeq(pkt[c][i].num)
          BY <3>1, <3>6, <5>1 DEF Flowing
        <5> QED
          BY <1>6, <4>1, <4>3, <5>1, <5>2
      <4> QED
        BY <4>2, <4>3
    <3>7. e + 1 - 1 = e /\ tail[c] < e + 1
      BY <1>2, <2>4, <3>4
    <3>8. Flowing(c)'
      <4>1. tail'[c] = tail[c] /\ cdp'[c] = e + 1 /\ tail'[c] # cdp'[c]
        BY <1>2, <2>2, <2>4, <3>7
      <4>0. cdp'[c] - 1 = e /\ tail'[c] <= cdp'[c]
        BY <1>2, <2>4, <3>7, <4>1
      <4>2. seq'[c] = NextSeq(pkt'[c][cdp'[c] - 1].num)
        BY <2>2, <2>3, <4>0
      <4>3. \A i \in Idx :
              tail'[c] <= i /\ i + 1 < cdp'[c]
                => pkt'[c][i + 1].num = NextSeq(pkt'[c][i].num)
        BY <3>6, <4>1
      <4>4. ~(Holds(c)' /\ pc' = "enable")
        BY <1>2, <1>3, <3>1
      <4>5. /\ en'[c] => cdp'[c] # End
            /\ pkt'[c][tail'[c]].num = Base(c)'
            /\ tail'[c] < cdp'[c]
            /\ \A i \in Idx :
                 /\ own'[c][i] <=> ~(err'[c][i] \/ (tail'[c] <= i /\ i < cdp'[c]))
                 /\ err'[c][i] => i = cdp'[c]
        BY <2>2, <3>2, <3>3, <3>5, <3>7, <4>1
      <4> QED
        BY <4>0, <4>1, <4>2, <4>3, <4>4, <4>5 DEF Flowing, End
    <3> QED
      BY <1>2, <1>3, <1>8, <3>1, <3>8 DEF QueueInv
  <2> QED
    BY <2>5, <2>6
<1>9. ASSUME QueueInv(c), HwError(c) PROVE QueueInv(c)'
  <2>1. /\ UNCHANGED <<pkt, hw>> /\ err'[c][e]
    BY <1>2, <1>9 DEF HwError, RxInv, TypeOK
  <2>2. tail[c] \in Idx /\ tail[c] \in Int /\ Idx \subseteq Int
    BY DEF RxInv, TypeOK, Idx
  <2>3. CASE Stalled(c)
    <3>1. Stalled(c)'
      BY <1>2, <1>3, <1>6, <2>1, <2>2, <2>3 DEF Stalled, hw
    <3> QED
      BY <1>2, <1>3, <1>9, <3>1 DEF QueueInv
  <2>4. CASE ~Stalled(c)
    <3>1. Flowing(c) /\ ~(Holds(c) /\ pc = "setcdp")
      BY <1>2, <1>9, <2>4 DEF QueueInv, AtEnd
    <3>2. Base(c)' = Base(c)
      BY <1>2, <1>3 DEF Base
    <3>3. \A i \in Idx :
            /\ own'[c][i] <=> ~(err'[c][i] \/ (tail[c] <= i /\ i < e))
            /\ err'[c][i] => i = e
      BY <1>2, <1>6, <2>1, <2>2, <3>1 DEF Flowing
    <3>4. Flowing(c)'
      BY <1>2, <1>3, <2>1, <3>1, <3>2, <3>3 DEF Flowing, hw
    <3> QED
      BY <1>2, <1>3, <1>9, <3>1, <3>4 DEF QueueInv
  <2> QED
    BY <2>3, <2>4
<1>10. \A q \in Queues : ChainOpen(q)' => QueueInv(q)'
  BY <1>2, <1>7, <1>8, <1>9 DEF RxInv, ChainOpen
<1>11. \A q \in Queues : q >= started' => tail'[q] = 0 /\ cdp'[q] = 0 /\ ~en'[q]
  BY <1>2, <1>4, <1>5 DEF RxInv
<1> QED
  BY <1>1, <1>2, <1>10, <1>11 DEF RxInv

\* The invariant is inductive.
LEMMA InvNext == RxInv /\ [Next]_vars => RxInv'
<1> SUFFICES ASSUME RxInv, [Next]_vars PROVE RxInv'
  OBVIOUS
<1>1. CASE UNCHANGED vars
  BY <1>1 DEF vars, ring, hw, RxInv, TypeOK, ChainOpen, QueueInv, Stalled,
              AtEnd, Flowing, Base, Holds, Holding
<1> QED
  BY <1>1, InvStart, InvIdleSteps, InvReset, InvCopy, InvRecycle, InvSetCdp,
     InvEnable, InvDeliver, InvEngine DEF Next, Work

\* Every reachable state of the receive path satisfies the invariant: an open
\* chain holds consecutive packets between tail and the engine's position.
THEOREM Invariance == Spec => []RxInv
BY InvInit, InvNext, PTL DEF Spec

\* As long as the chain of a queue is open, its packets are delivered in the
\* order in which the engine received them, for any number of queues and
\* descriptors and whatever errors and rejected packets occur.
THEOREM DeliveredInOrder == Spec => []InOrder
<1>1. RxInv => InOrder
  BY DEF RxInv, InOrder, QueueInv, Holds, TypeOK
<1> QED
  BY <1>1, Invariance, PTL

\* The descriptor pointer of an open chain is rewritten only when the engine
\* has stopped at the end of the chain and owns the whole ring.
THEOREM RestartedOnlyAtEnd == Spec => []RestartOnlyAtEnd
<1>1. RxInv => RestartOnlyAtEnd
  BY DEF RxInv, RestartOnlyAtEnd, QueueInv, Stalled, AtEnd, Holds, Holding,
         TypeOK
<1> QED
  BY <1>1, Invariance, PTL

\* The packet that was copied is still at the tail, and its descriptor not the
\* engine's.
CopiedAtTail ==
  pc = "recycle" => ~own[cur][d] /\ ~err[cur][d] /\ skb = pkt[cur][d].num

\* A step that leaves the descriptor at the tail alone keeps the copy true.
LEMMA CopyKept ==
  ASSUME CopiedAtTail, TypeOK,
         pc' = "recycle" => pc = "recycle" /\ cur' = cur /\ tail' = tail /\ skb' = skb,
         \A q \in Queues, i \in Idx :
           ~own[q][i] => /\ ~own'[q][i] /\ pkt'[q][i] = pkt[q][i]
                         /\ ~err[q][i] => ~err'[q][i]
  PROVE  CopiedAtTail'
<1> SUFFICES ASSUME pc' = "recycle"
             PROVE  ~own'[cur'][d'] /\ ~err'[cur'][d'] /\ skb' = pkt'[cur'][d'].num
  BY DEF CopiedAtTail
<1>1. cur \in Queues /\ d \in Idx /\ cur' = cur /\ d' = d
  BY DEF TypeOK, d
<1> QED
  BY <1>1 DEF CopiedAtTail

\* The engine touches only descriptors that it owns.
LEMMA EngineKeeps ==
  ASSUME TypeOK, NEW c \in Queues, HwFill(c) \/ HwError(c), NEW q \in Queues, NEW i \in Idx,
         ~own[q][i]
  PROVE  ~own'[q][i] /\ pkt'[q][i] = pkt[q][i] /\ err'[q][i] = err[q][i]
<1>1. own[c][cdp[c]] /\ cdp[c] \in Idx
  <2>1. cdp[c] \in 0 .. NumDesc /\ CanFill(c)
    BY DEF HwFill, HwError, TypeOK
  <2> QED
    BY <2>1, NumDescAssumption DEF CanFill, Idx, End
<1>2. /\ own' = [own EXCEPT ![c][cdp[c]] = FALSE]
      /\ pkt' = pkt \/ \E p : pkt' = [pkt EXCEPT ![c][cdp[c]] = p]
      /\ err' = err \/ err' = [err EXCEPT ![c][cdp[c]] = TRUE]
  BY DEF HwFill, HwError
<1>3. q # c \/ i # cdp[c]
  BY <1>1
<1>4. ~own'[q][i]
  BY <1>1, <1>2 DEF TypeOK
<1>5. pkt'[q][i] = pkt[q][i]
  BY <1>1, <1>2, <1>3 DEF TypeOK
<1>6. err'[q][i] = err[q][i]
  BY <1>1, <1>2, <1>3 DEF TypeOK
<1> QED
  BY <1>4, <1>5, <1>6

LEMMA CopyStep ==
  ASSUME TypeOK, CopiedAtTail, [Next]_vars
  PROVE  CopiedAtTail'
<1>1. CASE CopyPacket
  <2>1. /\ UNCHANGED <<own, err, pkt, tail, cur>> /\ skb' = pkt[cur][d].num
        /\ ~own[cur][d] /\ ~err[cur][d] /\ d' = d
    BY <1>1 DEF CopyPacket, Filled, ring, d
  <2> QED
    BY <2>1 DEF CopiedAtTail
<1>2. ASSUME NEW c \in Queues, HwFill(c) \/ HwError(c)
      PROVE  CopiedAtTail'
  <2>1. UNCHANGED <<pc, cur, tail, skb>>
    BY <1>2 DEF HwFill, HwError
  <2> QED
    BY <1>2, <2>1, EngineKeeps, CopyKept
<1>3. CASE StartQueue \/ SetTrigger \/ UNCHANGED vars
  BY <1>3, CopyKept DEF StartQueue, SetTrigger, vars, ring
<1>4. CASE Work /\ ~CopyPacket
  <2>1. pc' # "recycle"
    BY <1>4 DEF Work, StartPass, DmaError, StillOwned, SizeError, NoSkb, Recycle, SetCdp,
       EnableQueue, Deliver, NextQueue
  <2> QED
    BY <2>1 DEF CopiedAtTail
<1> QED
  BY <1>1, <1>2, <1>3, <1>4 DEF Next

\* A packet that the driver has accepted is in the skb when its descriptor goes
\* back to the engine, whatever the engine does in between.  This needs no open
\* chain.
THEOREM NothingUnreadGivenBack == Spec => GivenBackRead
<1>1. Init => CopiedAtTail
  BY DEF Init, CopiedAtTail
<1>2. TypeOK /\ CopiedAtTail /\ [Next]_vars => CopiedAtTail' /\ [GivenBackStep]_vars
  <2> SUFFICES ASSUME TypeOK, CopiedAtTail, [Next]_vars
               PROVE  CopiedAtTail' /\ [GivenBackStep]_vars
    OBVIOUS
  <2>1. CopiedAtTail'
    BY CopyStep
  <2>2. ASSUME Next PROVE GivenBackStep
    <3> SUFFICES ASSUME NEW q \in Queues, NEW i \in Idx, ~own[q][i], ~err[q][i], own'[q][i]
                 PROVE  ~pkt[q][i].fits \/ (Holds(q) /\ pc = "recycle" /\ skb = pkt[q][i].num)
      BY DEF GivenBackStep
    <3>1. cur \in Queues /\ d \in Idx
      BY DEF TypeOK, d
    <3>2. \A c \in Queues : ~HwFill(c) /\ ~HwError(c)
      BY EngineKeeps
    <3>3. own' # own
      OBVIOUS
    <3>4. DmaError \/ SizeError \/ Recycle
      BY <2>2, <3>2, <3>3 DEF Next, Work, StartQueue, SetTrigger, StartPass, StillOwned, NoSkb,
         CopyPacket, SetCdp, EnableQueue, Deliver, ring
    <3>5. own' = [own EXCEPT ![cur][d] = TRUE]
      BY <3>4 DEF DmaError, SizeError, Recycle, ResetDesc
    <3>6. q = cur /\ i = d
      BY <3>1, <3>5 DEF TypeOK
    <3> QED
      BY <3>4, <3>6 DEF DmaError, SizeError, Recycle, CopiedAtTail, Holds, Holding
  <2> QED
    BY <2>1, <2>2
<1> QED
  BY <1>1, <1>2, TypeCorrect, PTL DEF Spec, GivenBackRead

----------------------------------------------------------------------------
(* The receive path without faults of the engine.                          *)

\* The packets of a queue lie from its tail to where the engine is.
LEMMA QueueAt ==
  ASSUME RxInv, FaultFree, NEW q \in Queues
  PROVE  /\ Holds(q) => skb = expect[q]
         /\ Holds(q) /\ pc = "setcdp" => AtEnd(q)
         /\ ~(Holds(q) /\ pc = "setcdp") =>
              Flowing(q) /\ \A i \in Idx : own[q][i] <=> ~(tail[q] <= i /\ i < cdp[q])
<1>1. QueueInv(q) /\ ~Stalled(q) /\ \A i \in Idx : ~err[q][i]
  BY DEF RxInv, FaultFree
<1> QED
  BY <1>1 DEF QueueInv, Flowing

LEMMA FaultFreeInit == Init => FaultFree
<1> SUFFICES ASSUME Init PROVE FaultFree
  OBVIOUS
<1>1. ASSUME NEW q \in Queues PROVE ChainOpen(q) /\ ~Stalled(q)
  BY NumDescAssumption DEF Init, ChainOpen, Stalled, End, Idx
<1>2. ASSUME NEW q \in Queues, NEW i \in Idx PROVE ~err[q][i] /\ pkt[q][i].fits
  BY DEF Init
<1> QED
  BY <1>1, <1>2 DEF FaultFree

\* Without faults the driver resets no descriptor, and waits only where the
\* engine is.
LEMMA FaultFreeNext ==
  ASSUME Faults = {}, RxInv, FaultFree, [Next]_vars PROVE FaultFree'
<1> USE NumDescAssumption
<1>a. TypeOK /\ cur \in Queues /\ d = tail[cur] /\ d \in Idx
  BY DEF RxInv, TypeOK, d
<1>b. ASSUME UNCHANGED <<link, err, pkt>>, \A q \in Queues : ~Stalled(q)' PROVE FaultFree'
  BY <1>b DEF FaultFree, ChainOpen
<1>c. ASSUME NEW q \in Queues, ~(Holds(q) /\ pc = "setcdp"),
             own'[q] = own[q], tail'[q] = tail[q], cdp'[q] = cdp[q]
      PROVE  ~Stalled(q)'
  <2>1. tail[q] \in Idx /\ tail[q] \in Int
    BY <1>a DEF TypeOK, Idx
  <2>2. tail[q] < cdp[q] => ~own[q][tail[q]]
    BY <1>c, <2>1, QueueAt
  <2> QED
    BY <1>c, <2>2 DEF Stalled
<1>1. CASE UNCHANGED vars
  BY <1>1 DEF vars, ring, hw, FaultFree, ChainOpen, Stalled, Holds, Holding
<1>2. CASE StartQueue \/ SetTrigger
  <2>1. UNCHANGED <<link, err, pkt, own, tail, cdp>>
    BY <1>2 DEF StartQueue, SetTrigger, ring, hw
  <2>2. (trigger => started = NumQueues) /\ (pc # "idle" => trigger) /\ started \in Int
    BY <1>a DEF RxInv, TypeOK
  <2>3. ~trigger
    BY <1>2, <2>2, NumQueuesAssumption DEF StartQueue, SetTrigger
  <2> QED
    BY <2>1, <2>2, <2>3, <1>b, <1>c
<1>3. CASE StartPass \/ StillOwned \/ NoSkb \/ CopyPacket
  <2>1. UNCHANGED <<link, err, pkt, own, tail, cdp>> /\ pc \in {"idle", "scan"}
    BY <1>3 DEF StartPass, StillOwned, NoSkb, CopyPacket, Filled, ring, hw
  <2> QED
    BY <2>1, <1>b, <1>c
<1>4. ~DmaError /\ ~SizeError
  BY <1>a DEF DmaError, SizeError, FaultFree
<1>5. CASE Recycle
  <2>1. /\ UNCHANGED <<link, err, pkt, cdp, cur>> /\ pc = "recycle" /\ pc' \in {"setcdp", "deliver"}
        /\ \A q \in Queues : q # cur => own'[q] = own[q] /\ tail'[q] = tail[q]
    BY <1>5, <1>a DEF Recycle, hw, TypeOK
  <2>2. ASSUME NEW q \in Queues PROVE ~Stalled(q)'
    BY <2>1, <1>c DEF Stalled, Holds, Holding
  <2> QED
    BY <2>1, <2>2, <1>b
<1>6. CASE SetCdp \/ EnableQueue
  <2>1. /\ UNCHANGED <<link, err, pkt, own, tail, cur>> /\ pc' \in {"enable", "deliver"}
        /\ \A q \in Queues : q # cur => cdp'[q] = cdp[q]
    BY <1>6, <1>a DEF SetCdp, EnableQueue, ring, TypeOK
  <2>2. ASSUME NEW q \in Queues PROVE ~Stalled(q)'
    BY <2>1, <1>c DEF Stalled, Holds, Holding
  <2> QED
    BY <2>1, <2>2, <1>b
<1>7. CASE Deliver
  <2>1. UNCHANGED <<link, err, pkt, own, tail, cdp>> /\ pc = "deliver"
    BY <1>7 DEF Deliver, ring, hw
  <2> QED
    BY <2>1, <1>b, <1>c
<1>8. ASSUME NEW c \in Queues, HwFill(c) PROVE FaultFree'
  <2>1. /\ UNCHANGED <<link, err, tail, pc, cur>> /\ en[c] /\ cdp[c] # End
        /\ own' = [own EXCEPT ![c][cdp[c]] = FALSE]
        /\ pkt' = [pkt EXCEPT ![c][cdp[c]] = [num |-> seq[c], fits |-> TRUE]]
        /\ cdp' = [cdp EXCEPT ![c] = link[c][cdp[c]]]
    BY <1>8 DEF HwFill, CanFill
  <2>2. cdp[c] \in Idx /\ cdp[c] \in Int
    BY <2>1, <1>a DEF TypeOK, Idx, End
  <2>3. link[c][cdp[c]] = cdp[c] + 1
    BY <2>2 DEF RxInv, FaultFree, ChainOpen, End, Idx
  <2>4. ASSUME NEW q \in Queues, q # c PROVE ~Stalled(q)'
    <3>1. own'[q] = own[q] /\ cdp'[q] = cdp[q] /\ tail'[q] = tail[q] /\ err'[q] = err[q]
      BY <2>1, <2>4, <1>a DEF TypeOK
    <3>2. ~Stalled(q)
      BY DEF FaultFree
    <3> QED
      BY <2>1, <3>1, <3>2 DEF Stalled, Holds, Holding
  <2>5. ~Stalled(c)'
    <3>1. ~(Holds(c) /\ pc = "setcdp")
      BY <2>1, QueueAt DEF AtEnd
    <3>2. tail[c] <= cdp[c] /\ tail[c] \in Idx /\ tail[c] \in Int
      BY <3>1, <1>a, QueueAt DEF Flowing, TypeOK, Idx
    <3>3. tail[c] # cdp[c] => ~own[c][tail[c]]
      BY <2>2, <3>1, <3>2, QueueAt
    <3>4. ~own'[c][tail[c]]
      BY <2>1, <2>2, <3>2, <3>3, <1>a DEF TypeOK
    <3> QED
      BY <2>1, <3>4 DEF Stalled
  <2>6. ASSUME NEW q \in Queues, NEW i \in Idx PROVE ~err'[q][i] /\ pkt'[q][i].fits
    <3>1. pkt'[q][i] = pkt[q][i] \/ pkt'[q][i] = [num |-> seq[c], fits |-> TRUE]
      BY <2>1, <2>2, <1>a DEF TypeOK
    <3> QED
      BY <2>1, <3>1 DEF FaultFree
  <2> QED
    BY <2>1, <2>4, <2>5, <2>6 DEF FaultFree, ChainOpen
<1>9. ASSUME NEW c \in Queues PROVE ~HwError(c)
  BY DEF HwError
<1> QED
  BY <1>1, <1>2, <1>3, <1>4, <1>5, <1>6, <1>7, <1>8, <1>9 DEF Next, Work

----------------------------------------------------------------------------
(* The receive path refines the FIFO.                                      *)

\* Facts about sequences.
LEMMA FunctionIsSeq ==
  ASSUME NEW S, NEW k \in Nat, NEW f \in [1 .. k -> S] PROVE f \in Seq(S) /\ Len(f) = k
OBVIOUS

LEMMA SameSeq ==
  ASSUME NEW S, NEW s \in Seq(S), NEW t \in Seq(S), Len(s) = Len(t), \A n \in 1 .. Len(s) : s[n] = t[n]
  PROVE  s = t
OBVIOUS

LEMMA Pushed ==
  ASSUME NEW S, NEW x \in S, NEW s \in Seq(S)
  PROVE  /\ <<x>> \o s \in Seq(S)
         /\ Len(<<x>> \o s) = Len(s) + 1
         /\ <<x>> \o s # <<>>
         /\ Head(<<x>> \o s) = x
         /\ Tail(<<x>> \o s) = s
<1>1. <<x>> \in Seq(S) /\ Len(<<x>>) = 1
  OBVIOUS
<1>2. <<x>> \o s \in Seq(S) /\ Len(<<x>> \o s) = Len(s) + 1
  BY <1>1
<1>3. (<<x>> \o s)[1] = x /\ \A n \in 1 .. Len(s) : (<<x>> \o s)[n + 1] = s[n]
  BY <1>1
<1> DEFINE t == <<x>> \o s
<1> HIDE DEF t
<1>4. t \in Seq(S) /\ Len(t) = Len(s) + 1 /\ t[1] = x /\ \A n \in 1 .. Len(s) : t[n + 1] = s[n]
  BY <1>2, <1>3 DEF t
<1>5. Head(t) = x /\ t # <<>>
  BY <1>4
<1>6. Tail(t) \in Seq(S) /\ Len(Tail(t)) = Len(s) /\ \A n \in 1 .. Len(s) : Tail(t)[n] = s[n]
  BY <1>4
<1>7. Tail(t) = s
  BY <1>6, SameSeq
<1> QED
  BY <1>4, <1>5, <1>7 DEF t

LEMMA PushAppend ==
  ASSUME NEW S, NEW x \in S, NEW y \in S, NEW s \in Seq(S)
  PROVE  <<x>> \o Append(s, y) = Append(<<x>> \o s, y)
<1>1. <<x>> \in Seq(S) /\ Len(<<x>>) = 1
  OBVIOUS
<1> QED
  BY <1>1

\* The packet numbers in the descriptors a .. b - 1 of queue q.
Between(q, a, b) == [n \in 1 .. b - a |-> pkt[q][a + n - 1].num]

\* The packet that the work item holds is in no descriptor any more.
Apart(q) == Holds(q) /\ pc # "recycle"

\* Where the packets of queue q end.
Top(q) == IF cur = q /\ pc = "setcdp" THEN 0 ELSE cdp[q]

LEMMA PendingAt ==
  ASSUME NEW q \in Queues
  PROVE  Pending(q) = IF Apart(q) THEN <<skb>> \o Between(q, tail[q], Top(q))
                                  ELSE Between(q, tail[q], Top(q))
BY DEF Pending, Apart, Holds, Top, Between

LEMMA BetweenIsSeq ==
  ASSUME TypeOK, NEW q \in Queues, NEW a \in 0 .. NumDesc, NEW b \in a .. NumDesc
  PROVE  /\ Between(q, a, b) \in Seq(Seq0) /\ Len(Between(q, a, b)) = b - a
         /\ \A n \in 1 .. b - a : Between(q, a, b)[n] = pkt[q][a + n - 1].num
<1> USE NumDescAssumption
<1>1. b - a \in Nat
  OBVIOUS
<1>2. \A n \in 1 .. b - a : a + n - 1 \in Idx
  BY DEF Idx
<1>3. \A n \in 1 .. b - a : pkt[q][a + n - 1].num \in Seq0
  BY <1>2 DEF TypeOK
<1>4. Between(q, a, b) \in [1 .. b - a -> Seq0]
  BY <1>3 DEF Between
<1>5. Between(q, a, b) \in Seq(Seq0) /\ Len(Between(q, a, b)) = b - a
  BY <1>1, <1>4, FunctionIsSeq
<1> QED
  BY <1>5 DEF Between

\* The two lemmas, of the state after a step.
LEMMA NextPendingAt ==
  ASSUME NEW q \in Queues
  PROVE  (Pending(q) = IF Apart(q) THEN <<skb>> \o Between(q, tail[q], Top(q))
                                   ELSE Between(q, tail[q], Top(q)))'
BY PendingAt, PTL

LEMMA NextBetweenIsSeq ==
  ASSUME NEW q \in Queues, NEW a \in 0 .. NumDesc, NEW b \in a .. NumDesc
  PROVE  (TypeOK => /\ Between(q, a, b) \in Seq(Seq0) /\ Len(Between(q, a, b)) = b - a
                    /\ \A n \in 1 .. b - a : Between(q, a, b)[n] = pkt[q][a + n - 1].num)'
<1>1. TypeOK => /\ Between(q, a, b) \in Seq(Seq0) /\ Len(Between(q, a, b)) = b - a
                /\ \A n \in 1 .. b - a : Between(q, a, b)[n] = pkt[q][a + n - 1].num
  BY BetweenIsSeq
<1> QED
  BY <1>1, PTL

\* The first packet and the others.
LEMMA FirstBetween ==
  ASSUME TypeOK, NEW q \in Queues, NEW a \in 0 .. NumDesc, NEW b \in a .. NumDesc, a < b
  PROVE  Between(q, a, b) = <<pkt[q][a].num>> \o Between(q, a + 1, b)
<1> USE NumDescAssumption
<1> DEFINE s == Between(q, a, b)
           r == Between(q, a + 1, b)
           x == pkt[q][a].num
<1>1. a + 1 \in 0 .. NumDesc /\ b \in a + 1 .. NumDesc
  OBVIOUS
<1>2. /\ s \in Seq(Seq0) /\ Len(s) = b - a /\ \A n \in 1 .. b - a : s[n] = pkt[q][a + n - 1].num
      /\ r \in Seq(Seq0) /\ Len(r) = b - (a + 1)
      /\ \A n \in 1 .. b - (a + 1) : r[n] = pkt[q][a + 1 + n - 1].num
  BY <1>1, BetweenIsSeq
<1>3. x \in Seq0
  BY DEF TypeOK, Idx
<1>4. s[1] = x /\ \A n \in 1 .. Len(r) : s[n + 1] = r[n]
  <2>1. s[1] = x
    <3>1. 1 \in 1 .. b - a /\ a + 1 - 1 = a
      OBVIOUS
    <3> QED
      BY <1>2, <3>1
  <2>2. ASSUME NEW n \in 1 .. Len(r) PROVE s[n + 1] = r[n]
    <3>1. n + 1 \in 1 .. b - a /\ n \in 1 .. b - (a + 1) /\ a + (n + 1) - 1 = a + 1 + n - 1
      BY <1>2
    <3> QED
      BY <1>2, <3>1
  <2> QED
    BY <2>1, <2>2
<1> HIDE DEF s, r, x
<1>5. <<x>> \in Seq(Seq0) /\ Len(<<x>>) = 1 /\ <<x>>[1] = x
  BY <1>3
<1>6. <<x>> \o r \in Seq(Seq0) /\ Len(<<x>> \o r) = Len(s)
  BY <1>2, <1>5
<1>7. \A n \in 1 .. Len(s) : s[n] = (<<x>> \o r)[n]
  BY <1>2, <1>4, <1>5
<1>8. s = <<x>> \o r
  BY <1>2, <1>6, <1>7, SameSeq
<1> QED
  BY <1>8 DEF s, r, x

\* A step that changes no packet of q, nor whether one is being handed over.
LEMMA PendingKept ==
  ASSUME NEW q \in Queues, pkt'[q] = pkt[q], tail'[q] = tail[q], Top(q)' = Top(q),
         Apart(q)' <=> Apart(q), Apart(q) => skb' = skb
  PROVE  Pending(q)' = Pending(q)
<1>1. Between(q, tail[q], Top(q))' = Between(q, tail[q], Top(q))
  BY DEF Between
<1>2. (Pending(q) = IF Apart(q) THEN <<skb>> \o Between(q, tail[q], Top(q))
                                ELSE Between(q, tail[q], Top(q)))'
  BY PendingAt, PTL
<1> QED
  BY <1>1, <1>2, PendingAt

\* The engine puts a packet behind the others of its queue.
LEMMA FillPuts ==
  ASSUME Faults = {}, RxInv, FaultFree, NEW c \in Queues, HwFill(c) PROVE Fifo!Put(c)
<1> USE NumDescAssumption
<1>a. TypeOK /\ seq[c] \in Seq0 /\ skb \in Seq0 /\ tail[c] \in Idx /\ cdp[c] \in 0 .. NumDesc
  BY DEF RxInv, TypeOK
<1>b. TypeOK'
  BY TypeNext, <1>a DEF Next
<1>c. PICK a \in Int : a = tail[c]
  BY <1>a DEF Idx
<1>d. PICK b \in Int : b = cdp[c]
  BY <1>a
<1>1. /\ UNCHANGED <<link, err, tail, pc, cur, skb, expect>> /\ en[c] /\ b # End
      /\ pkt' = [pkt EXCEPT ![c][b] = [num |-> seq[c], fits |-> TRUE]]
      /\ cdp' = [cdp EXCEPT ![c] = link[c][b]]
      /\ seq' = [seq EXCEPT ![c] = NextSeq(seq[c])]
  BY <1>d DEF HwFill, CanFill
<1>2. b \in Idx /\ a \in Idx
  BY <1>1, <1>a, <1>c, <1>d DEF Idx, End
<1>3. link[c][b] = b + 1
  BY <1>2 DEF RxInv, FaultFree, ChainOpen, End, Idx
<1>4. ~(Holds(c) /\ pc = "setcdp")
  BY <1>1, QueueAt DEF AtEnd
<1>5. a <= b
  BY <1>4, <1>c, <1>d, QueueAt DEF Flowing
<1>6. Top(c) = b /\ Top(c)' = b + 1 /\ tail'[c] = a
  BY <1>1, <1>3, <1>4, <1>a, <1>c, <1>d DEF Top, TypeOK, Holds, Holding
<1>7. /\ pkt'[c][b].num = seq[c]
      /\ \A i \in Idx : i # b => pkt'[c][i] = pkt[c][i]
  BY <1>1, <1>2, <1>a DEF TypeOK
<1> DEFINE s == Between(c, a, b)
           t == Between(c, a, b + 1)'
<1>8. /\ a \in 0 .. NumDesc /\ b \in a .. NumDesc /\ b + 1 \in a .. NumDesc
  BY <1>2, <1>5 DEF Idx
<1>9. /\ s \in Seq(Seq0) /\ Len(s) = b - a /\ \A n \in 1 .. b - a : s[n] = pkt[c][a + n - 1].num
  BY <1>8, <1>a, BetweenIsSeq
<1>10. /\ t \in Seq(Seq0) /\ Len(t) = b + 1 - a /\ \A n \in 1 .. b + 1 - a : t[n] = pkt'[c][a + n - 1].num
  BY <1>8, <1>b, NextBetweenIsSeq
<1>11. t[b - a + 1] = seq[c] /\ \A n \in 1 .. b - a : t[n] = s[n]
  <2>1. b - a + 1 \in 1 .. b + 1 - a /\ a + (b - a + 1) - 1 = b
    BY <1>5
  <2>2. t[b - a + 1] = seq[c]
    BY <1>7, <1>10, <2>1
  <2>3. ASSUME NEW n \in 1 .. b - a PROVE t[n] = s[n]
    <3>1. n \in 1 .. b + 1 - a /\ a + n - 1 \in Idx /\ a + n - 1 # b
      BY <1>8 DEF Idx
    <3> QED
      BY <1>7, <1>9, <1>10, <3>1
  <2> QED
    BY <2>2, <2>3
<1> HIDE DEF s, t
<1>12. t = Append(s, seq[c])
  <2>1. Append(s, seq[c]) \in Seq(Seq0) /\ Len(Append(s, seq[c])) = Len(t)
    BY <1>8, <1>9, <1>10, <1>a
  <2>2. \A n \in 1 .. Len(t) : t[n] = Append(s, seq[c])[n]
    BY <1>8, <1>9, <1>10, <1>11, <1>a
  <2> QED
    BY <1>10, <2>1, <2>2, SameSeq
<1>13. Apart(c)' <=> Apart(c)
  BY <1>1 DEF Apart, Holds, Holding
<1>14. Pending(c) = (IF Apart(c) THEN <<skb>> \o s ELSE s)
  BY <1>6, <1>c, PendingAt DEF s
<1>15. Pending(c)' = (IF Apart(c) THEN <<skb>> \o t ELSE t)
  <2>1. (Between(c, tail[c], Top(c)))' = t
    BY <1>6 DEF Between, t
  <2> QED
    BY <1>1, <1>13, <2>1, NextPendingAt
<1>16. Pending(c)' = Append(Pending(c), seq[c])
  BY <1>9, <1>12, <1>14, <1>15, <1>a, PushAppend
<1>17. Len(Pending(c)) < NumDesc + 1
  BY <1>8, <1>9, <1>14, <1>a, Pushed
<1>18. ASSUME NEW q \in Queues, q # c PROVE Pending(q)' = Pending(q)
  <2>1. pkt'[q] = pkt[q] /\ cdp'[q] = cdp[q] /\ tail'[q] = tail[q]
    BY <1>1, <1>a, <1>18 DEF TypeOK
  <2>2. Top(q)' = Top(q) /\ (Apart(q)' <=> Apart(q))
    BY <1>1, <2>1 DEF Top, Apart, Holds, Holding
  <2> QED
    BY <1>1, <2>1, <2>2, PendingKept
<1>19. [q \in Queues |-> Pending(q)'] = [[q \in Queues |-> Pending(q)] EXCEPT ![c] = Append(@, seq[c])]
  BY <1>16, <1>18
<1>20. seq' = [seq EXCEPT ![c] = (@ + 1) % SeqMod]
  BY <1>1 DEF NextSeq
<1> QED
  BY <1>1, <1>17, <1>19, <1>20 DEF Fifo!Put

\* The driver takes the first packet of its queue.
LEMMA DeliverGets ==
  ASSUME RxInv, FaultFree, Deliver PROVE \E q \in Queues : Fifo!Get(q)
<1> USE NumDescAssumption
<1>a. TypeOK /\ cur \in Queues
  BY DEF RxInv, TypeOK
<1>b. PICK c \in Queues : c = cur
  BY <1>a
<1>1. /\ UNCHANGED <<pkt, tail, cdp, seq, skb>> /\ pc = "deliver"
      /\ expect' = [expect EXCEPT ![c] = NextSeq(skb)]
      /\ pc' \in {"scan", "idle"}
  BY <1>b DEF Deliver, NextQueue, ring, hw
<1>2. Holds(c) /\ Apart(c) /\ Top(c) = cdp[c] /\ Top(c)' = cdp[c]
  BY <1>1, <1>b DEF Holds, Holding, Apart, Top
<1>3. skb = expect[c] /\ tail[c] <= cdp[c]
  BY <1>1, <1>2, QueueAt DEF Flowing
<1>4. PICK a \in Int, b \in Int : a = tail[c] /\ b = cdp[c]
  BY <1>a DEF TypeOK, Idx
<1> DEFINE s == Between(c, a, b)
<1>5. s \in Seq(Seq0) /\ skb \in Seq0
  <2>1. a \in 0 .. NumDesc /\ b \in a .. NumDesc /\ skb \in Seq0
    BY <1>3, <1>4, <1>a DEF TypeOK, Idx
  <2> QED
    BY <2>1, <1>a, BetweenIsSeq
<1>6. Pending(c) = <<skb>> \o s
  BY <1>2, <1>4, PendingAt
<1>7. Pending(c)' = s
  <2>1. ~Apart(c)' /\ (Between(c, tail[c], Top(c)))' = s
    BY <1>1, <1>2, <1>4 DEF Apart, Holds, Holding, Between
  <2> QED
    BY <2>1, NextPendingAt
<1> HIDE DEF s
<1>8. Pending(c) # <<>> /\ Head(Pending(c)) = skb /\ Pending(c)' = Tail(Pending(c))
  BY <1>5, <1>6, <1>7, Pushed
<1>9. ASSUME NEW q \in Queues, q # c PROVE Pending(q)' = Pending(q)
  <2>1. ~Apart(q) /\ ~Apart(q)' /\ Top(q) = cdp[q] /\ Top(q)' = cdp[q]
    BY <1>1, <1>9, <1>b DEF Apart, Holds, Holding, Top
  <2> QED
    BY <1>1, <2>1, PendingKept
<1>10. [q \in Queues |-> Pending(q)'] = [[q \in Queues |-> Pending(q)] EXCEPT ![c] = Tail(@)]
  BY <1>8, <1>9
<1>11. expect' = [expect EXCEPT ![c] = (skb + 1) % SeqMod]
  BY <1>1 DEF NextSeq
<1>12. Fifo!Get(c)
  BY <1>1, <1>3, <1>8, <1>10, <1>11 DEF Fifo!Get
<1> QED
  BY <1>12

\* Giving a descriptor back moves its packet, already copied, into the hands of
\* the work item: the channel is the same.
LEMMA RecycleStutters ==
  ASSUME RxInv, FaultFree, Recycle, NEW q \in Queues PROVE Pending(q)' = Pending(q)
<1> USE NumDescAssumption
<1>a. TypeOK /\ cur \in Queues
  BY DEF RxInv, TypeOK
<1>0. /\ UNCHANGED <<pkt, cdp, cur, skb>> /\ pc = "recycle"
      /\ tail' = [tail EXCEPT ![cur] = xpnet_add_and_wrap(tail[cur], 1, NumDesc)]
      /\ pc' = IF tail'[cur] = 0 THEN "setcdp" ELSE "deliver"
  BY DEF Recycle, d, hw
<1>1. /\ UNCHANGED <<pkt, cdp, cur, skb>> /\ pc = "recycle" /\ pc' \in {"setcdp", "deliver"}
      /\ tail' = [tail EXCEPT ![cur] = xpnet_add_and_wrap(tail[cur], 1, NumDesc)]
      /\ tail'[cur] = 0 => pc' = "setcdp"
      /\ tail'[cur] # 0 => pc' = "deliver"
  BY <1>0
<1>2. CASE q # cur
  <2>1. ~Apart(q) /\ ~Apart(q)' /\ Top(q)' = Top(q) /\ tail'[q] = tail[q]
    BY <1>1, <1>2, <1>a DEF Apart, Holds, Holding, Top, TypeOK
  <2> QED
    BY <1>1, <2>1, PendingKept
<1>3. CASE q = cur
  <2>1. Holds(q) /\ ~Apart(q) /\ Apart(q)' /\ Top(q) = cdp[q]
    BY <1>1, <1>3 DEF Holds, Holding, Apart, Top
  <2>2. Flowing(q) /\ skb = expect[q]
    BY <1>1, <2>1, QueueAt
  <2>3. PICK a \in Int, b \in Int : a = tail[q] /\ b = cdp[q]
    BY <1>a DEF TypeOK, Idx
  <2>4. a < b /\ pkt[q][a].num = skb
    BY <1>1, <2>1, <2>2, <2>3 DEF Flowing, Base
  <2>5. a \in 0 .. NumDesc /\ b \in a .. NumDesc /\ a \in Idx
    BY <2>3, <2>4, <1>a DEF TypeOK, Idx
  <2>6. Pending(q) = <<skb>> \o Between(q, a + 1, b)
    BY <2>1, <2>3, <2>4, <2>5, <1>a, PendingAt, FirstBetween
  <2>7. Between(q, tail[q], Top(q))' = Between(q, a + 1, b)
    <3>1. CASE a < NumDesc - 1
      <4>1. tail'[q] = a + 1 /\ a + 1 # 0
        BY <1>1, <1>3, <1>a, <2>3, <2>5, <3>1, WrapNext DEF TypeOK
      <4>2. Top(q)' = b
        BY <1>1, <1>3, <2>3, <4>1 DEF Top
      <4> QED
        BY <1>1, <4>1, <4>2 DEF Between
    <3>2. CASE a = NumDesc - 1
      <4>0. b = a + 1
        BY <2>4, <2>5, <3>2
      <4>1. tail'[q] = 0 /\ b = a + 1
        BY <1>1, <1>3, <1>a, <2>3, <2>5, <3>2, <4>0, WrapNext DEF TypeOK
      <4>2. Top(q)' = 0
        BY <1>1, <1>3, <4>1 DEF Top
      <4>3. 1 .. 0 - 0 = {} /\ 1 .. b - (a + 1) = {}
        BY <4>1, <2>3
      <4> QED
        BY <4>1, <4>2, <4>3 DEF Between
    <3> QED
      BY <2>5, <3>1, <3>2 DEF Idx
  <2> QED
    BY <1>1, <2>1, <2>6, <2>7, NextPendingAt
<1> QED
  BY <1>2, <1>3

\* Every other step of the work item and of the initialisation leaves the
\* channels as they are.
LEMMA OtherStepsStutter ==
  ASSUME RxInv, FaultFree, NEW q \in Queues,
         \/ StartQueue \/ SetTrigger \/ StartPass \/ StillOwned \/ NoSkb
         \/ CopyPacket \/ SetCdp \/ EnableQueue \/ UNCHANGED vars
  PROVE  Pending(q)' = Pending(q)
<1>a. TypeOK /\ cur \in Queues
  BY DEF RxInv, TypeOK
<1>1. CASE StartQueue \/ SetTrigger \/ UNCHANGED vars
  <2>1. UNCHANGED <<pkt, tail, cdp, pc, cur, skb>>
    BY <1>1 DEF StartQueue, SetTrigger, vars, ring, hw
  <2>2. Top(q)' = Top(q) /\ (Apart(q)' <=> Apart(q))
    BY <2>1 DEF Top, Apart, Holds, Holding
  <2> QED
    BY <2>1, <2>2, PendingKept
<1>2. CASE StartPass \/ StillOwned \/ NoSkb
  <2>1. UNCHANGED <<pkt, tail, cdp, skb>> /\ pc \in {"idle", "scan"} /\ pc' \in {"idle", "scan"}
    BY <1>2 DEF StartPass, StillOwned, NoSkb, Filled, NextQueue, ring, hw
  <2>2. Top(q)' = Top(q) /\ ~Apart(q) /\ ~Apart(q)'
    BY <2>1 DEF Top, Apart, Holds, Holding
  <2> QED
    BY <2>1, <2>2, PendingKept
<1>3. CASE CopyPacket
  <2>1. UNCHANGED <<pkt, tail, cdp, cur>> /\ pc = "scan" /\ pc' = "recycle"
    BY <1>3 DEF CopyPacket, Filled, ring, hw
  <2>2. Top(q)' = Top(q) /\ ~Apart(q) /\ ~Apart(q)'
    BY <2>1 DEF Top, Apart, Holds, Holding
  <2> QED
    BY <2>1, <2>2, PendingKept
<1>4. CASE SetCdp
  <2>1. UNCHANGED <<pkt, tail, cur, skb>> /\ pc = "setcdp" /\ pc' = "enable"
        /\ cdp' = [cdp EXCEPT ![cur] = 0]
    BY <1>4 DEF SetCdp, ring
  <2>2. Top(q)' = Top(q)
    BY <2>1, <1>a DEF Top, TypeOK
  <2>3. Apart(q)' <=> Apart(q)
    BY <2>1 DEF Apart, Holds, Holding
  <2> QED
    BY <2>1, <2>2, <2>3, PendingKept
<1>5. CASE EnableQueue
  <2>1. UNCHANGED <<pkt, tail, cdp, cur, skb>> /\ pc = "enable" /\ pc' = "deliver"
    BY <1>5 DEF EnableQueue, ring
  <2>2. Top(q)' = Top(q) /\ (Apart(q)' <=> Apart(q))
    BY <2>1 DEF Top, Apart, Holds, Holding
  <2> QED
    BY <2>1, <2>2, PendingKept
<1> QED
  BY <1>1, <1>2, <1>3, <1>4, <1>5

LEMMA SeqKept ==
  ASSUME \/ StartQueue \/ SetTrigger \/ StartPass \/ StillOwned \/ NoSkb
         \/ CopyPacket \/ Recycle \/ SetCdp \/ EnableQueue \/ UNCHANGED vars
  PROVE  UNCHANGED <<seq, expect>>
BY DEF StartQueue, SetTrigger, StartPass, StillOwned, NoSkb, CopyPacket, Recycle, SetCdp,
       EnableQueue, vars, hw

LEMMA FifoStart == ASSUME Init PROVE Fifo!FifoInit
<1>1. ASSUME NEW q \in Queues PROVE Pending(q) = <<>>
  <2>1. ~Apart(q) /\ tail[q] = 0 /\ Top(q) = 0
    BY DEF Init, Apart, Holds, Holding, Top
  <2>2. Between(q, 0, 0) = <<>>
    <3>1. 1 .. 0 - 0 = {}
      OBVIOUS
    <3> QED
      BY <3>1 DEF Between
  <2> QED
    BY <2>1, <2>2, PendingAt
<1>2. [q \in Queues |-> Pending(q)] = [q \in Queues |-> <<>>]
  BY <1>1
<1> QED
  BY <1>2 DEF Init, Fifo!FifoInit

LEMMA FifoStep ==
  ASSUME Faults = {}, RxInv, FaultFree, [Next]_vars
  PROVE  [Fifo!FifoNext]_(Fifo!fifoVars)
<1>1. CASE \E q \in Queues : HwFill(q)
  BY <1>1, FillPuts DEF Fifo!FifoNext
<1>2. CASE Deliver
  BY <1>2, DeliverGets DEF Fifo!FifoNext
<1>3. CASE \/ StartQueue \/ SetTrigger \/ StartPass \/ StillOwned \/ NoSkb
           \/ CopyPacket \/ Recycle \/ SetCdp \/ EnableQueue \/ UNCHANGED vars
  <2>1. \A q \in Queues : Pending(q)' = Pending(q)
    BY <1>3, RecycleStutters, OtherStepsStutter
  <2>2. [q \in Queues |-> Pending(q)'] = [q \in Queues |-> Pending(q)]
    BY <2>1
  <2>3. UNCHANGED <<seq, expect>>
    BY <1>3, SeqKept
  <2> QED
    BY <2>2, <2>3 DEF Fifo!fifoVars
<1>4. ~DmaError /\ ~SizeError
  <2>1. \A i \in Idx : ~err[cur][i] /\ pkt[cur][i].fits
    BY DEF RxInv, FaultFree, TypeOK
  <2>2. d \in Idx
    BY DEF d, RxInv, TypeOK
  <2> QED
    BY <2>1, <2>2 DEF DmaError, SizeError
<1>5. \A q \in Queues : ~HwError(q)
  BY DEF HwError
<1> QED
  BY <1>1, <1>2, <1>3, <1>4, <1>5 DEF Next, Work

\* As long as the DMA engine reports no error and no oversized packet, every RX
\* queue is the FIFO RxFifo describes: what xpnet_rx_queue_process hands to the
\* stack is what the engine received, in that order, none lost and none twice,
\* with at most one packet more under way than the ring has descriptors.
THEOREM RefinesTheFifo == ASSUME Faults = {} PROVE Spec => RefinesFifo
<1>1. Init => FaultFree
  BY FaultFreeInit
<1>2. RxInv /\ FaultFree /\ [Next]_vars => FaultFree'
  BY FaultFreeNext
<1>3. Init => Fifo!FifoInit
  BY FifoStart
<1>4. RxInv /\ FaultFree /\ [Next]_vars => [Fifo!FifoNext]_(Fifo!fifoVars)
  BY FifoStep
<1> QED
  BY <1>1, <1>2, <1>3, <1>4, Invariance, PTL DEF Spec, RefinesFifo, Fifo!FifoSpec

\* As long as the engine reports no error and no oversized packet, an enabled
\* queue stands at a descriptor of the engine: it never has to refuse a packet
\* before the end of the chain, however slow xpnet_rx_queue_process is.
THEOREM EngineIsNeverBlocked == ASSUME Faults = {} PROVE Spec => []EngineNeverBlocked
<1>1. Init => FaultFree
  BY FaultFreeInit
<1>2. RxInv /\ FaultFree /\ [Next]_vars => FaultFree'
  BY FaultFreeNext
<1>3. RxInv /\ FaultFree => EngineNeverBlocked
  <2> SUFFICES ASSUME RxInv, FaultFree, NEW q \in Queues, en[q]
               PROVE  cdp[q] # End /\ own[q][cdp[q]]
    BY DEF EngineNeverBlocked
  <2>1. ~(Holds(q) /\ pc = "setcdp")
    BY QueueAt DEF AtEnd
  <2>2. cdp[q] # End /\ \A i \in Idx : own[q][i] <=> ~(tail[q] <= i /\ i < cdp[q])
    BY <2>1, QueueAt DEF Flowing
  <2>3. cdp[q] \in Idx
    BY <2>2, NumDescAssumption DEF RxInv, TypeOK, Idx, End
  <2> QED
    BY <2>2, <2>3 DEF Idx
<1> QED
  BY <1>1, <1>2, <1>3, Invariance, PTL DEF Spec

=============================================================================
