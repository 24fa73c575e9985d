----------------------------- MODULE XpNdoProof -----------------------------
(***************************************************************************)
(* Proofs about XpNdo: for every number of net devices and any TX headers, *)
(* a frame is given to the DMA queue with exactly one TX header and the    *)
(* copy made for a header is freed on every path.                          *)
(***************************************************************************)
EXTENDS XpNdo, FiniteSetTheorems, TLAPS

\* Pushing a header on an skb without one (skb_push and memcpy of
\* xp_ndo_start_xmit) gives an skb with one.
LEMMA PushFirst ==
  ASSUME NEW skb \in Skb, skb.hdrs = <<>>, NEW h \in Headers \cup {NoHeader}
  PROVE  /\ Push(skb, h) \in Skb
         /\ Push(skb, h) # None
         /\ DOMAIN Push(skb, h).hdrs = {1}
<1> DEFINE one == [n \in 1 .. 1 |-> h]
<1>1. one \in [1 .. 1 -> Headers \cup {NoHeader}]
  OBVIOUS
<1>2. DOMAIN skb.hdrs = {}
  OBVIOUS
<1>3. Cardinality(DOMAIN skb.hdrs) + 1 = 1
  BY <1>2, FS_EmptySet
<1>4. Push(skb, h) = [skb EXCEPT !.hdrs = [n \in 1 .. 1 |->
                                            IF n = 1 THEN h ELSE skb.hdrs[n - 1]]]
  BY <1>3 DEF Push
<1>5. [n \in 1 .. 1 |-> IF n = 1 THEN h ELSE skb.hdrs[n - 1]] = one
  OBVIOUS
<1>6. Push(skb, h) = [skb EXCEPT !.hdrs = one]
  BY <1>4, <1>5
<1>7. one \in UNION {[1 .. n -> Headers \cup {NoHeader}] : n \in 0 .. 2}
  BY <1>1
<1>8. DOMAIN one = {1}
  OBVIOUS
<1> HIDE DEF one
<1>9. Push(skb, h) \in Skb
  BY <1>6, <1>7 DEF Skb
<1>10. Push(skb, h).hdrs = one
  BY <1>6 DEF Skb
<1> QED
  BY <1>8, <1>9, <1>10, NoneAssumption

\* A fresh skb of the kernel.
LEMMA FreshSkb ==
  ASSUME NEW room \in BOOLEAN
  PROVE  [hdrs |-> <<>>, room |-> room] \in Skb
<1>1. <<>> \in [1 .. 0 -> Headers \cup {NoHeader}]
  OBVIOUS
<1>2. <<>> \in UNION {[1 .. n -> Headers \cup {NoHeader}] : n \in 0 .. 2}
  BY <1>1
<1> QED
  BY <1>2 DEF Skb

\* The part of HeaderInv about one device.
DevInv(x) ==
  /\ pc[x] = "idle" => /\ copy[x] = None
                       /\ queued[x] # None /\ queued[x].hdrs # <<>>
                            => up[x] /\ stopped[x]
  /\ pc[x] = "xmit" => /\ up[x]
                       /\ queued[x] # None
                       /\ DOMAIN Given(x).hdrs = {1}
                       /\ copy[x] # None => queued[x].hdrs = <<>>

\* What is not touched for a device leaves its part of the invariant alone.
LEMMA Untouched ==
  ASSUME NEW y, DevInv(y),
         up'[y] = up[y], stopped'[y] = stopped[y], queued'[y] = queued[y],
         pc'[y] = pc[y], copy'[y] = copy[y]
  PROVE  DevInv(y)'
  BY DEF DevInv, Given

\* Every step keeps the variables in their ranges.  (A header is pushed only
\* on an skb without one: this needs HeaderInv.)
LEMMA TypeStep ==
  ASSUME TypeOK, HeaderInv, [Next]_vars
  PROVE  TypeOK'
<1> USE DEF TypeOK
<1>1. ASSUME NEW x \in Devs, xp_ndo_open(x) PROVE TypeOK'
  BY <1>1 DEF xp_ndo_open, socket
<1>2. ASSUME NEW x \in Devs, xp_ndo_stop(x) PROVE TypeOK'
  BY <1>2 DEF xp_ndo_stop, socket
<1>3. ASSUME NEW x \in Devs, NEW h \in Headers \cup {NoHeader}, xp_nl_msg_tx_header(x, h)
      PROVE TypeOK'
  BY <1>3 DEF xp_nl_msg_tx_header, socket
<1>4. ASSUME NEW x \in Devs, NEW room \in BOOLEAN, Submit(x, room) PROVE TypeOK'
  <2>1. [hdrs |-> <<>>, room |-> room] \in Skb
    BY FreshSkb
  <2> DEFINE fresh == [hdrs |-> <<>>, room |-> room]
  <2> HIDE DEF fresh
  <2>2. queued' = [queued EXCEPT ![x] = fresh]
    BY <1>4 DEF Submit, fresh
  <2>3. fresh \in Skb
    BY <2>1 DEF fresh
  <2> QED
    BY <1>4, <2>2, <2>3 DEF Submit, socket
<1>5. ASSUME NEW x \in Devs, XmitDown(x) PROVE TypeOK'
  BY <1>5 DEF XmitDown, socket
<1>6. ASSUME NEW x \in Devs, XmitPush(x) PROVE TypeOK'
  <2> DEFINE pushed == Push(queued[x], tx_header[x])
  <2>1. queued[x] \in Skb /\ queued[x].hdrs = <<>>
    BY <1>6 DEF HeaderInv, XmitPush, CallXmit
  <2>2. pushed \in Skb
    BY <2>1, PushFirst
  <2>3. IF queued[x].room
        THEN queued' = [queued EXCEPT ![x] = pushed] /\ copy' = copy
        ELSE copy' = [copy EXCEPT ![x] = pushed] /\ queued' = queued
    BY <1>6 DEF XmitPush
  <2> HIDE DEF pushed
  <2> QED
    BY <1>6, <2>2, <2>3 DEF XmitPush, socket
<1>7. ASSUME NEW x \in Devs, XmitOk(x) PROVE TypeOK'
  BY <1>7 DEF XmitOk, socket
<1>8. ASSUME NEW x \in Devs, XmitBusy(x) PROVE TypeOK'
  BY <1>8 DEF XmitBusy, socket
<1>9. CASE Datagram
  BY <1>9, MaxDatagramsAssumption DEF Datagram
<1>10. CASE SendTake
  BY <1>10, MaxDatagramsAssumption DEF SendTake
<1>11. CASE SendDone
  BY <1>11 DEF SendDone
<1>12. CASE UNCHANGED vars
  BY <1>12 DEF vars, socket
<1> HIDE DEF TypeOK
<1> QED
  BY <1>1, <1>2, <1>3, <1>4, <1>5, <1>6, <1>7, <1>8, <1>9, <1>10, <1>11, <1>12
  DEF Next, Xmit

\* Every step keeps the invariant of every device.
LEMMA HeaderStep ==
  ASSUME TypeOK, HeaderInv, [Next]_vars
  PROVE  HeaderInv'
<1> SUFFICES ASSUME NEW y \in Devs PROVE DevInv(y)'
  BY DEF HeaderInv, DevInv, Given
<1>0. DevInv(y)
  BY DEF HeaderInv, DevInv
<1>a. /\ up \in [Devs -> BOOLEAN] /\ stopped \in [Devs -> BOOLEAN]
      /\ tx_header \in [Devs -> Headers \cup {NoHeader}]
      /\ queued \in [Devs -> Skb \cup {None}] /\ copy \in [Devs -> Skb \cup {None}]
      /\ pc \in [Devs -> {"idle", "xmit"}]
  BY DEF TypeOK
<1>1. ASSUME NEW x \in Devs, xp_ndo_open(x) PROVE DevInv(y)'
  BY <1>0, <1>a, <1>1 DEF xp_ndo_open, DevInv, Given
<1>2. ASSUME NEW x \in Devs, xp_ndo_stop(x) PROVE DevInv(y)'
  <2>1. CASE x = y
    BY <1>0, <1>a, <1>2, <2>1 DEF xp_ndo_stop, DevInv, Given
  <2>2. CASE x # y
    BY <1>0, <1>a, <1>2, <2>2, Untouched DEF xp_ndo_stop
  <2> QED
    BY <2>1, <2>2
<1>3. ASSUME NEW x \in Devs, NEW h, xp_nl_msg_tx_header(x, h) PROVE DevInv(y)'
  BY <1>0, <1>3, Untouched DEF xp_nl_msg_tx_header
<1>4. ASSUME NEW x \in Devs, NEW room, Submit(x, room) PROVE DevInv(y)'
  <2>1. CASE x = y
    <3>1. pc[y] = "idle" /\ copy[y] = None
      BY <1>0, <1>a, <1>4, <2>1 DEF Submit, DevInv
    <3>2. queued'[y].hdrs = <<>>
      BY <1>a, <1>4, <2>1 DEF Submit
    <3>3. pc' = pc /\ copy' = copy
      BY <1>4 DEF Submit
    <3> QED
      BY <3>1, <3>2, <3>3 DEF DevInv
  <2>2. CASE x # y
    BY <1>0, <1>a, <1>4, <2>2, Untouched DEF Submit
  <2> QED
    BY <2>1, <2>2
<1>5. ASSUME NEW x \in Devs, XmitDown(x) PROVE DevInv(y)'
  <2>1. CASE x = y
    BY <1>0, <1>a, <1>5, <2>1 DEF XmitDown, CallXmit, DevInv
  <2>2. CASE x # y
    BY <1>0, <1>a, <1>5, <2>2, Untouched DEF XmitDown
  <2> QED
    BY <2>1, <2>2
<1>6. ASSUME NEW x \in Devs, XmitPush(x) PROVE DevInv(y)'
  <2>1. CASE x = y
    <3> DEFINE pushed == Push(queued[y], tx_header[y])
    <3>1. queued[y] \in Skb /\ queued[y].hdrs = <<>> /\ copy[y] = None /\ queued[y] # None
      BY <1>0, <1>a, <1>6, <2>1 DEF DevInv, XmitPush, CallXmit
    <3>2. pushed # None /\ DOMAIN pushed.hdrs = {1}
      BY <1>a, <3>1, PushFirst
    <3>3. IF queued[y].room
          THEN queued' = [queued EXCEPT ![y] = pushed] /\ copy' = copy
          ELSE copy' = [copy EXCEPT ![y] = pushed] /\ queued' = queued
      BY <1>6, <2>1 DEF XmitPush
    <3>4. pc'[y] = "xmit" /\ up'[y]
      BY <1>6, <1>a, <2>1 DEF XmitPush
    <3> HIDE DEF pushed
    <3> QED
      BY <1>a, <3>1, <3>2, <3>3, <3>4 DEF DevInv, Given
  <2>2. CASE x # y
    BY <1>0, <1>a, <1>6, <2>2, Untouched DEF XmitPush
  <2> QED
    BY <2>1, <2>2
<1>7. ASSUME NEW x \in Devs, XmitOk(x) PROVE DevInv(y)'
  <2>1. CASE x = y
    BY <1>a, <1>7, <2>1 DEF XmitOk, DevInv
  <2>2. CASE x # y
    BY <1>0, <1>a, <1>7, <2>2, Untouched DEF XmitOk
  <2> QED
    BY <2>1, <2>2
<1>8. ASSUME NEW x \in Devs, XmitBusy(x) PROVE DevInv(y)'
  <2>1. CASE x = y
    BY <1>0, <1>a, <1>8, <2>1 DEF XmitBusy, DevInv
  <2>2. CASE x # y
    BY <1>0, <1>a, <1>8, <2>2, Untouched DEF XmitBusy
  <2> QED
    BY <2>1, <2>2
<1>9. CASE Datagram \/ SendTake \/ SendDone \/ UNCHANGED vars
  BY <1>0, <1>9, Untouched DEF Datagram, SendTake, SendDone, vars
<1> QED
  BY <1>1, <1>2, <1>3, <1>4, <1>5, <1>6, <1>7, <1>8, <1>9 DEF Next, Xmit

\* Every variable of the devices and of the client socket stays in its range,
\* and the invariant behind OneHeader and CopyFreed holds, for any devices and
\* headers: an skb that kept its header after BUSY is never pushed on again
\* (xp_ndo_start_xmit stops the queue, and only xp_ndo_open starts it).
THEOREM Invariance == Spec => [](TypeOK /\ HeaderInv)
<1>1. Init => TypeOK /\ HeaderInv
  <2> SUFFICES ASSUME Init PROVE TypeOK /\ HeaderInv
    OBVIOUS
  <2>0. receive_queue \in 0 .. MaxDatagrams
    BY MaxDatagramsAssumption DEF Init
  <2>1. TypeOK
    BY <2>0, Zenon DEF Init, TypeOK
  <2>2. ASSUME NEW x \in Devs PROVE copy[x] = None /\ queued[x] = None /\ pc[x] = "idle"
    BY DEF Init
  <2> QED
    BY <2>1, <2>2 DEF HeaderInv
<1>2. TypeOK /\ HeaderInv /\ [Next]_vars => (TypeOK /\ HeaderInv)'
  BY TypeStep, HeaderStep
<1> QED
  BY <1>1, <1>2, PTL DEF Spec

\* A frame reaches xpnet_start_xmit with exactly one TX header, whatever the
\* interleaving of xmits, refusals, openings and closings of the devices.
THEOREM ExactlyOneHeader == Spec => []OneHeader
<1>1. HeaderInv => OneHeader
  BY DEF HeaderInv, OneHeader
<1> QED
  BY <1>1, Invariance, PTL

\* new_skb of xp_ndo_start_xmit is freed on every path, and the original it was
\* made from stays without a header.
THEOREM CopyIsFreed == Spec => []CopyFreed
<1>1. TypeOK /\ HeaderInv => CopyFreed
  BY DEF TypeOK, HeaderInv, CopyFreed
<1> QED
  BY <1>1, Invariance, PTL

=============================================================================
