----------------------------- MODULE XpIntfProof ----------------------------
(***************************************************************************)
(* Proofs about xp_netdev_intf.c.                                          *)
(*                                                                         *)
(* About XpIntf: for any devices and interface numbers, the hash table     *)
(* holds exactly the linked devices of the list, and a packet reaches the  *)
(* devices it should although netlink handlers run between its two         *)
(* lookups.                                                                *)
(*                                                                         *)
(* About XpNetlink: the requests of several namespaces are serialised, and *)
(* the messages of a request, any number of them, are handled in order.    *)
(***************************************************************************)
EXTENDS XpIntf, XpNetlink, FiniteSetTheorems, TLAPS

\* A chain: entries of devices, each device at most once.
IsChain(s) ==
  /\ s \in Seq(Ids)
  /\ \A j, k \in 1 .. Len(s) : s[j] = s[k] => j = k

\* hash_del takes exactly the entry of the device out of the chain.
LEMMA WithoutIsChain ==
  ASSUME NEW s, IsChain(s), NEW i
  PROVE  /\ IsChain(Without(s, i))
         /\ Members(Without(s, i)) = Members(s) \ {i}
<1>1. CASE i \notin Members(s)
  BY <1>1 DEF Without
<1>2. CASE i \in Members(s)
  <2> DEFINE k == CHOOSE n \in 1 .. Len(s) : s[n] = i
             t == [n \in 1 .. Len(s) - 1 |-> IF n < k THEN s[n] ELSE s[n + 1]]
  <2>1. k \in 1 .. Len(s) /\ s[k] = i
    BY <1>2 DEF Members
  <2>2. Without(s, i) = t
    BY <1>2 DEF Without
  <2> HIDE DEF k
  <2>3. Len(s) \in Nat /\ Len(s) >= 1
    BY <2>1 DEF IsChain
  <2>4. \A n \in 1 .. Len(s) : s[n] \in Ids
    BY DEF IsChain
  <2>5. t \in [1 .. Len(s) - 1 -> Ids]
    BY <2>1, <2>3, <2>4
  <2>6. t \in Seq(Ids) /\ Len(t) = Len(s) - 1
    BY <2>3, <2>5
  <2>7. \A n \in 1 .. Len(t) : t[n] = IF n < k THEN s[n] ELSE s[n + 1]
    BY <2>6
  <2> HIDE DEF t
  <2>8. ASSUME NEW n \in 1 .. Len(t), NEW m \in 1 .. Len(t), t[n] = t[m]
        PROVE  n = m
    BY <2>1, <2>3, <2>6, <2>7, <2>8 DEF IsChain
  <2>9. ASSUME NEW n \in 1 .. Len(t) PROVE t[n] \in Members(s) \ {i}
    <3>1. CASE n < k
      <4>1. n \in 1 .. Len(s) /\ n # k /\ t[n] = s[n]
        BY <2>3, <2>6, <2>7, <2>1, <3>1
      <4> QED
        BY <4>1, <2>1 DEF Members, IsChain
    <3>2. CASE ~(n < k)
      <4>1. n + 1 \in 1 .. Len(s) /\ n + 1 # k /\ t[n] = s[n + 1]
        BY <2>3, <2>6, <2>7, <2>1, <3>2
      <4> QED
        BY <4>1, <2>1 DEF Members, IsChain
    <3> QED
      BY <3>1, <3>2
  <2>10. ASSUME NEW j \in Members(s) \ {i} PROVE \E n \in 1 .. Len(t) : t[n] = j
    <3>1. PICK m \in 1 .. Len(s) : s[m] = j
      BY DEF Members
    <3>2. CASE m < k
      <4>1. m \in 1 .. Len(t) /\ t[m] = j
        BY <2>1, <2>3, <2>6, <2>7, <3>1, <3>2
      <4> QED
        BY <4>1
    <3>3. CASE ~(m < k)
      <4>1. m - 1 \in 1 .. Len(t)
        BY <2>1, <2>3, <2>6, <3>1, <3>3
      <4>2. t[m - 1] = j
        BY <2>1, <2>3, <2>7, <3>1, <3>3, <4>1
      <4> QED
        BY <4>1, <4>2
    <3> QED
      BY <3>2, <3>3
  <2>11. Members(t) = Members(s) \ {i}
    BY <2>9, <2>10 DEF Members
  <2> QED
    BY <2>2, <2>6, <2>8, <2>11 DEF IsChain
<1> QED
  BY <1>1, <1>2

\* hash_add puts the entry of a device that is in no chain at the head.
LEMMA AddIsChain ==
  ASSUME NEW s, IsChain(s), NEW i \in Ids, i \notin Members(s)
  PROVE  /\ IsChain(<<i>> \o s)
         /\ Members(<<i>> \o s) = Members(s) \cup {i}
<1> DEFINE t == <<i>> \o s
<1>1. t \in Seq(Ids) /\ Len(t) = Len(s) + 1 /\ Len(s) \in Nat
  BY DEF IsChain
<1>2. t[1] = i /\ \A n \in 2 .. Len(t) : t[n] = s[n - 1]
  BY DEF IsChain
<1> HIDE DEF t
<1>3. \A n \in 2 .. Len(t) : n - 1 \in 1 .. Len(s) /\ t[n] \in Members(s)
  BY <1>1, <1>2 DEF Members
<1>4. ASSUME NEW n \in 1 .. Len(t), NEW m \in 1 .. Len(t), t[n] = t[m]
      PROVE  n = m
  <2>1. CASE n = 1 \/ m = 1
    BY <1>1, <1>2, <1>3, <1>4, <2>1
  <2>2. CASE n # 1 /\ m # 1
    <3>1. n \in 2 .. Len(t) /\ m \in 2 .. Len(t)
      BY <1>1, <2>2
    <3>2. s[n - 1] = s[m - 1]
      BY <1>2, <1>4, <3>1
    <3>3. n - 1 = m - 1
      BY <1>3, <3>1, <3>2 DEF IsChain
    <3> QED
      BY <1>1, <3>3
  <2> QED
    BY <2>1, <2>2
<1>5. ASSUME NEW j \in Members(s) PROVE \E n \in 1 .. Len(t) : t[n] = j
  <2>1. PICK m \in 1 .. Len(s) : s[m] = j
    BY DEF Members
  <2>2. m + 1 \in 2 .. Len(t) /\ m + 1 \in 1 .. Len(t) /\ (m + 1) - 1 = m
    BY <1>1
  <2>3. t[m + 1] = j
    BY <1>2, <2>1, <2>2
  <2> QED
    BY <2>2, <2>3
<1>6. 1 \in 1 .. Len(t)
  BY <1>1
<1>7. \A n \in 1 .. Len(t) : n = 1 \/ n \in 2 .. Len(t)
  BY <1>1
<1>8. Members(t) = Members(s) \cup {i}
  <2>1. \A n \in 1 .. Len(t) : t[n] \in Members(s) \cup {i}
    BY <1>2, <1>3, <1>7
  <2>2. \A j \in Members(s) \cup {i} : \E n \in 1 .. Len(t) : t[n] = j
    BY <1>2, <1>5, <1>6
  <2>3. Members(t) = {t[n] : n \in 1 .. Len(t)}
    BY DEF Members
  <2> QED
    BY <2>1, <2>2, <2>3
<1>9. \A n, m \in 1 .. Len(t) : t[n] = t[m] => n = m
  BY <1>4
<1>10. IsChain(t)
  BY <1>1, <1>9, Zenon DEF IsChain
<1> QED
  BY <1>8, <1>10 DEF t

\* The chain is what TypeOK and ChainInv say of it.
LEMMA ChainIsChain ==
  ASSUME TypeOK, ChainInv
  PROVE  IsChain(chain)
  BY DEF TypeOK, ChainInv, IsChain

\* Every step keeps the variables in their ranges and the hash table in
\* agreement with the list of devices.
LEMMA ChainStep ==
  ASSUME TypeOK, ChainInv, [Next]_vars
  PROVE  TypeOK' /\ ChainInv'
<1> DEFINE Links == {n \in Numbers : IsFp(n) \/ IsBd(n) \/ IsLag(n)} \cup {NoVif}
<1>a. /\ netdevs \subseteq Ids
      /\ link \in [Ids -> Links]
      /\ chain \in Seq(Ids)
      /\ pc \in {"idle", "vif", "rif", "done"}
      /\ pkt \in [vif : Nat \cup {NoVif}, rif : Nat \cup {NoVif}]
      /\ got \in Seq(Ids)
      /\ steady \subseteq Ids
      /\ failed \in BOOLEAN
  BY DEF TypeOK
<1>b. IsChain(chain)
  BY ChainIsChain
<1>c. Members(chain) = {i \in netdevs : link[i] # NoVif}
  BY DEF ChainInv
<1>d. NoVif \in Links
  OBVIOUS
<1>e. SUFFICES /\ netdevs' \subseteq Ids
               /\ link' \in [Ids -> Links]
               /\ IsChain(chain')
               /\ Members(chain') = {i \in netdevs' : link'[i] # NoVif}
               /\ pc' \in {"idle", "vif", "rif", "done"}
               /\ pkt' \in [vif : Nat \cup {NoVif}, rif : Nat \cup {NoVif}]
               /\ got' \in Seq(Ids)
               /\ steady' \subseteq Ids
               /\ failed' \in BOOLEAN
  BY DEF TypeOK, ChainInv, IsChain, IsFp, IsBd, IsLag, Members
<1> HIDE DEF Links
<1> USE <1>a
<1>1. ASSUME NEW i \in Ids, xp_nl_msg_if_create(i) PROVE <1>e!1
  <2>1. /\ chain' = chain /\ netdevs' = netdevs \cup {i} /\ i \notin netdevs
        /\ link' = [link EXCEPT ![i] = NoVif]
        /\ pc' = pc /\ pkt' = pkt /\ got' = got /\ failed' = failed /\ steady' = steady
    BY <1>1 DEF xp_nl_msg_if_create, rx
  <2>2. Members(chain') = {j \in netdevs' : link'[j] # NoVif}
    BY <1>c, <2>1
  <2> QED
    BY <1>b, <1>d, <2>1, <2>2
<1>2. ASSUME NEW i \in Ids, xp_nl_msg_if_delete(i) PROVE <1>e!1
  <2>1. /\ chain' = Without(chain, i) /\ netdevs' = netdevs \ {i}
        /\ link' = [link EXCEPT ![i] = NoVif]
        /\ pc' = pc /\ pkt' = pkt /\ got' = got /\ failed' = failed /\ steady' = steady \ {i}
    BY <1>2 DEF xp_nl_msg_if_delete, rx
  <2>2. IsChain(chain') /\ Members(chain') = Members(chain) \ {i}
    BY <1>b, <2>1, WithoutIsChain
  <2>3. Members(chain') = {j \in netdevs' : link'[j] # NoVif}
    BY <1>c, <2>1, <2>2
  <2> QED
    BY <1>d, <2>1, <2>2, <2>3
<1>3. ASSUME NEW i \in Ids, NEW n \in Numbers, xp_nl_msg_if_link(i, n) PROVE <1>e!1
  <2>1. /\ chain' = <<i>> \o chain /\ netdevs' = netdevs /\ i \in netdevs
        /\ link[i] = NoVif
        /\ link' = [link EXCEPT ![i] = n]
        /\ pc' = pc /\ pkt' = pkt /\ got' = got /\ failed' = failed /\ steady' = steady \ {i}
    BY <1>3 DEF xp_nl_msg_if_link, rx
  <2>2. n \in Links /\ n # NoVif
    BY <1>3, NumbersAssumption DEF xp_nl_msg_if_link, Links
  <2>3. i \notin Members(chain)
    BY <1>c, <2>1
  <2>4. IsChain(chain') /\ Members(chain') = Members(chain) \cup {i}
    BY <1>b, <2>1, <2>3, AddIsChain
  <2>5. Members(chain') = {j \in netdevs' : link'[j] # NoVif}
    <3>1. \A j \in netdevs : link'[j] = IF j = i THEN n ELSE link[j]
      BY <2>1
    <3> QED
      BY <1>c, <2>1, <2>2, <2>4, <3>1
  <2> QED
    BY <2>1, <2>2, <2>4, <2>5
<1>4. ASSUME NEW i \in Ids, xp_nl_msg_if_unlink(i) PROVE <1>e!1
  <2>1. /\ chain' = Without(chain, i) /\ netdevs' = netdevs
        /\ link' = [link EXCEPT ![i] = NoVif]
        /\ pc' = pc /\ pkt' = pkt /\ got' = got /\ failed' = failed /\ steady' = steady \ {i}
    BY <1>4 DEF xp_nl_msg_if_unlink, rx
  <2>2. IsChain(chain') /\ Members(chain') = Members(chain) \ {i}
    BY <1>b, <2>1, WithoutIsChain
  <2>3. Members(chain') = {j \in netdevs' : link'[j] # NoVif}
    BY <1>c, <2>1, <2>2
  <2> QED
    BY <1>d, <2>1, <2>2, <2>3
<1>5. CASE xp_netdev_all_remove
  <2>1. /\ chain' = <<>> /\ netdevs' = {} /\ link' = [i \in Ids |-> NoVif]
        /\ pc' = pc /\ pkt' = pkt /\ got' = got /\ failed' = failed /\ steady' = {}
    BY <1>5 DEF xp_netdev_all_remove, rx
  <2>2. IsChain(<<>>) /\ Members(<<>>) = {}
    BY DEF IsChain, Members
  <2> QED
    BY <1>d, <2>1, <2>2
<1>6. ASSUME NEW p \in Ports, NEW v \in Vifs, NEW b \in Bds, Arrive(p, v, b) PROVE <1>e!1
  <2>1. /\ pkt' = skb_info(p, v, b) /\ pc' \in {"rif", "vif"} /\ got' = <<>>
        /\ netdevs' = netdevs /\ link' = link /\ chain' = chain /\ failed' = FALSE
        /\ steady' = netdevs
    BY <1>6 DEF Arrive
  <2>2. skb_info(p, v, b) \in [vif : Nat \cup {NoVif}, rif : Nat \cup {NoVif}]
    BY NumbersAssumption, RangesAssumption DEF skb_info
  <2>3. <<>> \in Seq(Ids)
    OBVIOUS
  <2> QED
    BY <1>b, <1>c, <2>1, <2>2, <2>3
<1>7. ASSUME NEW n, Lookup(n), pc' \in {"rif", "done"},
             UNCHANGED <<netdevs, link, chain, pkt, steady>>
      PROVE <1>e!1
  <2>1. failed' \in BOOLEAN
    BY <1>7 DEF Lookup
  <2>2. got' \in Seq(Ids)
    <3>1. \/ got' = got
          \/ \E k \in 1 .. Len(chain) : got' = Append(got, chain[k])
      BY <1>7 DEF Lookup, Matches
    <3>2. ASSUME NEW k \in 1 .. Len(chain) PROVE Append(got, chain[k]) \in Seq(Ids)
      OBVIOUS
    <3> QED
      BY <3>1, <3>2
  <2> QED
    BY <1>b, <1>c, <1>7, <2>1, <2>2
<1>8. CASE LookupVif
  BY <1>7, <1>8 DEF LookupVif
<1>9. CASE LookupRif
  BY <1>7, <1>9 DEF LookupRif
<1>10. CASE Done
  <2>1. [vif |-> NoVif, rif |-> NoVif] \in [vif : Nat \cup {NoVif}, rif : Nat \cup {NoVif}]
    OBVIOUS
  <2>2. <<>> \in Seq(Ids)
    OBVIOUS
  <2> QED
    BY <1>b, <1>c, <1>10, <2>1, <2>2 DEF Done
<1>11. CASE UNCHANGED vars
  BY <1>b, <1>c, <1>11 DEF vars
<1> QED
  BY <1>1, <1>2, <1>3, <1>4, <1>5, <1>6, <1>8, <1>9, <1>10, <1>11 DEF Next

\* A lookup finds a device linked to the number (or runs out of memory) if
\* one has been linked to it since the packet arrived.
LEMMA LookupFinds ==
  ASSUME TypeOK, ChainInv, steady \subseteq netdevs, NEW n, Lookup(n)
  PROVE  \/ got' = got /\ failed' = failed /\ ~Linked(n)
         \/ got' = got /\ failed' = TRUE
         \/ failed' = failed /\ \E i \in Ids : link[i] = n /\ got' = Append(got, i)
<1>1. CASE Matches(n) = {} /\ UNCHANGED <<got, failed>>
  <2>1. ASSUME Linked(n) PROVE FALSE
    <3>1. PICK i \in steady : link[i] = n /\ n # NoVif
      BY <2>1 DEF Linked
    <3>2. i \in Members(chain)
      BY <3>1 DEF ChainInv
    <3>3. PICK k \in 1 .. Len(chain) : chain[k] = i
      BY <3>2 DEF Members
    <3>4. k \in Matches(n)
      BY <3>1, <3>3 DEF Matches
    <3> QED
      BY <1>1, <3>4
  <2> QED
    BY <1>1, <2>1
<1>2. ASSUME NEW k \in Matches(n),
             \/ got' = Append(got, chain[k]) /\ UNCHANGED failed
             \/ failed' = TRUE /\ UNCHANGED got
      PROVE  \/ got' = got /\ failed' = TRUE
             \/ failed' = failed /\ \E i \in Ids : link[i] = n /\ got' = Append(got, i)
  <2>1. chain[k] \in Ids /\ link[chain[k]] = n
    BY DEF TypeOK, Matches
  <2> QED
    BY <1>2, <2>1
<1> QED
  BY <1>1, <1>2 DEF Lookup

\* A netlink handler that takes the devices whose link it changes out of
\* steady leaves the account of the lookups alone.
LEMMA HandlerKeeps ==
  ASSUME LookupInv, UNCHANGED rx, steady' \subseteq steady, steady' \subseteq netdevs',
         \A i \in steady' : link'[i] = link[i]
  PROVE  LookupInv'
<1>1. pc' = pc /\ pkt' = pkt /\ got' = got /\ failed' = failed
  BY DEF rx
<1>2. \A n : Linked(n)' => Linked(n)
  BY DEF Linked
<1>3. \A k, S : GotFor(k, S) => GotFor(k, S)'
  BY <1>1 DEF GotFor
<1>4. Linked(pkt.vif)' => Linked(pkt.vif)
  BY <1>1, <1>2
<1>5. Linked(pkt.rif)' => Linked(pkt.rif)
  BY <1>1, <1>2
<1>6. /\ GotFor(1, {pkt.vif}) => GotFor(1, {pkt.vif})'
      /\ GotFor(2, {pkt.rif}) => GotFor(2, {pkt.rif})'
      /\ GotFor(1, {pkt.vif, pkt.rif}) => GotFor(1, {pkt.vif, pkt.rif})'
  BY <1>1 DEF GotFor
<1> QED
  BY <1>1, <1>4, <1>5, <1>6 DEF LookupInv

\* Every step keeps the account of the lookups.
LEMMA LookupStep ==
  ASSUME TypeOK, ChainInv, LookupInv, [Next]_vars
  PROVE  LookupInv'
<1>a. steady \subseteq netdevs /\ got \in Seq(Ids) /\ link \in [Ids -> Nat \cup {NoVif}]
  BY NumbersAssumption DEF LookupInv, TypeOK
<1>1. ASSUME NEW i \in Ids, xp_nl_msg_if_create(i) PROVE LookupInv'
  BY <1>1, <1>a, HandlerKeeps DEF xp_nl_msg_if_create
<1>2. ASSUME NEW i \in Ids, xp_nl_msg_if_delete(i) PROVE LookupInv'
  BY <1>2, <1>a, HandlerKeeps DEF xp_nl_msg_if_delete
<1>3. ASSUME NEW i \in Ids, NEW n \in Numbers, xp_nl_msg_if_link(i, n) PROVE LookupInv'
  BY <1>3, <1>a, HandlerKeeps DEF xp_nl_msg_if_link
<1>4. ASSUME NEW i \in Ids, xp_nl_msg_if_unlink(i) PROVE LookupInv'
  BY <1>4, <1>a, HandlerKeeps DEF xp_nl_msg_if_unlink
<1>5. CASE xp_netdev_all_remove
  BY <1>5, HandlerKeeps DEF xp_netdev_all_remove
<1>6. ASSUME NEW p \in Ports, NEW v \in Vifs, NEW b \in Bds, Arrive(p, v, b)
      PROVE  LookupInv'
  <2>1. /\ pkt' = skb_info(p, v, b) /\ got' = <<>> /\ steady' = netdevs'
        /\ pc' = IF pkt'.vif = NoVif THEN "rif" ELSE "vif"
    BY <1>6 DEF Arrive
  <2>2. p \in Nat /\ b \in Nat /\ p < MinLag /\ b < OffsetBd /\ MinLag <= OffsetBd
        /\ OffsetBd \in Nat /\ MinLag \in Nat /\ NoVif \notin Nat
    BY NumbersAssumption, RangesAssumption
  <2>3. pkt'.rif = b + OffsetBd /\ pkt'.vif \in {p, NoVif}
    BY <2>1, <2>2 DEF skb_info
  <2>4. pkt'.rif # NoVif /\ pkt'.rif # pkt'.vif
    BY <2>2, <2>3
  <2>5. pkt'.vif = NoVif => ~Linked(pkt.vif)'
    BY DEF Linked
  <2>6. Len(got') = 0
    BY <2>1
  <2> QED
    BY <2>1, <2>4, <2>5, <2>6 DEF LookupInv
<1>7. CASE LookupVif
  <2>1. /\ netdevs' = netdevs /\ link' = link /\ pkt' = pkt /\ steady' = steady
        /\ pc = "vif" /\ pc' = "rif" /\ Lookup(pkt.vif)
    BY <1>7 DEF LookupVif
  <2>2. got = <<>> /\ pkt.rif # NoVif /\ pkt.rif # pkt.vif
    BY <2>1 DEF LookupInv
  <2>3. Linked(pkt.vif)' <=> Linked(pkt.vif)
    BY <2>1 DEF Linked
  <2>4. CASE got' = got /\ (failed' = TRUE \/ ~Linked(pkt.vif))
    BY <1>a, <2>1, <2>2, <2>3, <2>4 DEF LookupInv
  <2>5. ASSUME NEW i \in Ids, link[i] = pkt.vif, got' = Append(got, i)
        PROVE  LookupInv'
    <3>1. Len(got') = 1 /\ got'[1] = i
      BY <2>2, <2>5
    <3>2. GotFor(1, {pkt.vif})'
      BY <2>1, <2>5, <3>1 DEF GotFor
    <3> QED
      BY <1>a, <2>1, <2>2, <3>1, <3>2 DEF LookupInv
  <2> QED
    BY <1>a, <2>1, <2>4, <2>5, LookupFinds
<1>8. CASE LookupRif
  <2>1. /\ netdevs' = netdevs /\ link' = link /\ pkt' = pkt /\ steady' = steady
        /\ pc = "rif" /\ pc' = "done" /\ Lookup(pkt.rif)
    BY <1>8 DEF LookupRif
  <2>2. /\ pkt.rif # NoVif /\ pkt.rif # pkt.vif
        /\ Len(got) <= 1 /\ Len(got) \in Nat
        /\ Len(got) = 1 => GotFor(1, {pkt.vif})
        /\ Linked(pkt.vif) /\ ~failed => Len(got) = 1
    BY <1>a, <2>1 DEF LookupInv
  <2>3. (Linked(pkt.vif)' <=> Linked(pkt.vif)) /\ (Linked(pkt.rif)' <=> Linked(pkt.rif))
    BY <2>1 DEF Linked
  <2>4. CASE got' = got /\ failed' = failed /\ ~Linked(pkt.rif)
    <3>1. Len(got') = 1 => GotFor(1, {pkt.vif, pkt.rif})'
      BY <2>1, <2>2, <2>4 DEF GotFor
    <3> QED
      BY <1>a, <2>1, <2>2, <2>3, <2>4, <3>1 DEF LookupInv
  <2>5. CASE got' = got /\ failed' = TRUE
    <3>1. Len(got') = 1 => GotFor(1, {pkt.vif, pkt.rif})'
      BY <2>1, <2>2, <2>5 DEF GotFor
    <3> QED
      BY <1>a, <2>1, <2>2, <2>5, <3>1 DEF LookupInv
  <2>6. ASSUME NEW i \in Ids, link[i] = pkt.rif, got' = Append(got, i), failed' = failed
        PROVE  LookupInv'
    <3>1. Len(got') = Len(got) + 1 /\ got'[Len(got')] = i
      BY <1>a, <2>6
    <3>2. CASE Len(got) = 0
      <4>1. GotFor(1, {pkt.vif, pkt.rif})'
        BY <2>1, <2>6, <3>1, <3>2 DEF GotFor
      <4>2. Len(got') = 1 /\ ~(Linked(pkt.vif)' /\ ~failed')
        BY <2>2, <2>3, <2>6, <3>1, <3>2
      <4> QED
        BY <1>a, <2>1, <2>2, <2>3, <4>1, <4>2 DEF LookupInv
    <3>3. CASE Len(got) = 1
      <4>1. got'[1] = got[1] /\ got'[2] = i /\ Len(got') = 2
        BY <1>a, <2>6, <3>1, <3>3
      <4>2. GotFor(1, {pkt.vif})' /\ GotFor(2, {pkt.rif})'
        BY <2>1, <2>2, <2>6, <3>3, <4>1 DEF GotFor
      <4> QED
        BY <1>a, <2>1, <2>2, <4>1, <4>2 DEF LookupInv
    <3> DEFINE l == Len(got)
    <3>4. l = 0 \/ l = 1
      <4>1. l \in Nat /\ l <= 1
        BY <2>2
      <4> HIDE DEF l
      <4> QED
        BY <4>1
    <3> QED
      BY <3>2, <3>3, <3>4
  <2>7. \/ got' = got /\ failed' = failed /\ ~Linked(pkt.rif)
        \/ got' = got /\ failed' = TRUE
        \/ failed' = failed /\ \E i \in Ids : link[i] = pkt.rif /\ got' = Append(got, i)
    BY <1>a, <2>1, LookupFinds
  <2> QED
    BY <2>4, <2>5, <2>6, <2>7
<1>9. CASE Done
  BY <1>9 DEF Done, LookupInv
<1>10. CASE UNCHANGED vars
  BY <1>10, <1>a, HandlerKeeps DEF vars, rx
<1> QED
  BY <1>1, <1>2, <1>3, <1>4, <1>5, <1>6, <1>7, <1>8, <1>9, <1>10 DEF Next

\* The hash table, the list of devices and the account of the lookups agree in
\* every reachable state, whatever netlink handlers run between the two lookups
\* of xp_rx_skb_netdev_process.
THEOREM Invariance == Spec => [](TypeOK /\ ChainInv /\ LookupInv)
<1>1. Init => TypeOK /\ ChainInv /\ LookupInv
  <2> SUFFICES ASSUME Init PROVE TypeOK /\ ChainInv /\ LookupInv
    OBVIOUS
  <2>0. pkt \in [vif : Nat \cup {NoVif}, rif : Nat \cup {NoVif}]
    BY DEF Init
  <2>1. <<>> \in Seq(Ids)
    OBVIOUS
  <2>4. TypeOK
    BY <2>0, <2>1, Zenon DEF Init, TypeOK
  <2>2. ChainInv
    BY DEF Init, ChainInv, Members
  <2>3. LookupInv
    BY DEF Init, LookupInv
  <2> QED
    BY <2>2, <2>3, <2>4
<1>2. TypeOK /\ ChainInv /\ LookupInv /\ [Next]_vars => (TypeOK /\ ChainInv /\ LookupInv)'
  BY ChainStep, LookupStep
<1> QED
  BY <1>1, <1>2, PTL DEF Spec

\* The hash table holds exactly the linked devices of the list, each once, for
\* any number of devices: hash_add and hash_del keep it so on every path of
\* the netlink handlers.
THEOREM TableIsExact == Spec => []ActiveIsLinked
<1>1. TypeOK /\ ChainInv => ActiveIsLinked
  <2> SUFFICES ASSUME TypeOK, ChainInv PROVE Len(chain) = Cardinality(Members(chain))
    BY DEF ActiveIsLinked, ChainInv
  <2>1. Len(chain) \in Nat /\ chain \in [1 .. Len(chain) -> Members(chain)]
    BY DEF TypeOK, Members
  <2>2. chain \in Injection(1 .. Len(chain), Members(chain))
    BY <2>1 DEF ChainInv, Injection, IsInjective
  <2>3. chain \in Surjection(1 .. Len(chain), Members(chain))
    BY <2>1 DEF Surjection, Members
  <2>4. ExistsBijection(1 .. Len(chain), Members(chain))
    BY <2>2, <2>3 DEF ExistsBijection, Bijection
  <2> QED
    BY <2>1, <2>4, FS_CountingElements
<1> QED
  BY <1>1, Invariance, PTL

\* A device whose link stayed the same gets a packet only through the port or
\* the router interface it is linked to, and at most one copy of it.
THEOREM NobodyElseGetsIt == Spec => []OnlyLinkedGetIt
<1>1. TypeOK /\ LookupInv => OnlyLinkedGetIt
  <2> SUFFICES ASSUME TypeOK, LookupInv, NEW i \in steady
               PROVE  LET times == {n \in 1 .. Len(got) : got[n] = i} IN
                        /\ Cardinality(times) <= 1
                        /\ times # {} => link[i] \in {pkt.vif, pkt.rif}
    BY DEF OnlyLinkedGetIt
  <2> DEFINE times == {n \in 1 .. Len(got) : got[n] = i}
  <2>1. Len(got) \in Nat /\ pc \in {"idle", "vif", "rif", "done"}
    BY DEF TypeOK
  <2>2. Len(got) <= 2 /\ (Len(got) = 2 => pc = "done")
    BY <2>1 DEF LookupInv
  <2>3. ASSUME NEW n \in times
        PROVE  /\ times = {n}
               /\ link[i] \in {pkt.vif, pkt.rif}
    <3>1. n \in 1 .. Len(got) /\ got[n] = i
      OBVIOUS
    <3>2. CASE Len(got) = 1
      <4>1. n = 1 /\ \A m \in 1 .. Len(got) : m = 1
        BY <3>1, <3>2
      <4>2. pc \in {"rif", "done"}
        BY <2>1, <3>2 DEF LookupInv
      <4>3. link[i] \in {pkt.vif, pkt.rif}
        BY <3>1, <3>2, <4>1, <4>2 DEF LookupInv, GotFor
      <4> QED
        BY <3>1, <4>1, <4>3
    <3>3. CASE Len(got) = 2
      <4>1. /\ got[1] = i => link[i] = pkt.vif
            /\ got[2] = i => link[i] = pkt.rif
            /\ pkt.vif # pkt.rif
        BY <2>2, <3>3 DEF LookupInv, GotFor
      <4>2. \A m \in 1 .. Len(got) : m = 1 \/ m = 2
        BY <3>3
      <4> QED
        BY <3>1, <4>1, <4>2
    <3> DEFINE l == Len(got)
    <3>4. l = 1 \/ l = 2
      <4>1. l \in Nat /\ l <= 2 /\ n \in 1 .. l
        BY <2>1, <2>2, <3>1
      <4> HIDE DEF l, times
      <4> QED
        BY <4>1
    <3> QED
      BY <3>2, <3>3, <3>4
  <2>4. Cardinality(times) <= 1
    <3>1. ASSUME times = {} PROVE Cardinality(times) = 0
      BY <3>1, FS_EmptySet
    <3>2. ASSUME NEW n \in times PROVE Cardinality(times) = 1
      BY <2>3, FS_Singleton
    <3> HIDE DEF times
    <3> QED
      BY <3>1, <3>2
  <2> QED
    BY <2>3, <2>4
<1> QED
  BY <1>1, Invariance, PTL

\* No packet is lost while a device stays linked to its port or router
\* interface, whatever netlink handlers do between the two lookups, unless
\* skb_copy runs out of memory.
THEOREM PacketIsServed == Spec => []LinkedIsServed
<1>1. TypeOK /\ LookupInv => LinkedIsServed
  <2> SUFFICES ASSUME TypeOK, LookupInv, pc = "done", ~failed
               PROVE  Len(got) >= Cardinality({n \in {pkt.vif, pkt.rif} \ {NoVif} :
                                                 \E i \in steady : link[i] = n})
    BY DEF LinkedIsServed
  <2> DEFINE wanted == {n \in {pkt.vif, pkt.rif} \ {NoVif} : \E i \in steady : link[i] = n}
  <2>1. /\ Linked(pkt.vif) \/ Linked(pkt.rif) => Len(got) >= 1
        /\ Linked(pkt.vif) /\ Linked(pkt.rif) => Len(got) = 2
        /\ Len(got) \in Nat
    BY DEF LookupInv, TypeOK
  <2>2. wanted = {n \in {pkt.vif, pkt.rif} : Linked(n)}
    BY DEF Linked
  <2> HIDE DEF wanted
  <2>3. CASE Linked(pkt.vif) /\ Linked(pkt.rif)
    <3>1. wanted = {pkt.vif} \cup {pkt.rif}
      BY <2>2, <2>3
    <3>2. IsFiniteSet({pkt.vif}) /\ Cardinality({pkt.vif}) = 1
      BY FS_Singleton
    <3>3. Cardinality(wanted) = IF pkt.rif \in {pkt.vif} THEN 1 ELSE 2
      BY <3>1, <3>2, FS_AddElement
    <3> QED
      BY <2>1, <2>3, <3>3 DEF wanted
  <2>4. CASE Linked(pkt.vif) /\ ~Linked(pkt.rif)
    <3>1. wanted = {pkt.vif}
      BY <2>2, <2>4
    <3>2. Cardinality(wanted) = 1
      BY <3>1, FS_Singleton
    <3> QED
      BY <2>1, <2>4, <3>2 DEF wanted
  <2>5. CASE ~Linked(pkt.vif) /\ Linked(pkt.rif)
    <3>1. wanted = {pkt.rif}
      BY <2>2, <2>5
    <3>2. Cardinality(wanted) = 1
      BY <3>1, FS_Singleton
    <3> QED
      BY <2>1, <2>5, <3>2 DEF wanted
  <2>6. CASE ~Linked(pkt.vif) /\ ~Linked(pkt.rif)
    <3>1. wanted = {}
      BY <2>2, <2>6
    <3>2. Cardinality(wanted) = 0
      BY <3>1, FS_EmptySet
    <3> QED
      BY <2>1, <3>2 DEF wanted
  <2> QED
    BY <2>3, <2>4, <2>5, <2>6
<1> QED
  BY <1>1, Invariance, PTL

----------------------------------------------------------------------------
(* The netlink requests (XpNetlink), whose messages are handled by the     *)
(* operations of XpIntf among others.                                      *)

\* A message takes at least its type and at most 36 bytes.
LEMMA MessageSize == \A t \in Types : Size(t) \in 4 .. 36
<1>1. DOMAIN BodySize = {"INTF_ADD", "INTF_DEL", "LINK_ADD", "LINK_DEL", "TX_HDR_SET", "TRAP_SET",
                         "CB_FD_SET", "MIRROR_SET", "UNKNOWN"}
  BY DEF BodySize
<1>2. \A t \in DOMAIN BodySize : BodySize[t] \in 0 .. 32
  BY <1>1 DEF BodySize
<1>3. \A t \in Types : BodySize[t] \in 0 .. 32
  BY <1>2, TypesAssumption
<1> QED
  BY <1>3 DEF Size, TypeSize

LEMMA MessageType ==
  ASSUME NEW m \in Message PROVE m.at \in Nat /\ m.type \in Types /\ Size(m.type) \in 4 .. 36
<1>1. m.at \in Nat /\ m.type \in Types
  BY DEF Message
<1> QED
  BY <1>1, MessageSize

\* The messages of a sequence of messages.
LEMMA MessagesType ==
  ASSUME NEW r \in Seq(Message)
  PROVE  \A k \in 1 .. Len(r) : r[k] \in Message /\ r[k].at \in Nat /\ r[k].type \in Types
<1>1. \A k \in 1 .. Len(r) : r[k] \in Message
  OBVIOUS
<1> QED
  BY <1>1, MessageType

\* What follows a sequence of messages starts at a natural number.
LEMMA EndType == ASSUME NEW r \in Seq(Message) PROVE EndOf(r) \in Nat
<1>1. CASE r = <<>>
  BY <1>1 DEF EndOf, HeaderSize
<1>2. CASE r # <<>>
  <2>1. r[Len(r)] \in Message
    BY <1>2
  <2>2. r[Len(r)].at \in Nat /\ Size(r[Len(r)].type) \in 4 .. 36
    BY <2>1, MessageType
  <2>3. \A a \in Nat, b \in 4 .. 36 : a + b \in Nat
    OBVIOUS
  <2>4. r[Len(r)].at + Size(r[Len(r)].type) \in Nat
    BY <2>2, <2>3
  <2> QED
    BY <1>2, <2>4 DEF EndOf
<1> QED
  BY <1>1, <1>2

\* A message composed at the end of a request makes it a longer request.
LEMMA Composed ==
  ASSUME NEW r \in Seq(Message), IsRequest(r), NEW t \in Types
  PROVE  LET q == Append(r, [type |-> t, at |-> EndOf(r)])
         IN q \in Seq(Message) /\ IsRequest(q)
<1> DEFINE m == [type |-> t, at |-> EndOf(r)]
           q == Append(r, m)
<1>1. m \in Message /\ m.at = EndOf(r)
  BY EndType DEF Message
<1> HIDE DEF m
<1>2. /\ q \in Seq(Message) /\ Len(q) = Len(r) + 1 /\ Len(r) \in Nat
      /\ \A k \in 1 .. Len(r) : q[k] = r[k]
      /\ q[Len(r) + 1] = m
  BY <1>1
<1> HIDE DEF q
<1>3. CASE r = <<>>
  <2>1. Len(q) = 1 /\ q[1].at = HeaderSize
    BY <1>1, <1>2, <1>3 DEF EndOf
  <2> QED
    BY <1>2, <2>1 DEF IsRequest, q, m
<1>4. CASE r # <<>>
  <2> DEFINE l == Len(r)
  <2>1. l \in Nat \ {0} /\ l \in 1 .. l /\ \A k \in 1 .. l : r[k] \in Message /\ r[k].at \in Nat
    <3>1. l \in Nat \ {0}
      BY <1>4
    <3> QED
      BY <3>1, MessagesType
  <2>2. m.at = r[l].at + Size(r[l].type) /\ Size(r[l].type) \in 4 .. 36
    <3>1. Size(r[l].type) \in 4 .. 36
      BY <2>1, MessageType
    <3> QED
      BY <1>1, <1>4, <3>1 DEF EndOf
  <2>3. \A k \in 1 .. l : r[k].at <= r[l].at
    <3> SUFFICES ASSUME NEW k \in 1 .. l PROVE r[k].at <= r[l].at
      OBVIOUS
    <3>1. CASE k = l
      BY <2>1, <3>1
    <3>2. CASE k < l
      <4>1. r[k].at < r[l].at
        BY <2>1, <3>2 DEF IsRequest
      <4> QED
        BY <2>1, <4>1
    <3> QED
      BY <2>1, <3>1, <3>2
  <2>4. \A k \in 1 .. l : r[k].at < m.at
    <3>1. \A a, b \in Nat, d \in 4 .. 36 : a <= b => a < b + d
      OBVIOUS
    <3> QED
      BY <2>1, <2>2, <2>3, <3>1
  <2>5. q[1].at = HeaderSize
    BY <1>2, <1>4, <2>1 DEF IsRequest
  <2>6. ASSUME NEW j \in 1 .. Len(q), NEW k \in 1 .. Len(q), j < k PROVE q[j].at < q[k].at
    <3>1. CASE k \in 1 .. l
      BY <1>2, <2>6, <3>1 DEF IsRequest
    <3>2. CASE k = l + 1
      BY <1>2, <2>4, <2>6, <3>2
    <3> QED
      BY <1>2, <3>1, <3>2
  <2>7. ASSUME NEW k \in 1 .. Len(q) - 1 PROVE q[k + 1].at = q[k].at + Size(q[k].type)
    <3>1. CASE k = l
      BY <1>2, <2>1, <2>2, <3>1
    <3>2. CASE k # l
      <4>1. k \in 1 .. l - 1 /\ k + 1 \in 1 .. l /\ k \in 1 .. l
        BY <1>2, <2>1, <3>2
      <4> QED
        BY <1>2, <4>1 DEF IsRequest
    <3> QED
      BY <3>1, <3>2
  <2> QED
    BY <1>2, <2>5, <2>6, <2>7 DEF IsRequest, q, m
<1> QED
  BY <1>3, <1>4

\* Where h, the beginning of the request, ends there is its next message, and
\* only that one.
LEMMA NextMessage ==
  ASSUME NEW r \in Seq(Message), IsRequest(r), NEW h \in Seq(Message), Len(h) < Len(r),
         \A k \in 1 .. Len(h) : k <= Len(r) => h[k] = r[k]
  PROVE  /\ r[Len(h) + 1].at = EndOf(h)
         /\ TypesAt(r, EndOf(h)) = {r[Len(h) + 1].type}
<1> DEFINE n == Len(h) + 1
<1>0. Len(h) \in Nat /\ Len(r) \in Nat /\ n \in 1 .. Len(r)
      /\ \A k \in 1 .. Len(r) : r[k] \in Message /\ r[k].at \in Nat
  BY MessagesType
<1>1. r[n].at = EndOf(h)
  <2>1. CASE h = <<>>
    BY <1>0, <2>1 DEF IsRequest, EndOf
  <2>2. CASE h # <<>>
    <3>1. Len(h) \in 1 .. Len(r) - 1 /\ h[Len(h)] = r[Len(h)]
      BY <1>0, <2>2
    <3> QED
      BY <2>2, <3>1 DEF IsRequest, EndOf
  <2> QED
    BY <2>1, <2>2
<1>2. \A k \in 1 .. Len(r) : r[k].at = EndOf(h) => k = n
  BY <1>0, <1>1 DEF IsRequest
<1>3. {j \in 1 .. Len(r) : r[j].at = EndOf(h)} = {n}
  BY <1>0, <1>1, <1>2
<1> HIDE DEF n
<1>4. TypesAt(r, EndOf(h)) = {r[n].type}
  BY <1>0, <1>1, <1>3 DEF TypesAt
<1> QED
  BY <1>1, <1>4 DEF n

\* The mutex, whatever the requests.
LEMMA MutexNext ==
  ASSUME MutexInv, [NlNext]_nl_vars PROVE MutexInv'
<1> USE NoneAssumption DEF MutexInv
<1>1. ASSUME NEW n \in Namespaces, NEW t, Compose(n, t) PROVE MutexInv'
  BY <1>1 DEF Compose
<1>2. ASSUME NEW n \in Namespaces, Send(n) PROVE MutexInv'
  BY <1>2 DEF Send
<1>3. ASSUME NEW n \in Namespaces, Lock(n) PROVE MutexInv'
  BY <1>3 DEF Lock
<1>4. ASSUME NEW n \in Namespaces, Handle(n) PROVE MutexInv'
  BY <1>4 DEF Handle
<1>5. ASSUME NEW n \in Namespaces, Invalid(n) \/ EndLoop(n) PROVE MutexInv'
  BY <1>5 DEF Invalid, EndLoop
<1>6. ASSUME NEW n \in Namespaces, Unlock(n) PROVE MutexInv'
  BY <1>6 DEF Unlock
<1>7. CASE UNCHANGED nl_vars
  BY <1>7 DEF nl_vars
<1> QED
  BY <1>1, <1>2, <1>3, <1>4, <1>5, <1>6, <1>7 DEF NlNext, Receive

\* "Serialize requests from userspace": however many messages a request has and
\* whatever they are, while xp_netlink_rcv handles those of one namespace no
\* message of another's request is handled.
THEOREM RequestsAreSerialised == NlSpec => Serialised
<1>1. NlInit => MutexInv
  BY NoneAssumption DEF NlInit, MutexInv
<1>2. MutexInv /\ [NlNext]_nl_vars => MutexInv'
  BY MutexNext
<1>3. MutexInv /\ [NlNext]_nl_vars =>
        \A n, m \in Namespaces :
          handled'[n] # handled[n] /\ n # m => nl_pc[m] \in {"idle", "lock"}
  <2> SUFFICES ASSUME MutexInv, [NlNext]_nl_vars, NEW n \in Namespaces, NEW m \in Namespaces,
                      handled'[n] # handled[n], n # m
               PROVE  nl_pc[m] \in {"idle", "lock"}
    OBVIOUS
  <2>1. PICK u \in Namespaces : Handle(u) \/ Unlock(u)
    BY DEF NlNext, Receive, Compose, Send, Lock, Invalid, EndLoop, nl_vars
  <2>2. n = u
    BY <2>1 DEF Handle, Unlock, MutexInv
  <2>3. mutex = u
    BY <2>1 DEF Handle, Unlock, MutexInv
  <2> QED
    BY <2>2, <2>3 DEF MutexInv
<1> QED
  BY <1>1, <1>2, <1>3, PTL DEF NlSpec, Serialised

\* The order of the messages.
LEMMA OrderKept ==
  ASSUME NEW n \in Namespaces, OrderInv(n), request'[n] = request[n], nl_pc'[n] = nl_pc[n],
         offset'[n] = offset[n], handled'[n] = handled[n]
  PROVE  OrderInv(n)'
BY DEF OrderInv

LEMMA OrderInit == NlInit => NlInv
<1> SUFFICES ASSUME NlInit PROVE NlInv
  OBVIOUS
<1>1. <<>> \in Seq(Message) /\ Len(<<>>) = 0
  OBVIOUS
<1>2. NlTypeOK
  BY <1>1 DEF NlInit, NlTypeOK
<1>3. ASSUME NEW n \in Namespaces PROVE OrderInv(n)
  <2>1. request[n] = <<>> /\ handled[n] = <<>> /\ nl_pc[n] = "idle"
    BY DEF NlInit
  <2>2. 1 .. Len(request[n]) = {} /\ 1 .. Len(handled[n]) = {} /\ 1 .. Len(request[n]) - 1 = {}
    BY <2>1
  <2> QED
    BY <2>1, <2>2 DEF OrderInv, IsRequest
<1> QED
  BY <1>2, <1>3 DEF NlInv

LEMMA OrderNext == ASSUME NlInv, [NlNext]_nl_vars PROVE NlInv'
<1> USE NoneAssumption, WidthAssumption
<1>a. NlTypeOK /\ \A n \in Namespaces : OrderInv(n)
  BY DEF NlInv
<1>b. ASSUME NEW n \in Namespaces, NlTypeOK', OrderInv(n)',
             \A m \in Namespaces \ {n} :
               /\ request'[m] = request[m] /\ nl_pc'[m] = nl_pc[m] /\ offset'[m] = offset[m]
               /\ handled'[m] = handled[m]
      PROVE  NlInv'
  <2>1. \A m \in Namespaces : OrderInv(m)'
    BY <1>a, <1>b, OrderKept
  <2> QED
    BY <1>b, <2>1 DEF NlInv
<1>1. ASSUME NEW n \in Namespaces, NEW t \in Types, Compose(n, t) PROVE NlInv'
  <2> DEFINE q == Append(request[n], [type |-> t, at |-> EndOf(request[n])])
  <2>1. request[n] \in Seq(Message) /\ IsRequest(request[n]) /\ handled[n] = <<>>
    BY <1>a, <1>1 DEF Compose, NlTypeOK, OrderInv
  <2>2. q \in Seq(Message) /\ IsRequest(q)
    BY <2>1, Composed
  <2>3. request' = [request EXCEPT ![n] = q] /\ nl_pc[n] = "idle"
        /\ UNCHANGED <<mutex, nl_pc, offset, payload_len, handled>>
    BY <1>1 DEF Compose
  <2> HIDE DEF q
  <2>4. NlTypeOK'
    BY <1>a, <2>2, <2>3 DEF NlTypeOK
  <2>5. request'[n] = q /\ handled'[n] = <<>> /\ nl_pc'[n] = "idle"
    BY <1>a, <2>1, <2>3 DEF NlTypeOK
  <2>6. OrderInv(n)'
    BY <2>2, <2>5 DEF OrderInv
  <2> QED
    BY <1>a, <1>b, <2>3, <2>4, <2>6 DEF NlTypeOK
<1>2. ASSUME NEW n \in Namespaces, Send(n) PROVE NlInv'
  <2>1. NlTypeOK'
    BY <1>a, <1>2 DEF Send, NlTypeOK
  <2>2. OrderInv(n)'
    BY <1>a, <1>2 DEF Send, NlTypeOK, OrderInv
  <2> QED
    BY <1>a, <1>b, <1>2, <2>1, <2>2 DEF Send, NlTypeOK
<1>3. ASSUME NEW n \in Namespaces, Lock(n) PROVE NlInv'
  <2> DEFINE len == (Length(request[n]) + HeaderSize) % Width
  <2>1. HeaderSize \in Nat /\ len \in Nat
    <3>1. EndOf(request[n]) \in Nat
      BY <1>a, EndType DEF NlTypeOK
    <3>2. Length(request[n]) + HeaderSize \in Int
      BY <3>1 DEF Length, HeaderSize
    <3> QED
      BY <3>2 DEF HeaderSize
  <2>2. /\ mutex' = n /\ offset' = [offset EXCEPT ![n] = HeaderSize]
        /\ payload_len' = [payload_len EXCEPT ![n] = len] /\ nl_pc' = [nl_pc EXCEPT ![n] = "loop"]
        /\ nl_pc[n] = "lock" /\ UNCHANGED <<request, handled>>
    BY <1>3 DEF Lock
  <2> HIDE DEF len
  <2>3. NlTypeOK'
    BY <1>a, <2>1, <2>2 DEF NlTypeOK
  <2>4. handled'[n] = <<>> /\ offset'[n] = EndOf(<<>>) /\ nl_pc'[n] = "loop"
    BY <1>a, <2>2 DEF NlTypeOK, OrderInv, EndOf
  <2>5. OrderInv(n)'
    BY <1>a, <2>2, <2>4 DEF OrderInv
  <2> QED
    BY <1>a, <1>b, <2>2, <2>3, <2>5 DEF NlTypeOK
<1>4. ASSUME NEW n \in Namespaces, Handle(n) PROVE NlInv'
  <2> DEFINE r == request[n]
             h == handled[n]
  <2>0. nl_pc[n] = "loop" /\ offset[n] = EndOf(h) /\ IsRequest(r)
        /\ r \in Seq(Message) /\ h \in Seq(Message) /\ EndOf(h) \in Nat
        /\ \A k \in 1 .. Len(h) : k <= Len(r) => h[k] = r[k]
    BY <1>a, <1>4, EndType DEF Handle, NlTypeOK, OrderInv
  <2>1. PICK t \in TypesAt(r, offset[n]) \ {"UNKNOWN"} :
          /\ handled' = [handled EXCEPT ![n] = Append(h, [type |-> t, at |-> offset[n]])]
          /\ offset' = [offset EXCEPT ![n] = offset[n] + Size(t)]
          /\ payload_len' = [payload_len EXCEPT ![n] = (payload_len[n] + Width - offset'[n]) % Width]
    BY <1>4 DEF Handle
  <2>2. UNCHANGED <<mutex, request, nl_pc>>
    BY <1>4 DEF Handle
  <2>3. t \in Types
    <3>1. \A k \in 1 .. Len(r) : r[k].type \in Types
      BY <2>0, MessagesType
    <3> QED
      BY <3>1 DEF TypesAt
  <2> DEFINE m == [type |-> t, at |-> offset[n]]
             g == Append(h, m)
  <2>4. m \in Message /\ m.type = t /\ m.at = EndOf(h)
    BY <2>0, <2>3 DEF Message
  <2>5. Len(h) < Len(r) => m = r[Len(h) + 1]
    <3> SUFFICES ASSUME Len(h) < Len(r) PROVE m = r[Len(h) + 1]
      OBVIOUS
    <3>1. r[Len(h) + 1].at = EndOf(h) /\ r[Len(h) + 1].type = t
      BY <2>0, <2>1, NextMessage
    <3>2. r[Len(h) + 1] \in Message
      BY <2>0
    <3> QED
      BY <2>0, <3>1, <3>2 DEF Message
  <2> HIDE DEF m
  <2>6. /\ g \in Seq(Message) /\ Len(g) = Len(h) + 1 /\ Len(h) \in Nat /\ Len(r) \in Nat
        /\ \A k \in 1 .. Len(h) : g[k] = h[k]
        /\ g[Len(h) + 1] = m
    BY <2>0, <2>4
  <2>7. EndOf(g) = offset[n] + Size(t) /\ EndOf(g) \in Nat
    <3>1. g # <<>>
      BY <2>6
    <3> QED
      BY <2>0, <2>4, <2>6, <3>1, EndType DEF EndOf
  <2> HIDE DEF g
  <2>8. handled' = [handled EXCEPT ![n] = g] /\ offset' = [offset EXCEPT ![n] = EndOf(g)]
    BY <2>1, <2>7 DEF g, m
  <2>9. payload_len' \in [Namespaces -> Nat]
    <3>1. offset'[n] \in Nat /\ payload_len[n] \in Nat
      BY <1>a, <2>7, <2>8 DEF NlTypeOK
    <3> DEFINE len == (payload_len[n] + Width - offset'[n]) % Width
    <3>2. len \in Nat
      BY <3>1
    <3>3. payload_len' = [payload_len EXCEPT ![n] = len]
      BY <2>1
    <3> HIDE DEF len
    <3> QED
      BY <1>a, <3>2, <3>3 DEF NlTypeOK
  <2>10. NlTypeOK'
    BY <1>a, <2>2, <2>6, <2>7, <2>8, <2>9 DEF NlTypeOK
  <2>11. request'[n] = r /\ handled'[n] = g /\ offset'[n] = EndOf(g) /\ nl_pc'[n] = "loop"
    BY <1>a, <2>0, <2>2, <2>8 DEF NlTypeOK
  <2>12. ASSUME NEW k \in 1 .. Len(g), k <= Len(r) PROVE g[k] = r[k]
    <3>1. CASE k \in 1 .. Len(h)
      BY <2>0, <2>6, <2>12, <3>1
    <3>2. CASE k = Len(h) + 1
      BY <2>5, <2>6, <2>12, <3>2
    <3> QED
      BY <2>6, <3>1, <3>2
  <2>13. OrderInv(n)'
    BY <2>0, <2>11, <2>12 DEF OrderInv
  <2> QED
    BY <1>a, <1>b, <2>2, <2>8, <2>10, <2>13 DEF NlTypeOK
<1>5. ASSUME NEW n \in Namespaces, Invalid(n) \/ EndLoop(n) PROVE NlInv'
  <2>1. NlTypeOK'
    BY <1>a, <1>5 DEF Invalid, EndLoop, NlTypeOK
  <2>2. OrderInv(n)'
    BY <1>a, <1>5 DEF Invalid, EndLoop, NlTypeOK, OrderInv
  <2> QED
    BY <1>a, <1>b, <1>5, <2>1, <2>2 DEF Invalid, EndLoop, NlTypeOK
<1>6. ASSUME NEW n \in Namespaces, Unlock(n) PROVE NlInv'
  <2>1. <<>> \in Seq(Message)
    OBVIOUS
  <2>2. NlTypeOK'
    BY <1>a, <1>6, <2>1 DEF Unlock, NlTypeOK
  <2>3. request'[n] = <<>> /\ handled'[n] = <<>> /\ nl_pc'[n] = "idle"
    BY <1>a, <1>6 DEF Unlock, NlTypeOK
  <2>4. 1 .. Len(<<>>) = {} /\ 1 .. Len(<<>>) - 1 = {}
    OBVIOUS
  <2>5. OrderInv(n)'
    BY <2>3, <2>4 DEF OrderInv, IsRequest
  <2> QED
    BY <1>a, <1>b, <1>6, <2>2, <2>5 DEF Unlock, NlTypeOK
<1>7. CASE UNCHANGED nl_vars
  BY <1>a, <1>7 DEF nl_vars, NlInv, NlTypeOK, OrderInv
<1> QED
  BY <1>1, <1>2, <1>3, <1>4, <1>5, <1>6, <1>7 DEF NlNext, Receive

\* For requests of any number of messages of any types from any number of
\* namespaces, the k-th message xp_nl_msg_process handles is the k-th of the
\* request, as far as the request goes, read where it starts, although
\* payload_len wraps.  (Beyond the request it goes on reading: section 6 of the
\* README.)
THEOREM MessagesInOrder == NlSpec => []HandledInOrder
<1>1. NlInv => HandledInOrder
  BY DEF NlInv, OrderInv, HandledInOrder
<1> QED
  BY <1>1, OrderInit, OrderNext, PTL DEF NlSpec

=============================================================================
