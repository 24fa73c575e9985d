------------------------------- MODULE XpIntf -------------------------------
(***************************************************************************)
(* The net devices of the xpnet driver (xpnet/src/xp_netdev_intf.c): the   *)
(* list of devices user space creates over netlink, the hash table of      *)
(* those that are linked to an interface of the switch, and the lookup of  *)
(* the devices a received packet belongs to.                               *)
(*                                                                         *)
(* The netlink handlers hold xp_netdev_list_lock for writing throughout,   *)
(* so each is one action.  xp_rx_skb_netdev_process takes the lock for     *)
(* reading twice, once for the ingress port and once for the router        *)
(* interface, and handlers may run in between.                             *)
(*                                                                         *)
(* Interface numbers are naturals in three ranges, front panel, LAG and    *)
(* router interfaces.  vif and rif are members of a union, here link.  The *)
(* hash is by the full number, so a bucket is searched for equal numbers   *)
(* in the order of the chain: one chain stands for the table.              *)
(***************************************************************************)
EXTENDS Naturals, Sequences, FiniteSets

CONSTANTS Ids,         \* xpnet_intf_id of the devices
          MaxFp,       \* XP_MAX_FP_INTF
          MinLag,      \* XP_MIN_LAG_INTF
          MaxLag,      \* XP_MAX_LAG_INTF
          OffsetBd,    \* XP_OFFSET_BD_INTF
          MaxBd,       \* XP_MAX_BD_INTF
          Numbers,     \* interface numbers netlink messages contain
          Ports,       \* ingress port numbers of packets (8 bits)
          Vifs,        \* ingress interfaces of packets (20 bits)
          Bds,         \* bridge domains of packets (16 bits)
          NoVif        \* XP_NO_VIF, XP_NO_RIF

ASSUME RangesAssumption ==
  /\ {MaxFp, MinLag, MaxLag, OffsetBd, MaxBd} \subseteq Nat
  /\ MaxFp <= MinLag /\ MinLag <= MaxLag /\ MaxLag <= OffsetBd /\ OffsetBd <= MaxBd
ASSUME NumbersAssumption ==
  /\ Numbers \cup Ports \cup Vifs \cup Bds \subseteq Nat
  /\ NoVif \notin Nat
  /\ \A p \in Ports : p < MinLag
  /\ \A b \in Bds : b < OffsetBd

VARIABLES
  netdevs,  \* xp_netdev_list
  link,     \* vif or rif of every device of the list
  chain,    \* the hash table, the device linked last first
  pc,       \* where xp_rx_skb_netdev_process is
  pkt,      \* port, interface and router interface of its packet
  got,      \* devices that got the packet, in order
  steady,   \* history: devices whose link did not change since it arrived
  failed    \* history: no memory for a copy of the packet

vars == <<netdevs, link, chain, pc, pkt, got, steady, failed>>
rx == <<pc, pkt, got, failed>>

IsFp(n) == n < MaxFp
IsBd(n) == OffsetBd <= n /\ n < MaxBd
IsLag(n) == MinLag <= n /\ n < MaxLag

Members(s) == {s[n] : n \in 1 .. Len(s)}

\* hash_del: the entry of device i leaves the chain, if it is in one.
Without(s, i) ==
  IF i \in Members(s)
  THEN LET k == CHOOSE n \in 1 .. Len(s) : s[n] = i
       IN  [n \in 1 .. Len(s) - 1 |-> IF n < k THEN s[n] ELSE s[n + 1]]
  ELSE s

----------------------------------------------------------------------------

Init ==
  /\ netdevs = {}
  /\ link = [i \in Ids |-> NoVif]
  /\ chain = <<>>
  /\ pc = "idle"
  /\ pkt = [vif |-> NoVif, rif |-> NoVif]
  /\ got = <<>>
  /\ steady = {}
  /\ failed = FALSE

\* xp_nl_msg_if_create; a device with this id, or a failure of
\* register_netdev, leaves everything as it was.
xp_nl_msg_if_create(i) ==
  /\ i \notin netdevs
  /\ netdevs' = netdevs \cup {i}
  /\ link' = [link EXCEPT ![i] = NoVif]
  /\ UNCHANGED <<chain, steady, rx>>

\* Faulty variant: the device stays in the hash table.
Fault_DeleteKeepsHash(i) ==
  /\ i \in netdevs
  /\ netdevs' = netdevs \ {i}
  /\ link' = [link EXCEPT ![i] = NoVif]
  /\ steady' = steady \ {i}
  /\ UNCHANGED <<chain, rx>>

\* xp_nl_msg_if_delete.
xp_nl_msg_if_delete(i) ==
  /\ i \in netdevs
  /\ netdevs' = netdevs \ {i}
  /\ link' = [link EXCEPT ![i] = NoVif]
  /\ chain' = Without(chain, i)
  /\ steady' = steady \ {i}
  /\ UNCHANGED rx

\* xp_nl_msg_if_link; numbers outside the three ranges are refused.
xp_nl_msg_if_link(i, n) ==
  /\ i \in netdevs
  /\ link[i] = NoVif
  /\ IsFp(n) \/ IsBd(n) \/ IsLag(n)
  /\ link' = [link EXCEPT ![i] = n]
  /\ chain' = <<i>> \o chain
  /\ steady' = steady \ {i}
  /\ UNCHANGED <<netdevs, rx>>

\* xp_nl_msg_if_unlink (hash_del does nothing for a device not in the table).
xp_nl_msg_if_unlink(i) ==
  /\ i \in netdevs
  /\ chain' = Without(chain, i)
  /\ link' = [link EXCEPT ![i] = NoVif]
  /\ steady' = steady \ {i}
  /\ UNCHANGED <<netdevs, rx>>

\* xp_netdev_all_remove, when the driver's net device mode ends.
xp_netdev_all_remove ==
  /\ netdevs' = {}
  /\ link' = [i \in Ids |-> NoVif]
  /\ chain' = <<>>
  /\ steady' = {}
  /\ UNCHANGED rx

----------------------------------------------------------------------------
(* xp_rx_skb_netdev_process.                                               *)

\* Faulty variant: the bridge domain is taken for the router interface.
Fault_RifIsBd(p, v, b) ==
  [vif |-> IF IsFp(v) \/ IsLag(v) THEN p ELSE NoVif, rif |-> b]

\* Numbers a packet is looked up by (xp_rx_skb_info_get and the first part of
\* xp_rx_skb_netdev_process): the port if its interface is a front panel or
\* LAG interface, and the router interface of its bridge domain.
skb_info(p, v, b) ==
  [vif |-> IF IsFp(v) \/ IsLag(v) THEN p ELSE NoVif,
   rif |-> IF b < OffsetBd THEN b + OffsetBd ELSE b]

\* A packet for the net devices arrives.
Arrive(p, v, b) ==
  /\ pc = "idle"
  /\ pkt' = skb_info(p, v, b)
  /\ pc' = IF pkt'.vif = NoVif THEN "rif" ELSE "vif"
  /\ got' = <<>>
  /\ steady' = netdevs
  /\ failed' = FALSE
  /\ UNCHANGED <<netdevs, link, chain>>

Matches(n) == {k \in 1 .. Len(chain) : link[chain[k]] = n}

\* Faulty variant: only the head of the chain is looked at.
Fault_LookupHead(n) ==
  /\ got' = IF chain # <<>> /\ link[Head(chain)] = n
            THEN Append(got, Head(chain)) ELSE got
  /\ UNCHANGED failed

\* hash_for_each_possible and xp_rx_netdev_skb_netif_rx: the first device
\* with this number gets a copy of the packet, if there is memory.
Lookup(n) ==
  \/ /\ Matches(n) = {}
     /\ UNCHANGED <<got, failed>>
  \/ \E k \in Matches(n) :
       /\ \A j \in Matches(n) : k <= j
       /\ \/ got' = Append(got, chain[k]) /\ UNCHANGED failed
          \/ failed' = TRUE /\ UNCHANGED got

LookupVif ==
  /\ pc = "vif"
  /\ Lookup(pkt.vif)
  /\ pc' = "rif"
  /\ UNCHANGED <<netdevs, link, chain, pkt, steady>>

LookupRif ==
  /\ pc = "rif"
  /\ Lookup(pkt.rif)
  /\ pc' = "done"
  /\ UNCHANGED <<netdevs, link, chain, pkt, steady>>

Done ==
  /\ pc = "done"
  /\ pc' = "idle"
  /\ pkt' = [vif |-> NoVif, rif |-> NoVif]
  /\ got' = <<>>
  /\ steady' = {}
  /\ failed' = FALSE
  /\ UNCHANGED <<netdevs, link, chain>>

----------------------------------------------------------------------------

Next ==
  \/ \E i \in Ids :
       \/ xp_nl_msg_if_create(i)
       \/ xp_nl_msg_if_delete(i)
       \/ \E n \in Numbers : xp_nl_msg_if_link(i, n)
       \/ xp_nl_msg_if_unlink(i)
  \/ xp_netdev_all_remove
  \/ \E p \in Ports, v \in Vifs, b \in Bds : Arrive(p, v, b)
  \/ LookupVif \/ LookupRif \/ Done

Spec == Init /\ [][Next]_vars

----------------------------------------------------------------------------
(* Properties.                                                             *)

\* The list, the links and the lookup of a packet stay in their ranges; a
\* linked device has a number of one of the three ranges.
TypeOK ==
  /\ netdevs \subseteq Ids
  /\ link \in [Ids -> {n \in Numbers : IsFp(n) \/ IsBd(n) \/ IsLag(n)} \cup {NoVif}]
  /\ chain \in Seq(Ids)
  /\ pc \in {"idle", "vif", "rif", "done"}
  /\ pkt \in [vif : Nat \cup {NoVif}, rif : Nat \cup {NoVif}]
  /\ got \in Seq(Ids)
  /\ steady \subseteq Ids
  /\ failed \in BOOLEAN

\* The hash table holds exactly the linked devices of the list, each once:
\* no packet reaches a device that was deleted, and none misses one that is
\* linked.
ActiveIsLinked ==
  /\ Members(chain) = {i \in netdevs : link[i] # NoVif}
  /\ Len(chain) = Cardinality(Members(chain))

\* A device whose link stayed the same while the packet was handled gets it
\* only if it is linked to the packet's port or router interface, and once.
OnlyLinkedGetIt ==
  \A i \in steady : LET times == {n \in 1 .. Len(got) : got[n] = i} IN
    /\ Cardinality(times) <= 1
    /\ times # {} => link[i] \in {pkt.vif, pkt.rif}

\* Whatever the handlers do meanwhile, a packet is not lost while a device
\* stays linked to its port (or router interface): some device linked to it
\* gets the packet, unless memory ran out.
LinkedIsServed ==
  pc = "done" /\ ~failed =>
    Len(got) >= Cardinality({n \in {pkt.vif, pkt.rif} \ {NoVif} :
                               \E i \in steady : link[i] = n})

----------------------------------------------------------------------------
(* Inductive invariants.                                                   *)

\* The chain holds the linked devices of the list, each at one place.
ChainInv ==
  /\ Members(chain) = {i \in netdevs : link[i] # NoVif}
  /\ \A j, k \in 1 .. Len(chain) : chain[j] = chain[k] => j = k

\* A device has been linked to n since the packet arrived.
Linked(n) == n # NoVif /\ \E i \in steady : link[i] = n

\* Device k of got, if its link did not change, is linked to a number in S.
GotFor(k, S) == got[k] \in steady => link[got[k]] \in S

\* What the lookups so far have found.  The port and the router interface of
\* a packet differ, so a device whose link does not change is found by one.
LookupInv ==
  /\ steady \subseteq netdevs
  /\ pc = "idle" => got = <<>> /\ steady = {}
  /\ pc # "idle" => pkt.rif # NoVif /\ pkt.rif # pkt.vif
  /\ pc = "vif" => got = <<>>
  /\ pc = "rif" => /\ Len(got) <= 1
                   /\ Len(got) = 1 => GotFor(1, {pkt.vif})
                   /\ Linked(pkt.vif) /\ ~failed => Len(got) = 1
  /\ pc = "done" => /\ Len(got) <= 2
                    /\ Len(got) = 1 => GotFor(1, {pkt.vif, pkt.rif})
                    /\ Len(got) = 2 => GotFor(1, {pkt.vif}) /\ GotFor(2, {pkt.rif})
                    /\ ~failed => /\ Linked(pkt.vif) \/ Linked(pkt.rif) => Len(got) >= 1
                                  /\ Linked(pkt.vif) /\ Linked(pkt.rif) => Len(got) = 2

=============================================================================
