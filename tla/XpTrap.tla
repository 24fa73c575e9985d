------------------------------- MODULE XpTrap -------------------------------
(***************************************************************************)
(* The trap table of the xpnet driver and the dispatch of received packets *)
(* by it (xpnet/src/xp_netdev_intf.c).                                     *)
(*                                                                         *)
(* The netlink handlers add and remove traps; they are serialised by       *)
(* xp_netlink_mutex and change the table under trap_table->lock, so each   *)
(* is one action.  The RX work item calls xp_rx_skb_process for one packet *)
(* at a time.  It looks up the trap id and the configuration in two        *)
(* critical sections of trap_table->lock and then follows the pointer      *)
(* without the lock.  Configurations are allocated at addresses Addrs:     *)
(* reading one that was freed gives anything (what is stored there is not  *)
(* modelled), and its memory may belong to another configuration by then.  *)
(***************************************************************************)
EXTENDS Naturals

CONSTANTS TrapIds,      \* trap ids up to XP_MAX_TRAP_ID that are used
          ReasonCodes,  \* reason codes up to XP_MAX_REASON_CODE that are used
          RcsOf,        \* reason codes a trap id is registered with
          Used,         \* channels the traps are set to
          Sockets,      \* sockets whose descriptors user space passes
          Addrs,        \* addresses kmalloc may return
          CountMod,     \* rx_count wraps at this value (2^32)
          None          \* NULL and XP_INVALID_TRAP_ID

ASSUME ReasonCodesAssumption == ReasonCodes # {}
ASSUME RcsOfAssumption == RcsOf \in [TrapIds -> SUBSET ReasonCodes]
ASSUME UsedAssumption == Used \subseteq {"fd", "cb", "netdev", "other"}
ASSUME CountModAssumption == CountMod \in Nat /\ CountMod >= 1
ASSUME NoneAssumption == None \notin TrapIds \cup ReasonCodes \cup Sockets \cup Addrs

VARIABLES
  trap,      \* trap_table->trap: address of the configuration of a trap id
  rc_map,    \* trap_table->rc_map
  alloc,     \* addresses in use
  cfg,       \* contents of the addresses
  cb_sock,   \* cb_sock_ptr is set
  mirror,    \* packet_mirroring_enable
  pc,        \* where xp_rx_skb_process is
  rc,        \* reason code of its packet, None if above XP_MAX_REASON_CODE
  trap_id,   \* its local variables
  trap_cfg,
  ch,        \* channel it read from the configuration
  sent,      \* receivers the packet was handed to
  seen,      \* history: verdicts of the table, callback sockets and
             \* mirroring settings since the packet arrived
  stale,     \* history: trap_cfg was freed while the packet was handled
  served     \* history: packets dispatched by the configuration at an address

table == <<trap, rc_map, alloc, cfg>>
work == <<pc, rc, trap_id, trap_cfg, ch, sent>>
vars == <<table, cb_sock, mirror, work, seen, stale, served>>

Channels == {"fd", "cb", "netdev", "other"}
Config == [rc : ReasonCodes, ch : Channels, sock : Sockets \cup {None},
           rx_count : 0 .. CountMod - 1]

\* What stands for the contents of memory that is not in use.
Blank == CHOOSE c \in Config : TRUE
Freed(a) == [b \in Addrs |-> IF b = a THEN Blank ELSE cfg[b]]

----------------------------------------------------------------------------
(* The verdict of a table and what a packet's handling may have met.       *)

\* The configurations registered for reason code r.
Registered(t, c, r) == {c[t[i]] : i \in {j \in TrapIds : t[j] # None /\ c[t[j]].rc = r}}

\* The destinations a table gives to a packet: the channel (and socket) of
\* the trap registered for its reason code, and the callback channel if
\* there is none.
Verdict(t, c, r) ==
  IF Registered(t, c, r) = {} THEN {<<"cb", None>>}
  ELSE {<<x.ch, x.sock>> : x \in Registered(t, c, r)}

\* Who gets a packet with this destination.
Receivers(dest, cb, mir) ==
  CASE dest[1] = "cb"     -> {x \in {"cb"} : cb}
    [] dest[1] = "fd"     -> {dest[2]} \ {None}
    [] dest[1] = "netdev" -> {"netdev"} \cup {x \in {"cb"} : cb /\ mir}
    [] OTHER              -> {}

\* The history after a step: what the new state says is added.
Observe(r) ==
  IF pc = "idle" THEN UNCHANGED seen
  ELSE seen' = [dest |-> seen.dest \cup Verdict(trap', cfg', r),
                cb   |-> seen.cb \cup {cb_sock'},
                mir  |-> seen.mir \cup {mirror'}]

----------------------------------------------------------------------------

\* xp_trap_init.
Init ==
  /\ trap = [i \in TrapIds |-> None]
  /\ rc_map = [r \in ReasonCodes |-> None]
  /\ alloc = {}
  /\ cfg = [a \in Addrs |-> Blank]
  /\ cb_sock = FALSE
  /\ mirror = FALSE
  /\ pc = "idle"
  /\ rc = None
  /\ trap_id = None
  /\ trap_cfg = None
  /\ ch = "other"
  /\ sent = {}
  /\ seen = [dest |-> {}, cb |-> {}, mir |-> {}]
  /\ stale = FALSE
  /\ served = [a \in Addrs |-> 0]

----------------------------------------------------------------------------
(* Netlink handlers.                                                       *)

\* The packet in work still needs the configuration at address a.
InUse(a) == pc \in {"cfg", "send", "count"} /\ trap_cfg = a

\* xp_trap_id_entry_add: a new configuration replaces the old one.
xp_trap_id_entry_add(i, r, c, s, a) ==
  /\ a \notin alloc
  /\ cfg' = [Freed(trap[i]) EXCEPT ![a] =
              [rc |-> r, ch |-> c, sock |-> s, rx_count |-> 0]]
  /\ rc_map' = [rc_map EXCEPT ![r] = i]
  /\ alloc' = (alloc \cup {a}) \ {trap[i]}
  /\ trap' = [trap EXCEPT ![i] = a]
  /\ stale' = (stale \/ InUse(trap[i]))
  /\ served' = [b \in Addrs |-> IF b = trap[i] THEN 0 ELSE served[b]]

\* xp_nl_msg_trap, XP_NL_OPERATION_ADD: sockfd_lookup may find no socket.  If
\* kmalloc fails nothing happens.
TrapAdd(i, r, c) ==
  /\ r \in RcsOf[i]
  /\ \E s \in Sockets \cup {None}, a \in Addrs :
       /\ c # "fd" => s = None
       /\ xp_trap_id_entry_add(i, r, c, s, a)
  /\ UNCHANGED <<cb_sock, mirror, work>>
  /\ Observe(rc)

\* Faulty variant: the pointer to the freed configuration stays in the table.
Fault_RemoveDangles(i) ==
  /\ trap[i] # None
  /\ alloc' = alloc \ {trap[i]}
  /\ stale' = (stale \/ InUse(trap[i]))
  /\ cfg' = Freed(trap[i])
  /\ served' = [served EXCEPT ![trap[i]] = 0]
  /\ UNCHANGED <<trap, rc_map>>

\* xp_trap_id_entry_remove: rc_map keeps pointing at the trap id.
xp_trap_id_entry_remove(i) ==
  /\ trap[i] # None
  /\ alloc' = alloc \ {trap[i]}
  /\ trap' = [trap EXCEPT ![i] = None]
  /\ stale' = (stale \/ InUse(trap[i]))
  /\ cfg' = Freed(trap[i])
  /\ served' = [served EXCEPT ![trap[i]] = 0]
  /\ UNCHANGED rc_map

\* xp_nl_msg_trap, XP_NL_OPERATION_REMOVE.
TrapRemove(i) ==
  /\ xp_trap_id_entry_remove(i)
  /\ UNCHANGED <<cb_sock, mirror, work>>
  /\ Observe(rc)

\* xp_nl_msg_cb_fd: a descriptor that is no socket unsets the callback.
CbFd(found) ==
  /\ cb_sock' = found
  /\ UNCHANGED <<table, mirror, work, stale, served>>
  /\ Observe(rc)

\* xp_nl_msg_mirror.
Mirror(enable) ==
  /\ mirror' = enable
  /\ UNCHANGED <<table, cb_sock, work, stale, served>>
  /\ Observe(rc)

----------------------------------------------------------------------------
(* xp_rx_skb_process.                                                      *)

\* A packet arrives; xp_rx_skb_info_get finds reason code r in its header.
Arrive(r) ==
  /\ pc = "idle"
  /\ pc' = "id"
  /\ rc' = r
  /\ seen' = [dest |-> Verdict(trap, cfg, r), cb |-> {cb_sock}, mir |-> {mirror}]
  /\ stale' = FALSE
  /\ UNCHANGED <<table, cb_sock, mirror, trap_id, trap_cfg, ch, sent, served>>

\* xp_trap_id_get.
xp_trap_id_get ==
  /\ pc = "id"
  /\ trap_id' = IF rc = None THEN None ELSE rc_map[rc]
  /\ pc' = "look"
  /\ UNCHANGED <<table, cb_sock, mirror, rc, trap_cfg, ch, sent, seen, stale, served>>

\* Faulty variant: a packet without a trap is dropped.
Fault_NoTrapDrops ==
  /\ pc = "look"
  /\ trap_cfg' = IF trap_id = None THEN None ELSE trap[trap_id]
  /\ ch' = "cb"
  /\ pc' = IF trap_cfg' = None THEN "out" ELSE "cfg"
  /\ UNCHANGED <<table, cb_sock, mirror, rc, trap_id, sent, seen, stale, served>>

\* xp_trap_config_get, and "No trap is registered then send it traffic to CB
\* channel."
xp_trap_config_get ==
  /\ pc = "look"
  /\ trap_cfg' = IF trap_id = None THEN None ELSE trap[trap_id]
  /\ ch' = "cb"
  /\ pc' = IF trap_cfg' = None THEN "send" ELSE "cfg"
  /\ UNCHANGED <<table, cb_sock, mirror, rc, trap_id, sent, seen, stale, served>>

\* switch (trap_cfg->ch), without the lock.
ReadChannel ==
  /\ pc = "cfg"
  /\ ch' \in IF trap_cfg \in alloc THEN {cfg[trap_cfg].ch} ELSE Channels
  /\ pc' = IF ch' = "other" THEN "out" ELSE "send"
  /\ UNCHANGED <<table, cb_sock, mirror, rc, trap_id, trap_cfg, sent, seen, stale,
                 served>>

\* The packet goes out; the socket of an "fd" channel is read from the
\* configuration here.  xp_rx_skb_fd_process does nothing for a null socket,
\* xp_rx_skb_netdev_process (XpIntf) mirrors the packet first.
Send ==
  /\ pc = "send"
  /\ \E s \in Sockets \cup {None} :
       /\ trap_cfg \in alloc => s = cfg[trap_cfg].sock
       /\ sent' = Receivers(<<ch, s>>, cb_sock, mirror)
  /\ pc' = IF trap_cfg = None THEN "out" ELSE "count"
  /\ UNCHANGED <<table, cb_sock, mirror, rc, trap_id, trap_cfg, ch, seen, stale,
                 served>>

\* trap_cfg->rx_count++, in whatever configuration is at that address now.
Count ==
  /\ pc = "count"
  /\ cfg' = IF trap_cfg \in alloc
            THEN [cfg EXCEPT ![trap_cfg].rx_count = (@ + 1) % CountMod]
            ELSE cfg
  /\ served' = IF stale THEN served
               ELSE [served EXCEPT ![trap_cfg] = (@ + 1) % CountMod]
  /\ pc' = "out"
  /\ UNCHANGED <<trap, rc_map, alloc, cb_sock, mirror, rc, trap_id, trap_cfg, ch,
                 sent, seen, stale>>

\* dev_kfree_skb_any.
FreeSkb ==
  /\ pc = "out"
  /\ pc' = "idle"
  /\ rc' = None
  /\ trap_id' = None
  /\ trap_cfg' = None
  /\ ch' = "other"
  /\ sent' = {}
  /\ seen' = [dest |-> {}, cb |-> {}, mir |-> {}]
  /\ stale' = FALSE
  /\ UNCHANGED <<table, cb_sock, mirror, served>>

----------------------------------------------------------------------------

Netlink ==
  \/ \E i \in TrapIds, r \in ReasonCodes, c \in Used : TrapAdd(i, r, c)
  \/ \E i \in TrapIds : TrapRemove(i)
  \/ \E b \in BOOLEAN : CbFd(b) \/ Mirror(b)

Dispatch ==
  \/ \E r \in ReasonCodes \cup {None} : Arrive(r)
  \/ xp_trap_id_get \/ xp_trap_config_get \/ ReadChannel \/ Send \/ Count \/ FreeSkb

Next == Netlink \/ Dispatch

Spec == Init /\ [][Next]_vars

----------------------------------------------------------------------------
(* Properties.                                                             *)

\* Every variable of the table and of the dispatch stays in its range.
TypeOK ==
  /\ trap \in [TrapIds -> Addrs \cup {None}]
  /\ rc_map \in [ReasonCodes -> TrapIds \cup {None}]
  /\ alloc \subseteq Addrs
  /\ cfg \in [Addrs -> Config]
  /\ cb_sock \in BOOLEAN
  /\ mirror \in BOOLEAN
  /\ pc \in {"idle", "id", "look", "cfg", "send", "count", "out"}
  /\ rc \in ReasonCodes \cup {None}
  /\ trap_id \in TrapIds \cup {None}
  /\ trap_cfg \in Addrs \cup {None}
  /\ ch \in Channels
  /\ stale \in BOOLEAN
  /\ served \in [Addrs -> 0 .. CountMod - 1]

\* The configurations in memory are exactly those in the table, each at one
\* trap id: replacing and removing traps neither leaks a configuration nor
\* leaves a pointer to a freed one.
TableOwnsConfigs ==
  /\ alloc = {trap[i] : i \in TrapIds} \ {None}
  /\ \A i, j \in TrapIds : trap[i] = trap[j] /\ trap[i] # None => i = j

\* Unless its configuration was freed under it, a packet goes where the table
\* said at some moment of its handling: to the channel of the trap registered
\* for its reason code, to the callback socket if there was none, and to the
\* mirror only if mirroring was on.
DispatchJustified ==
  pc = "out" /\ ~stale =>
    sent \in {Receivers(dd, c, m) : dd \in seen.dest, c \in seen.cb, m \in seen.mir}

\* "No trap is registered then send it traffic to CB channel": if no trap was
\* registered for the packet's reason code while it was handled, only the
\* callback socket gets it.
UnregisteredToCb ==
  pc = "out" /\ ~stale /\ seen.dest = {<<"cb", None>>} => sent \subseteq {"cb"}

\* "Rx packets counter": the counter of a trap that is in the table counts the
\* packets dispatched by that trap.
CountsOwnPackets ==
  \A i \in TrapIds : trap[i] # None /\ pc \in {"idle", "id"} =>
    cfg[trap[i]].rx_count = served[trap[i]]

----------------------------------------------------------------------------
(* The inductive invariant from which DispatchJustified follows.           *)

\* Every trap id is used with one reason code, and no two with the same.
OneToOne == \A i, j \in TrapIds : \A r \in RcsOf[i], q \in RcsOf[j] : r = q <=> i = j

\* rc_map knows the trap id of every configuration in the table, and of no
\* reason code that the trap id is not used with.
MapInv ==
  /\ \A r \in ReasonCodes : rc_map[r] # None => r \in RcsOf[rc_map[r]]
  /\ \A i \in TrapIds : trap[i] # None =>
       /\ cfg[trap[i]].rc \in RcsOf[i]
       /\ rc_map[cfg[trap[i]].rc] # None

\* What the present table, callback socket and mirroring setting say has been
\* noted for the packet in work.
NowSeen ==
  pc # "idle" => /\ Verdict(trap, cfg, rc) \subseteq seen.dest
                 /\ cb_sock \in seen.cb
                 /\ mirror \in seen.mir

Justified == {Receivers(dd, c, m) : dd \in seen.dest, c \in seen.cb, m \in seen.mir}

\* The packet's configuration is still the one of its trap.
Follows == trap_id # None /\ rc \in RcsOf[trap_id] /\ trap[trap_id] = trap_cfg /\ trap_cfg # None

\* What xp_rx_skb_process knows about its packet at each place, as long as the
\* configuration it points to was not freed.
PacketInv ==
  /\ pc \in {"idle", "id", "look", "cfg", "send"} => sent = {}
  /\ pc = "look" /\ trap_id = None => <<"cb", None>> \in seen.dest
  /\ pc = "look" /\ trap_id # None => rc \in ReasonCodes /\ rc \in RcsOf[trap_id]
  /\ ~stale =>
       /\ pc = "cfg" => Follows
       /\ pc = "send" /\ trap_cfg # None => Follows /\ ch = cfg[trap_cfg].ch
       /\ pc = "send" /\ trap_cfg = None => ch = "cb" /\ <<"cb", None>> \in seen.dest
       /\ pc \in {"count", "out"} => sent \in Justified

DispatchInv == TypeOK /\ TableOwnsConfigs /\ MapInv /\ NowSeen /\ PacketInv

=============================================================================
