---------------------------- MODULE XpTrapProof ----------------------------
(* Proofs about XpTrap: types, and that the table owns its configurations. *)
EXTENDS XpTrap, TLAPS

\* What stands for unused memory is a configuration.
LEMMA BlankType == Blank \in Config
<1>1. PICK r \in ReasonCodes : TRUE
  BY ReasonCodesAssumption
<1>2. [rc |-> r, ch |-> "cb", sock |-> None, rx_count |-> 0] \in Config
  <2>1. 0 \in 0 .. CountMod - 1
    BY CountModAssumption
  <2> QED
    BY <2>1 DEF Config, Channels
<1> QED
  BY <1>2 DEF Blank

\* Freeing an address keeps the memory well typed.
LEMMA FreedType ==
  ASSUME TypeOK, NEW a
  PROVE  Freed(a) \in [Addrs -> Config]
BY BlankType DEF Freed, TypeOK

\* The counters wrap within their range.
LEMMA WrapType ==
  ASSUME NEW n \in 0 .. CountMod - 1
  PROVE  (n + 1) % CountMod \in 0 .. CountMod - 1
BY CountModAssumption

\* xp_trap_id_entry_add keeps the types of the table.
LEMMA AddType ==
  ASSUME TypeOK,
         NEW i \in TrapIds, NEW r \in ReasonCodes, NEW c \in Channels,
         NEW s \in Sockets \cup {None}, NEW a \in Addrs,
         xp_trap_id_entry_add(i, r, c, s, a)
  PROVE  /\ trap' \in [TrapIds -> Addrs \cup {None}]
         /\ rc_map' \in [ReasonCodes -> TrapIds \cup {None}]
         /\ alloc' \subseteq Addrs
         /\ cfg' \in [Addrs -> Config]
         /\ stale' \in BOOLEAN
         /\ served' \in [Addrs -> 0 .. CountMod - 1]
<1>1. trap' \in [TrapIds -> Addrs \cup {None}] /\ alloc' \subseteq Addrs
  BY DEF TypeOK, xp_trap_id_entry_add
<1>2. rc_map' \in [ReasonCodes -> TrapIds \cup {None}]
  BY DEF TypeOK, xp_trap_id_entry_add
<1>3. 0 \in 0 .. CountMod - 1
  BY CountModAssumption
<1>4. [rc |-> r, ch |-> c, sock |-> s, rx_count |-> 0] \in Config
  BY <1>3 DEF Config
<1>5. cfg' \in [Addrs -> Config]
  BY <1>4, FreedType DEF xp_trap_id_entry_add
<1>6. stale' \in BOOLEAN
  BY DEF TypeOK, xp_trap_id_entry_add, InUse
<1>7. served' \in [Addrs -> 0 .. CountMod - 1]
  BY <1>3 DEF TypeOK, xp_trap_id_entry_add
<1> QED
  BY <1>1, <1>2, <1>5, <1>6, <1>7

\* xp_trap_id_entry_remove keeps the types of the table.
LEMMA RemoveType ==
  ASSUME TypeOK, NEW i \in TrapIds, xp_trap_id_entry_remove(i)
  PROVE  /\ trap' \in [TrapIds -> Addrs \cup {None}]
         /\ rc_map' \in [ReasonCodes -> TrapIds \cup {None}]
         /\ alloc' \subseteq Addrs
         /\ cfg' \in [Addrs -> Config]
         /\ stale' \in BOOLEAN
         /\ served' \in [Addrs -> 0 .. CountMod - 1]
<1>1. trap' \in [TrapIds -> Addrs \cup {None}] /\ alloc' \subseteq Addrs
  BY DEF TypeOK, xp_trap_id_entry_remove
<1>2. rc_map' \in [ReasonCodes -> TrapIds \cup {None}]
  BY DEF TypeOK, xp_trap_id_entry_remove
<1>3. 0 \in 0 .. CountMod - 1
  BY CountModAssumption
<1>4. cfg' \in [Addrs -> Config]
  BY FreedType DEF xp_trap_id_entry_remove
<1>5. stale' \in BOOLEAN
  BY DEF TypeOK, xp_trap_id_entry_remove, InUse
<1>6. served' \in [Addrs -> 0 .. CountMod - 1]
  BY <1>3 DEF TypeOK, xp_trap_id_entry_remove
<1> QED
  BY <1>1, <1>2, <1>4, <1>5, <1>6

\* Every step keeps every variable in its range.
LEMMA StepType ==
  ASSUME TypeOK, [Next]_vars
  PROVE  TypeOK'
<1>1. ASSUME NEW i \in TrapIds, NEW r \in ReasonCodes, NEW c \in Used, TrapAdd(i, r, c)
      PROVE  TypeOK'
  <2>1. c \in Channels
    BY UsedAssumption DEF Channels
  <2>2. PICK s \in Sockets \cup {None}, a \in Addrs : xp_trap_id_entry_add(i, r, c, s, a)
    BY <1>1 DEF TrapAdd
  <2>3. UNCHANGED <<cb_sock, mirror, pc, rc, trap_id, trap_cfg, ch>>
    BY <1>1 DEF TrapAdd, work
  <2> QED
    BY <2>1, <2>2, <2>3, AddType DEF TypeOK
<1>2. ASSUME NEW i \in TrapIds, TrapRemove(i)
      PROVE  TypeOK'
  <2>1. xp_trap_id_entry_remove(i)
    BY <1>2 DEF TrapRemove
  <2>2. UNCHANGED <<cb_sock, mirror, pc, rc, trap_id, trap_cfg, ch>>
    BY <1>2 DEF TrapRemove, work
  <2> QED
    BY <2>1, <2>2, RemoveType DEF TypeOK
<1>3. ASSUME NEW b \in BOOLEAN, CbFd(b) \/ Mirror(b)
      PROVE  TypeOK'
  BY <1>3 DEF CbFd, Mirror, TypeOK, table, work
<1>4. ASSUME NEW r \in ReasonCodes \cup {None}, Arrive(r)
      PROVE  TypeOK'
  BY <1>4 DEF Arrive, TypeOK, table
<1>5. CASE xp_trap_id_get
  BY <1>5 DEF xp_trap_id_get, TypeOK, table
<1>6. CASE xp_trap_config_get
  BY <1>6 DEF xp_trap_config_get, TypeOK, table, Channels
<1>7. CASE ReadChannel
  <2>1. ch' \in Channels
    <3>1. CASE trap_cfg \in alloc
      <4>1. cfg[trap_cfg] \in Config
        BY <3>1 DEF TypeOK
      <4> QED
        BY <1>7, <3>1, <4>1 DEF ReadChannel, Config
    <3>2. CASE trap_cfg \notin alloc
      BY <1>7, <3>2 DEF ReadChannel
    <3> QED
      BY <3>1, <3>2
  <2> QED
    BY <1>7, <2>1 DEF ReadChannel, TypeOK, table
<1>8. CASE Send
  BY <1>8 DEF Send, TypeOK, table
<1>9. CASE Count
  <2>1. cfg' \in [Addrs -> Config]
    <3>1. CASE trap_cfg \in alloc
      <4>1. trap_cfg \in Addrs /\ cfg[trap_cfg] \in Config
        BY <3>1 DEF TypeOK
      <4>2. (cfg[trap_cfg].rx_count + 1) % CountMod \in 0 .. CountMod - 1
        BY <4>1, WrapType DEF Config
      <4>3. [cfg[trap_cfg] EXCEPT !.rx_count = (@ + 1) % CountMod] \in Config
        BY <4>1, <4>2 DEF Config
      <4> QED
        BY <1>9, <3>1, <4>1, <4>3 DEF Count, TypeOK
    <3>2. CASE trap_cfg \notin alloc
      BY <1>9, <3>2 DEF Count, TypeOK
    <3> QED
      BY <3>1, <3>2
  <2>2. served' \in [Addrs -> 0 .. CountMod - 1]
    <3>1. \A a \in Addrs : (served[a] + 1) % CountMod \in 0 .. CountMod - 1
      BY WrapType DEF TypeOK
    <3> QED
      BY <1>9, <3>1 DEF Count, TypeOK
  <2> QED
    BY <1>9, <2>1, <2>2 DEF Count, TypeOK
<1>10. CASE FreeSkb
  BY <1>10 DEF FreeSkb, TypeOK, table, Channels
<1>11. CASE UNCHANGED vars
  BY <1>11 DEF vars, table, work, TypeOK
<1> QED
  BY <1>1, <1>2, <1>3, <1>4, <1>5, <1>6, <1>7, <1>8, <1>9, <1>10, <1>11
  DEF Next, Netlink, Dispatch

\* Every variable of the trap table and of xp_rx_skb_process stays in its
\* range.
THEOREM TypeCorrect == Spec => []TypeOK
<1>1. Init => TypeOK
  <2> SUFFICES ASSUME Init
               PROVE  TypeOK
    OBVIOUS
  <2>1. 0 \in 0 .. CountMod - 1
    BY CountModAssumption
  <2>2. cfg \in [Addrs -> Config] /\ served \in [Addrs -> 0 .. CountMod - 1]
    BY <2>1, BlankType DEF Init
  <2> QED
    BY <2>2 DEF Init, TypeOK, Channels
<1>2. TypeOK /\ [Next]_vars => TypeOK'
  BY StepType
<1> QED
  BY <1>1, <1>2, PTL DEF Spec

\* xp_trap_id_entry_add and xp_trap_id_entry_remove keep the configurations in
\* memory and those in the table the same: nothing leaks, no entry dangles.
THEOREM ConfigsOwned == Spec => []TableOwnsConfigs
<1>1. Init => TableOwnsConfigs
  BY DEF Init, TableOwnsConfigs
<1>2. ASSUME TypeOK, TableOwnsConfigs, [Next]_vars
      PROVE  TableOwnsConfigs'
  <2>1. ASSUME NEW i \in TrapIds, NEW r \in ReasonCodes, NEW c \in Used, TrapAdd(i, r, c)
        PROVE  TableOwnsConfigs'
    <3>1. PICK s \in Sockets \cup {None}, a \in Addrs :
            xp_trap_id_entry_add(i, r, c, s, a)
      BY <2>1 DEF TrapAdd
    <3>2. a # None /\ \A j \in TrapIds : trap[j] # a
      BY <1>2, <3>1, NoneAssumption DEF xp_trap_id_entry_add, TableOwnsConfigs
    <3>3. /\ alloc' = (alloc \cup {a}) \ {trap[i]}
          /\ trap' = [trap EXCEPT ![i] = a]
      BY <3>1 DEF xp_trap_id_entry_add
    <3>4. \A j \in TrapIds : trap'[j] = IF j = i THEN a ELSE trap[j]
      BY <1>2, <3>3 DEF TypeOK
    <3>5. \A j, k \in TrapIds : trap'[j] = trap'[k] /\ trap'[j] # None => j = k
      BY <1>2, <3>2, <3>4 DEF TableOwnsConfigs
    <3>6. \A x : x \in alloc' <=> x # None /\ \E j \in TrapIds : x = trap'[j]
      BY <1>2, <3>2, <3>3, <3>4 DEF TableOwnsConfigs
    <3> QED
      BY <3>5, <3>6 DEF TableOwnsConfigs
  <2>2. ASSUME NEW i \in TrapIds, TrapRemove(i)
        PROVE  TableOwnsConfigs'
    <3>1. /\ alloc' = alloc \ {trap[i]}
          /\ trap' = [trap EXCEPT ![i] = None]
          /\ trap[i] # None
      BY <2>2 DEF TrapRemove, xp_trap_id_entry_remove
    <3>2. \A j \in TrapIds : trap'[j] = IF j = i THEN None ELSE trap[j]
      BY <1>2, <3>1 DEF TypeOK
    <3>3. \A j, k \in TrapIds : trap'[j] = trap'[k] /\ trap'[j] # None => j = k
      BY <1>2, <3>2 DEF TableOwnsConfigs
    <3>4. \A x : x \in alloc' <=> x # None /\ \E j \in TrapIds : x = trap'[j]
      BY <1>2, <3>1, <3>2 DEF TableOwnsConfigs
    <3> QED
      BY <3>3, <3>4 DEF TableOwnsConfigs
  <2>3. CASE UNCHANGED <<trap, alloc>>
    BY <1>2, <2>3 DEF TableOwnsConfigs
  <2>4. ASSUME NEW b \in BOOLEAN, CbFd(b) \/ Mirror(b)
        PROVE  UNCHANGED <<trap, alloc>>
    BY <2>4 DEF CbFd, Mirror, table
  <2>5. Dispatch \/ UNCHANGED vars => UNCHANGED <<trap, alloc>>
    BY DEF Dispatch, Arrive, xp_trap_id_get, xp_trap_config_get, ReadChannel, Send,
           Count, FreeSkb, vars, table
  <2> QED
    BY <1>2, <2>1, <2>2, <2>3, <2>4, <2>5 DEF Next, Netlink
<1> QED
  BY <1>1, <1>2, TypeCorrect, PTL DEF Spec

----------------------------------------------------------------------------
(* Where a packet goes.  From here on every trap id is used with a reason  *)
(* code of its own (OneToOne); without that the table itself may answer    *)
(* for the wrong trap, because xp_trap_id_entry_remove leaves rc_map alone.*)

\* The table's answer for a reason code is the configuration of its one trap.
LEMMA VerdictOne ==
  ASSUME OneToOne, TypeOK, MapInv,
         NEW i \in TrapIds, NEW r \in ReasonCodes, r \in RcsOf[i]
  PROVE  /\ trap[i] = None => Verdict(trap, cfg, r) = {<<"cb", None>>}
         /\ trap[i] # None => <<cfg[trap[i]].ch, cfg[trap[i]].sock>> \in Verdict(trap, cfg, r)
<1>1. \A j \in TrapIds : trap[j] # None /\ cfg[trap[j]].rc = r => j = i
  BY DEF MapInv, OneToOne
<1>2. CASE trap[i] = None
  <2>1. Registered(trap, cfg, r) = {}
    BY <1>1, <1>2 DEF Registered
  <2> QED
    BY <1>2, <2>1 DEF Verdict
<1>3. CASE trap[i] # None
  <2>1. cfg[trap[i]].rc = r
    BY <1>3 DEF MapInv, OneToOne
  <2>2. cfg[trap[i]] \in Registered(trap, cfg, r)
    BY <1>3, <2>1 DEF Registered
  <2> QED
    BY <1>3, <2>2 DEF Verdict
<1> QED
  BY <1>2, <1>3

\* A reason code without trap id has no configuration.
LEMMA VerdictNone ==
  ASSUME TypeOK, MapInv, NEW r \in ReasonCodes \cup {None},
         r = None \/ rc_map[r] = None
  PROVE  Verdict(trap, cfg, r) = {<<"cb", None>>}
<1>1. \A j \in TrapIds : trap[j] # None => cfg[trap[j]].rc \in ReasonCodes
  BY DEF TypeOK, Config
<1>2. \A j \in TrapIds : ~(trap[j] # None /\ cfg[trap[j]].rc = r)
  BY <1>1, NoneAssumption DEF MapInv
<1>3. Registered(trap, cfg, r) = {}
  BY <1>2 DEF Registered
<1> QED
  BY <1>3 DEF Verdict

\* A netlink request that leaves the configuration of the packet in work in
\* place, or is noted as having freed it.
LEMMA NoteStep ==
  ASSUME DispatchInv, UNCHANGED work, Observe(rc), stale => stale',
         ~stale' /\ pc \in {"cfg", "send"} /\ trap_cfg # None =>
           trap'[trap_id] = trap[trap_id] /\ cfg'[trap_cfg].ch = cfg[trap_cfg].ch
  PROVE  NowSeen' /\ PacketInv'
<1> USE DEF DispatchInv
<1>0. /\ pc' = pc /\ rc' = rc /\ trap_id' = trap_id /\ trap_cfg' = trap_cfg /\ ch' = ch
      /\ sent' = sent
  BY DEF work
<1>1. CASE pc = "idle"
  BY <1>0, <1>1 DEF NowSeen, PacketInv
<1>2. CASE pc # "idle"
  <2>1. /\ seen.dest \subseteq seen'.dest /\ Verdict(trap', cfg', rc) \subseteq seen'.dest
        /\ seen.cb \subseteq seen'.cb /\ cb_sock' \in seen'.cb
        /\ seen.mir \subseteq seen'.mir /\ mirror' \in seen'.mir
    BY <1>2 DEF Observe
  <2>2. NowSeen'
    BY <1>0, <2>1 DEF NowSeen
  <2>3. sent \in Justified => sent \in Justified'
    BY <2>1 DEF Justified
  <2>4. PacketInv'
    BY <1>0, <2>1, <2>3 DEF PacketInv, Follows
  <2> QED
    BY <2>2, <2>4
<1> QED
  BY <1>1, <1>2

\* A trap is added: the new configuration takes an unused address, those of
\* the other traps stay.
LEMMA AddStep ==
  ASSUME DispatchInv, NEW i \in TrapIds, NEW r \in ReasonCodes, NEW c \in Used,
         TrapAdd(i, r, c)
  PROVE  MapInv' /\ NowSeen' /\ PacketInv'
<1> USE DEF DispatchInv
<1>1. PICK s \in Sockets \cup {None}, a \in Addrs : xp_trap_id_entry_add(i, r, c, s, a)
  BY DEF TrapAdd
<1>2. r \in RcsOf[i] /\ UNCHANGED work /\ Observe(rc) /\ a \notin alloc
  BY <1>1 DEF TrapAdd, xp_trap_id_entry_add
<1>3. \A j \in TrapIds : trap[j] # None => trap[j] \in alloc /\ trap[j] \in Addrs /\ trap[j] # a
  BY <1>2, NoneAssumption DEF TableOwnsConfigs, TypeOK
<1>4. /\ \A j \in TrapIds : trap'[j] = IF j = i THEN a ELSE trap[j]
      /\ \A q \in ReasonCodes : rc_map'[q] = IF q = r THEN i ELSE rc_map[q]
      /\ stale' = (stale \/ InUse(trap[i]))
  BY <1>1 DEF xp_trap_id_entry_add, TypeOK
<1>5. cfg'[a].rc = r /\ \A b \in Addrs : b # a /\ b # trap[i] => cfg'[b] = cfg[b]
  BY <1>1 DEF xp_trap_id_entry_add, TypeOK, Freed
<1>6. \A j \in TrapIds : j # i /\ trap[j] # None => cfg'[trap[j]] = cfg[trap[j]]
  BY <1>3, <1>5 DEF TableOwnsConfigs
<1>7. i # None /\ a # None
  BY NoneAssumption
<1>8. MapInv'
  <2>1. \A q \in ReasonCodes : rc_map'[q] # None => q \in RcsOf[rc_map'[q]]
    BY <1>2, <1>4 DEF MapInv
  <2>2. ASSUME NEW j \in TrapIds, trap'[j] # None
        PROVE  cfg'[trap'[j]].rc \in RcsOf[j] /\ rc_map'[cfg'[trap'[j]].rc] # None
    <3>1. CASE j = i
      BY <1>2, <1>4, <1>5, <1>7, <3>1
    <3>2. CASE j # i
      <4>1. trap'[j] = trap[j] /\ cfg'[trap[j]] = cfg[trap[j]] /\ cfg[trap[j]].rc \in RcsOf[j]
            /\ rc_map[cfg[trap[j]].rc] # None
        BY <1>4, <1>6, <2>2, <3>2 DEF MapInv
      <4>2. cfg[trap[j]].rc \in ReasonCodes
        BY <4>1, RcsOfAssumption
      <4> QED
        BY <1>4, <1>7, <4>1, <4>2
    <3> QED
      BY <3>1, <3>2
  <2> QED
    BY <2>1, <2>2 DEF MapInv
<1>9. ASSUME ~stale', pc \in {"cfg", "send"}, trap_cfg # None
      PROVE  trap'[trap_id] = trap[trap_id] /\ cfg'[trap_cfg].ch = cfg[trap_cfg].ch
  <2>1. ~stale /\ trap_cfg # trap[i]
    BY <1>4, <1>9 DEF InUse
  <2>2. Follows
    BY <1>9, <2>1 DEF PacketInv
  <2>3. trap_id \in TrapIds /\ trap_id # i
    BY <2>1, <2>2 DEF TypeOK, Follows
  <2> QED
    BY <1>4, <1>6, <2>2, <2>3 DEF Follows
<1>10. stale => stale'
  BY <1>4
<1> QED
  BY <1>2, <1>8, <1>9, <1>10, NoteStep

\* A trap is removed: the configurations of the other traps stay.
LEMMA RemoveStep ==
  ASSUME DispatchInv, NEW i \in TrapIds, TrapRemove(i)
  PROVE  MapInv' /\ NowSeen' /\ PacketInv'
<1> USE DEF DispatchInv
<1>1. /\ trap[i] # None /\ UNCHANGED work /\ Observe(rc) /\ rc_map' = rc_map
      /\ \A j \in TrapIds : trap'[j] = IF j = i THEN None ELSE trap[j]
      /\ stale' = (stale \/ InUse(trap[i]))
      /\ cfg' = Freed(trap[i])
  BY DEF TrapRemove, xp_trap_id_entry_remove, TypeOK
<1>2. \A b \in Addrs : b # trap[i] => cfg'[b] = cfg[b]
  BY <1>1 DEF Freed
<1>3. \A j \in TrapIds : j # i /\ trap[j] # None => cfg'[trap[j]] = cfg[trap[j]]
  BY <1>2 DEF TableOwnsConfigs, TypeOK
<1>4. MapInv'
  BY <1>1, <1>3 DEF MapInv
<1>5. ASSUME ~stale', pc \in {"cfg", "send"}, trap_cfg # None
      PROVE  trap'[trap_id] = trap[trap_id] /\ cfg'[trap_cfg].ch = cfg[trap_cfg].ch
  <2>1. ~stale /\ trap_cfg # trap[i]
    BY <1>1, <1>5 DEF InUse
  <2>2. Follows
    BY <1>5, <2>1 DEF PacketInv
  <2>3. trap_id \in TrapIds /\ trap_id # i
    BY <2>1, <2>2 DEF TypeOK, Follows
  <2> QED
    BY <1>1, <1>3, <2>2, <2>3 DEF Follows
<1>6. stale => stale'
  BY <1>1
<1> QED
  BY <1>1, <1>4, <1>5, <1>6, NoteStep

\* Counting a packet changes no answer of the table.
LEMMA CountKeeps ==
  ASSUME TypeOK, Count
  PROVE  /\ \A b \in Addrs : /\ cfg'[b].rc = cfg[b].rc
                             /\ cfg'[b].ch = cfg[b].ch
                             /\ cfg'[b].sock = cfg[b].sock
         /\ \A r : Verdict(trap, cfg', r) \subseteq Verdict(trap, cfg, r)
<1>1. \A b \in Addrs : cfg'[b].rc = cfg[b].rc /\ cfg'[b].ch = cfg[b].ch /\ cfg'[b].sock = cfg[b].sock
  <2>1. CASE trap_cfg \in alloc
    <3> DEFINE d == [cfg[trap_cfg] EXCEPT !.rx_count = (@ + 1) % CountMod]
    <3>1. cfg' = [cfg EXCEPT ![trap_cfg] = d]
      BY <2>1 DEF Count
    <3>2. cfg[trap_cfg] \in Config
      BY <2>1 DEF TypeOK
    <3>3. d.rc = cfg[trap_cfg].rc /\ d.ch = cfg[trap_cfg].ch /\ d.sock = cfg[trap_cfg].sock
      BY <3>2 DEF Config
    <3> HIDE DEF d
    <3> QED
      BY <3>1, <3>3 DEF TypeOK
  <2>2. CASE trap_cfg \notin alloc
    BY <2>2 DEF Count
  <2> QED
    BY <2>1, <2>2
<1>2. ASSUME NEW r
      PROVE  Verdict(trap, cfg', r) \subseteq Verdict(trap, cfg, r)
  <2>1. \A j \in TrapIds : trap[j] # None =>
          /\ cfg'[trap[j]].rc = cfg[trap[j]].rc
          /\ <<cfg'[trap[j]].ch, cfg'[trap[j]].sock>> = <<cfg[trap[j]].ch, cfg[trap[j]].sock>>
    BY <1>1 DEF TypeOK
  <2> DEFINE R == {j \in TrapIds : trap[j] # None /\ cfg[trap[j]].rc = r}
  <2>2. R = {j \in TrapIds : trap[j] # None /\ cfg'[trap[j]].rc = r}
    BY <2>1
  <2>3. Registered(trap, cfg, r) = {cfg[trap[j]] : j \in R}
    BY DEF Registered
  <2>4. Registered(trap, cfg', r) = {cfg'[trap[j]] : j \in R}
    BY <2>2 DEF Registered
  <2>5. CASE R = {}
    BY <2>3, <2>4, <2>5 DEF Verdict
  <2>6. CASE R # {}
    <3>1. Verdict(trap, cfg', r) = {<<x.ch, x.sock>> : x \in Registered(trap, cfg', r)}
      BY <2>4, <2>6 DEF Verdict
    <3>2. Verdict(trap, cfg, r) = {<<x.ch, x.sock>> : x \in Registered(trap, cfg, r)}
      BY <2>3, <2>6 DEF Verdict
    <3>3. \A j \in R : <<cfg'[trap[j]].ch, cfg'[trap[j]].sock>> \in Verdict(trap, cfg, r)
      BY <2>1, <2>3, <3>2
    <3> QED
      BY <2>4, <3>1, <3>3
  <2> QED
    BY <2>5, <2>6
<1> QED
  BY <1>1, <1>2

\* Every step of xp_rx_skb_process takes its packet to a destination that the
\* table has given, or learns what it needs for that.
LEMMA DispatchStep ==
  ASSUME OneToOne, DispatchInv, Dispatch
  PROVE  MapInv' /\ NowSeen' /\ PacketInv'
<1> USE DEF DispatchInv
<1>1. ASSUME NEW r \in ReasonCodes \cup {None}, Arrive(r)
      PROVE  MapInv' /\ NowSeen' /\ PacketInv'
  <2>1. MapInv'
    BY <1>1 DEF Arrive, table, MapInv
  <2>2. NowSeen'
    BY <1>1 DEF Arrive, table, NowSeen
  <2>3. PacketInv'
    BY <1>1 DEF Arrive, PacketInv
  <2> QED
    BY <2>1, <2>2, <2>3
<1>m. ASSUME xp_trap_id_get \/ xp_trap_config_get \/ ReadChannel \/ Send
      PROVE  MapInv' /\ NowSeen'
  <2>1. /\ UNCHANGED <<table, cb_sock, mirror, rc, seen, stale>>
        /\ pc # "idle" /\ pc' # "idle"
    BY <1>m DEF xp_trap_id_get, xp_trap_config_get, ReadChannel, Send
  <2> QED
    BY <2>1 DEF MapInv, NowSeen, table
<1>2. CASE xp_trap_id_get
  <2>1. /\ pc = "id" /\ pc' = "look" /\ sent = {} /\ sent' = sent /\ seen' = seen /\ rc' = rc
        /\ trap_id' = IF rc = None THEN None ELSE rc_map[rc]
    BY <1>2 DEF xp_trap_id_get, PacketInv
  <2>2. rc \in ReasonCodes \cup {None} /\ Verdict(trap, cfg, rc) \subseteq seen.dest
    BY <2>1 DEF TypeOK, NowSeen
  <2>3. trap_id' = None => <<"cb", None>> \in seen.dest
    BY <2>1, <2>2, VerdictNone
  <2>4. trap_id' # None => rc \in ReasonCodes /\ rc \in RcsOf[trap_id']
    BY <2>1, <2>2 DEF MapInv
  <2>5. PacketInv'
    BY <2>1, <2>3, <2>4 DEF PacketInv
  <2> QED
    BY <1>2, <1>m, <2>5
<1>3. CASE xp_trap_config_get
  <2>1. /\ pc = "look" /\ sent = {} /\ sent' = sent /\ seen' = seen /\ rc' = rc
        /\ trap' = trap /\ cfg' = cfg /\ trap_id' = trap_id /\ stale' = stale /\ ch' = "cb"
        /\ trap_cfg' = IF trap_id = None THEN None ELSE trap[trap_id]
        /\ pc' = IF trap_cfg' = None THEN "send" ELSE "cfg"
    BY <1>3 DEF xp_trap_config_get, PacketInv, table
  <2>2. Verdict(trap, cfg, rc) \subseteq seen.dest
    BY <2>1 DEF NowSeen
  <2>3. CASE trap_id = None
    BY <1>3, <1>m, <2>1, <2>3 DEF PacketInv
  <2>4. CASE trap_id # None
    <3>1. trap_id \in TrapIds /\ rc \in ReasonCodes /\ rc \in RcsOf[trap_id]
      BY <2>1, <2>4 DEF PacketInv, TypeOK
    <3>2. trap[trap_id] = None => <<"cb", None>> \in seen.dest
      BY <2>2, <3>1, VerdictOne
    <3>3. PacketInv'
      BY <2>1, <2>4, <3>1, <3>2 DEF PacketInv, Follows
    <3> QED
      BY <1>3, <1>m, <3>3
  <2> QED
    BY <2>3, <2>4
<1>4. CASE ReadChannel
  <2>1. /\ pc = "cfg" /\ sent = {} /\ sent' = sent /\ seen' = seen /\ rc' = rc
        /\ trap' = trap /\ cfg' = cfg /\ trap_id' = trap_id /\ stale' = stale
        /\ trap_cfg' = trap_cfg /\ pc' = IF ch' = "other" THEN "out" ELSE "send"
    BY <1>4 DEF ReadChannel, PacketInv, table
  <2>2. CASE stale
    BY <1>4, <1>m, <2>1, <2>2 DEF PacketInv
  <2>3. CASE ~stale
    <3>1. Follows
      BY <2>1, <2>3 DEF PacketInv
    <3>2. trap_id \in TrapIds /\ rc \in RcsOf[trap_id] /\ trap[trap_id] = trap_cfg
          /\ trap_cfg # None /\ rc \in ReasonCodes
      BY <3>1, RcsOfAssumption DEF Follows, TypeOK
    <3>3. trap_cfg \in alloc
      BY <3>2 DEF TableOwnsConfigs
    <3>4. ch' = cfg[trap_cfg].ch
      BY <1>4, <3>3 DEF ReadChannel
    <3>5. ASSUME ch' = "other" PROVE sent \in Justified
      <4>1. PICK dd \in seen.dest : dd[1] = "other"
        <5>1. <<cfg[trap_cfg].ch, cfg[trap_cfg].sock>> \in seen.dest
          BY <2>1, <3>2, VerdictOne DEF NowSeen
        <5> QED
          BY <3>4, <3>5, <5>1
      <4>2. cb_sock \in seen.cb /\ mirror \in seen.mir
        BY <2>1 DEF NowSeen
      <4>3. Receivers(dd, cb_sock, mirror) = {}
        BY <4>1 DEF Receivers
      <4> QED
        BY <2>1, <4>1, <4>2, <4>3 DEF Justified
    <3>6. Follows' /\ Justified' = Justified
      BY <2>1, <3>1 DEF Follows, Justified
    <3>7. PacketInv'
      BY <2>1, <3>2, <3>4, <3>5, <3>6 DEF PacketInv
    <3> QED
      BY <1>4, <1>m, <3>7
  <2> QED
    BY <2>2, <2>3
<1>5. CASE Send
  <2>1. /\ pc = "send" /\ seen' = seen /\ stale' = stale
        /\ pc' = IF trap_cfg = None THEN "out" ELSE "count"
    BY <1>5 DEF Send
  <2>2. PICK s \in Sockets \cup {None} :
          /\ trap_cfg \in alloc => s = cfg[trap_cfg].sock
          /\ sent' = Receivers(<<ch, s>>, cb_sock, mirror)
    BY <1>5 DEF Send
  <2>3. cb_sock \in seen.cb /\ mirror \in seen.mir /\ Verdict(trap, cfg, rc) \subseteq seen.dest
    BY <2>1 DEF NowSeen
  <2>4. ASSUME ~stale PROVE sent' \in Justified
    <3>1. CASE trap_cfg = None
      <4>1. ch = "cb" /\ <<"cb", None>> \in seen.dest
        BY <2>1, <2>4, <3>1 DEF PacketInv
      <4>2. sent' = Receivers(<<"cb", None>>, cb_sock, mirror)
        BY <2>2, <4>1 DEF Receivers
      <4> QED
        BY <2>3, <4>1, <4>2 DEF Justified
    <3>2. CASE trap_cfg # None
      <4>1. Follows /\ ch = cfg[trap_cfg].ch
        BY <2>1, <2>4, <3>2 DEF PacketInv
      <4>2. trap_id \in TrapIds /\ rc \in RcsOf[trap_id] /\ trap[trap_id] = trap_cfg
            /\ rc \in ReasonCodes
        BY <4>1, RcsOfAssumption DEF Follows, TypeOK
      <4>3. s = cfg[trap_cfg].sock
        BY <2>2, <3>2, <4>2 DEF TableOwnsConfigs
      <4>4. <<ch, s>> \in seen.dest
        BY <2>3, <3>2, <4>1, <4>2, <4>3, VerdictOne
      <4> QED
        BY <2>2, <2>3, <4>4 DEF Justified
    <3> QED
      BY <3>1, <3>2
  <2>5. Justified' = Justified
    BY <2>1 DEF Justified
  <2>6. PacketInv'
    BY <2>1, <2>4, <2>5 DEF PacketInv
  <2> QED
    BY <1>5, <1>m, <2>6
<1>6. CASE Count
  <2>1. /\ pc = "count" /\ pc' = "out" /\ sent' = sent /\ seen' = seen /\ stale' = stale
        /\ trap' = trap /\ rc_map' = rc_map /\ rc' = rc /\ cb_sock' = cb_sock /\ mirror' = mirror
    BY <1>6 DEF Count
  <2>2. \A b \in Addrs : cfg'[b].rc = cfg[b].rc
    BY <1>6, CountKeeps
  <2>3. Verdict(trap, cfg', rc) \subseteq Verdict(trap, cfg, rc)
    BY <1>6, CountKeeps
  <2>4. MapInv'
    <3>1. \A j \in TrapIds : trap[j] # None => cfg'[trap[j]].rc = cfg[trap[j]].rc
      BY <2>2 DEF TypeOK
    <3> QED
      BY <2>1, <3>1 DEF MapInv
  <2>5. NowSeen'
    BY <2>1, <2>3 DEF NowSeen
  <2>6. PacketInv'
    BY <2>1 DEF PacketInv, Justified
  <2> QED
    BY <2>4, <2>5, <2>6
<1>7. CASE FreeSkb
  <2>1. MapInv'
    BY <1>7 DEF FreeSkb, table, MapInv
  <2>2. NowSeen' /\ PacketInv'
    BY <1>7 DEF FreeSkb, NowSeen, PacketInv
  <2> QED
    BY <2>1, <2>2
<1> QED
  BY <1>1, <1>2, <1>3, <1>4, <1>5, <1>6, <1>7 DEF Dispatch

\* The invariant about the table and the packet in work.
LEMMA DispatchInvariance == OneToOne => (Spec => []DispatchInv)
<1> SUFFICES ASSUME OneToOne PROVE Spec => []DispatchInv
  OBVIOUS
<1> DEFINE Inv == MapInv /\ NowSeen /\ PacketInv
<1>1. Init => Inv
  BY DEF Init, MapInv, NowSeen, PacketInv
<1>2. ASSUME TypeOK, TableOwnsConfigs, Inv, [Next]_vars
      PROVE  Inv'
  <2>0. DispatchInv
    BY <1>2 DEF DispatchInv
  <2>1. ASSUME NEW i \in TrapIds, NEW r \in ReasonCodes, NEW c \in Used, TrapAdd(i, r, c)
        PROVE  Inv'
    BY <2>0, <2>1, AddStep
  <2>2. ASSUME NEW i \in TrapIds, TrapRemove(i)
        PROVE  Inv'
    BY <2>0, <2>2, RemoveStep
  <2>3. ASSUME NEW b \in BOOLEAN, CbFd(b) \/ Mirror(b)
        PROVE  Inv'
    <3>1. UNCHANGED <<table, work, stale>> /\ Observe(rc)
      BY <2>3 DEF CbFd, Mirror
    <3>2. NowSeen' /\ PacketInv'
      BY <2>0, <3>1, NoteStep DEF table
    <3>3. MapInv'
      BY <1>2, <3>1 DEF MapInv, table
    <3> QED
      BY <3>2, <3>3
  <2>4. CASE Dispatch
    BY <2>0, <2>4, DispatchStep
  <2>5. CASE UNCHANGED vars
    BY <1>2, <2>5 DEF vars, table, work, MapInv, NowSeen, PacketInv, Follows, Justified
  <2> QED
    BY <1>2, <2>1, <2>2, <2>3, <2>4, <2>5 DEF Next, Netlink
<1> HIDE DEF Inv
<1>3. TypeOK /\ TableOwnsConfigs /\ Inv => DispatchInv
  BY DEF Inv, DispatchInv
<1> QED
  BY <1>1, <1>2, <1>3, TypeCorrect, ConfigsOwned, PTL DEF Spec

\* A packet that xp_rx_skb_process is done with went where the table, the
\* callback socket and the mirroring setting said while it was handled, unless
\* its configuration was freed under it.
THEOREM PacketsGoWhereToldTo == OneToOne => (Spec => []DispatchJustified)
<1>1. DispatchInv => DispatchJustified
  BY DEF DispatchInv, PacketInv, DispatchJustified, Justified
<1> QED
  BY <1>1, DispatchInvariance, PTL

=============================================================================
