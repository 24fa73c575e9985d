----------------------------- MODULE XpPciProof -----------------------------
(***************************************************************************)
(* Proofs about the life cycle of the driver.                              *)
(*                                                                         *)
(* About XpNetdevLife: as long as calls of xp_netdev_init,                 *)
(* xp_netdev_deinit and xp_packet_send do not overlap and user space is    *)
(* quiet during them, whichever step of them fails, everything is released *)
(* and nothing outlives what it uses.                                      *)
(*                                                                         *)
(* About XpPci, which extends it: what the probe, the removal, module init *)
(* and module exit hold at every step of their tables, whichever steps     *)
(* fail, and that nobody uses what they have given back.                   *)
(***************************************************************************)
EXTENDS XpPci, TLAPS

----------------------------------------------------------------------------
(* The net device mode (XpNetdevLife).                                     *)


\* The proc files, as a set.
LEMMA Files ==
  /\ Len(ProcFiles) = 6
  /\ {ProcFiles[i] : i \in 1..Len(ProcFiles)}
       = {"queue", "stats", "trap", "debug", "netdev", "txhdr"}
<1>1. Len(ProcFiles) = 6
  BY DEF ProcFiles
<1>2. /\ ProcFiles[1] = "queue" /\ ProcFiles[2] = "stats" /\ ProcFiles[3] = "trap"
      /\ ProcFiles[4] = "debug" /\ ProcFiles[5] = "netdev" /\ ProcFiles[6] = "txhdr"
  BY DEF ProcFiles
<1>3. 1 .. Len(ProcFiles) = {1, 2, 3, 4, 5, 6}
  BY <1>1
<1> QED
  BY <1>1, <1>2, <1>3

\* What reading each file uses, and which files user space leaves alone during
\* a call.
LEMMA UsesOf ==
  /\ Uses("queue") = {"priv", "rings"}
  /\ Uses("stats") = {"priv"}
  /\ Uses("trap") = {"table"}
  /\ \A f \in {"debug", "netdev", "txhdr", "none"} : Uses(f) = {}
  /\ Unguarded = {"queue", "trap"}
<1>1. Uses("queue") = {"priv", "rings"}
  BY DEF Uses, QueueUses, Locked
<1>2. Uses("stats") = {"priv"}
  BY DEF Uses, QueueUses, Locked
<1>3. Uses("trap") = {"table"}
  BY DEF Uses, QueueUses, Locked
<1>4. \A f \in {"debug", "netdev", "txhdr", "none"} : Uses(f) = {}
  BY DEF Uses, QueueUses, Locked
<1>5. Unguarded = {"queue", "trap"}
  BY <1>1, <1>2, <1>3 DEF Unguarded
<1> QED
  BY <1>1, <1>2, <1>3, <1>4, <1>5

\* A call that has set something up, or taken something down, holds what Holds
\* says.
LEMMA PartAt ==
  ASSUME LifeInv, NEW t \in Threads, pc[t] \in Setup \cup Takedown
  PROVE  \E n \in Privs : /\ net_priv[t] = n
                          /\ Holds(pc[t], n, op[t] = "deinit")
                          /\ IF op[t] = "deinit" THEN pc[t] \in Takedown
                             ELSE pc[t] \in Setup \cup ModeDown
<1>1. pc[t] \notin Before \cup {"alloc", "xmit"}
  BY DEF Setup, Takedown, ModeDown, Before
<1>2. pc[t] # "idle" /\ ~Idle(t) /\ ~On(t)
  BY <1>1 DEF Idle, On, Before
<1>3. Part(t)
  BY <1>2 DEF LifeInv
<1> QED
  BY <1>3 DEF Part

\* In particular, one that sets it up.
LEMMA SetupAt ==
  ASSUME LifeInv, NEW t \in Threads, pc[t] \in Setup
  PROVE  \E n \in Privs : /\ net_priv[t] = n
                          /\ Holds(pc[t], n, FALSE)
                          /\ op[t] # "deinit"
<1>1. pc[t] \notin Takedown
  BY DEF Setup, Takedown, ModeDown
<1>2. PICK n \in Privs : /\ net_priv[t] = n
                         /\ Holds(pc[t], n, op[t] = "deinit")
                         /\ op[t] # "deinit"
  BY <1>1, PartAt
<1>3. Holds(pc[t], n, FALSE)
  BY <1>2 DEF Holds
<1> QED
  BY <1>2, <1>3

\* And one that takes it down.
LEMMA DownAt ==
  ASSUME LifeInv, NEW t \in Threads, pc[t] \in {"cancel", "free", "unproc"}
  PROVE  \E n \in Privs : /\ net_priv[t] = n
                          /\ Holds(pc[t], n, TRUE)
                          /\ op[t] = "deinit"
<1>1. pc[t] \notin Setup \cup ModeDown /\ pc[t] \in Takedown
  BY DEF Setup, Takedown, ModeDown
<1>2. PICK n \in Privs : /\ net_priv[t] = n
                         /\ Holds(pc[t], n, op[t] = "deinit")
                         /\ op[t] = "deinit"
  BY <1>1, PartAt
<1>3. Holds(pc[t], n, TRUE)
  BY <1>2 DEF Holds
<1> QED
  BY <1>2, <1>3

\* A call that has not: the mode is off, or on.
LEMMA CalmAt ==
  ASSUME LifeInv, NEW t \in Threads, pc[t] \in {"init", "deinit", "send", "alloc", "xmit"}
  PROVE  /\ op[t] = "deinit" <=> pc[t] = "deinit"
         /\ \/ Off /\ pc[t] # "xmit"
            \/ \E n \in Privs : /\ Holds("on", n, TRUE) /\ pc[t] # "alloc"
                                /\ pc[t] = "xmit" => net_priv[t] = n
<1>1. pc[t] \notin Setup \cup Takedown
  BY DEF Setup, Takedown, ModeDown
<1>2. ~Part(t)
  BY <1>1 DEF Part, Takedown
<1>3. Idle(t) \/ On(t)
  BY <1>2 DEF LifeInv
<1> QED
  BY <1>3 DEF Idle, On, Calm, Before

\* A step of the only call: what it has to establish.
LEMMA Alone ==
  ASSUME TypeOK, OneCall, NEW t \in Threads, pc[t] # "idle", NEW l,
         pc' = [pc EXCEPT ![t] = l],
         l = "idle" => Off' \/ \E n \in Privs : Holds("on", n, TRUE)',
         l # "idle" => Idle(t)' \/ On(t)' \/ Part(t)'
  PROVE  LifeInv'
<1>1. pc'[t] = l
  BY DEF TypeOK
<1>2. \A s \in Threads : s # t => pc'[s] = "idle"
  BY DEF TypeOK, OneCall
<1>3. ASSUME NoCall' PROVE l = "idle"
  BY <1>1, <1>3 DEF NoCall
<1> QED
  BY <1>1, <1>2, <1>3 DEF LifeInv

\* Every step keeps the variables in their ranges.
LEMMA TypeStep ==
  ASSUME TypeOK, LifeInv, [Next]_vars
  PROVE  TypeOK'
<1> DEFINE Names == {ProcFiles[i] : i \in 1..Len(ProcFiles)}
<1>a. /\ trap_table \in BOOLEAN /\ netlink \in BOOLEAN /\ netdevs \in BOOLEAN
      /\ client \in BOOLEAN /\ nlbusy \in BOOLEAN
      /\ xpnet \in Privs \cup {None} /\ g_net_priv \in Privs \cup {None}
      /\ proc_data \in Privs \cup {None}
      /\ alive \subseteq Privs /\ rings \subseteq Privs /\ wqueue \subseteq Privs
      /\ dwork \in [Privs -> {"off", "queued", "running", "packet"}]
      /\ pc \in [Threads -> Labels]
      /\ net_priv \in [Threads -> Privs \cup {None}]
      /\ op \in [Threads -> {"none", "init", "deinit", "send"}]
      /\ proc \subseteq Names /\ reader \in {"none"} \cup Names
  BY DEF TypeOK
<1>b. /\ Before \subseteq Labels /\ Setup \subseteq Labels /\ Takedown \subseteq Labels
      /\ "alloc" \in Labels /\ "xmit" \in Labels
  BY DEF Labels
<1>c. SUFFICES
        /\ trap_table' \in BOOLEAN /\ netlink' \in BOOLEAN /\ netdevs' \in BOOLEAN
        /\ client' \in BOOLEAN /\ nlbusy' \in BOOLEAN
        /\ xpnet' \in Privs \cup {None} /\ g_net_priv' \in Privs \cup {None}
        /\ proc_data' \in Privs \cup {None}
        /\ alive' \subseteq Privs /\ rings' \subseteq Privs /\ wqueue' \subseteq Privs
        /\ dwork' \in [Privs -> {"off", "queued", "running", "packet"}]
        /\ pc' \in [Threads -> Labels]
        /\ net_priv' \in [Threads -> Privs \cup {None}]
        /\ op' \in [Threads -> {"none", "init", "deinit", "send"}]
        /\ proc' \subseteq Names /\ reader' \in {"none"} \cup Names
  BY DEF TypeOK
<1>d. Names = {"queue", "stats", "trap", "debug", "netdev", "txhdr"}
  BY Files
<1> HIDE DEF Names
<1> USE <1>a, <1>b DEF Goto, mode, core, thread, procs, Before, Setup, Takedown, ModeDown
<1>1. ASSUME NEW t \in Threads, NEW o \in {"init", "deinit", "send"}, Call(t, o)
      PROVE  <1>c!1
  BY <1>1 DEF Call
<1>2. ASSUME NEW t \in Threads, InitAlready(t) PROVE <1>c!1
  BY <1>2 DEF InitAlready, InitDone, Return
<1>3. ASSUME NEW t \in Threads, InitBegin(t) PROVE <1>c!1
  BY <1>3 DEF InitBegin
<1>4. ASSUME NEW t \in Threads, InitNoMemory(t) PROVE <1>c!1
  BY <1>4 DEF InitNoMemory, InitDone, Return
<1>5. ASSUME NEW t \in Threads, InitTrap(t) PROVE <1>c!1
  BY <1>5 DEF InitTrap
<1>6. ASSUME NEW t \in Threads, InitNetlink(t) PROVE <1>c!1
  BY <1>6 DEF InitNetlink
<1>7. ASSUME NEW t \in Threads, InitClient(t) PROVE <1>c!1
  BY <1>7 DEF InitClient
<1>8. ASSUME NEW t \in Threads, UndoNetlink(t) PROVE <1>c!1
  BY <1>8 DEF UndoNetlink
<1>9. ASSUME NEW t \in Threads, UndoTrap(t) PROVE <1>c!1
  BY <1>9 DEF UndoTrap
<1>10. ASSUME NEW t \in Threads, Teardown(t) PROVE <1>c!1
  BY <1>10 DEF Teardown, InitDone, Return
<1>11. ASSUME NEW t \in Threads, DeinitNothing(t) PROVE <1>c!1
  BY <1>11 DEF DeinitNothing, Return
<1>12. ASSUME NEW t \in Threads, DeinitBegin(t) PROVE <1>c!1
  BY <1>12 DEF DeinitBegin
<1>13. ASSUME NEW t \in Threads, ModeTrap(t) PROVE <1>c!1
  BY <1>13 DEF ModeTrap
<1>14. ASSUME NEW t \in Threads, ModeNetlink(t) PROVE <1>c!1
  BY <1>14 DEF ModeNetlink
<1>15. ASSUME NEW t \in Threads, ModeNetdevs(t) PROVE <1>c!1
  BY <1>15 DEF ModeNetdevs
<1>16. ASSUME NEW t \in Threads, ModeClient(t) PROVE <1>c!1
  BY <1>16 DEF ModeClient
<1>17. ASSUME NEW t \in Threads, Cancel(t) PROVE <1>c!1
  BY <1>17 DEF Cancel
<1>18. ASSUME NEW t \in Threads, Free(t) PROVE <1>c!1
  BY <1>18 DEF Free
<1>19. ASSUME NEW t \in Threads, RemoveProc(t) PROVE <1>c!1
  BY <1>19 DEF RemoveProc
<1>20. ASSUME NEW t \in Threads, FreePriv(t) PROVE <1>c!1
  BY <1>20 DEF FreePriv, Return
<1>21. ASSUME NEW t \in Threads, SendError(t) PROVE <1>c!1
  BY <1>21 DEF SendError, Return
<1>22. ASSUME NEW t \in Threads, SendBegin(t) PROVE <1>c!1
  BY <1>22 DEF SendBegin
<1>23. ASSUME NEW t \in Threads, SendEnd(t) PROVE <1>c!1
  BY <1>23 DEF SendEnd, Return
<1>24. ASSUME NEW t \in Threads, NEW n \in Privs, InitAlloc(t, n) PROVE <1>c!1
  BY <1>24 DEF InitAlloc
<1>25. ASSUME NEW t \in Threads, InitWork(t) PROVE <1>c!1
  <2>1. pc[t] = "wq" /\ net_priv[t] \in Privs
    BY <1>25, PartAt DEF InitWork
  <2>2. CASE ProcCreate /\ InitDone(t)
    <3>1. proc' \subseteq Names /\ proc_data' = g_net_priv /\ reader' = reader
      <4>1. PICK k \in 0 .. Len(ProcFiles) : proc' = {ProcFiles[i] : i \in 1 .. k}
        BY <2>2 DEF ProcCreate
      <4>2. \A i \in 1 .. k : i \in 1 .. Len(ProcFiles)
        BY Files
      <4> QED
        BY <2>2, <4>1, <4>2 DEF ProcCreate, Names
    <3>2. pc' \in [Threads -> Labels] /\ op' \in [Threads -> {"none", "init", "deinit", "send"}]
      BY <2>2 DEF InitDone, Return
    <3>3. /\ wqueue' \subseteq Privs
          /\ dwork' \in [Privs -> {"off", "queued", "running", "packet"}]
          /\ net_priv' \in [Threads -> Privs \cup {None}]
      BY <1>25, <2>1 DEF InitWork
    <3> QED
      BY <1>25, <3>1, <3>2, <3>3 DEF InitWork
  <2>3. CASE Goto(t, "mode_deinit") /\ UNCHANGED <<wqueue, dwork, net_priv, op, procs>>
    BY <1>25, <2>3 DEF InitWork
  <2> QED
    BY <1>25, <2>2, <2>3 DEF InitWork
<1>26. ASSUME NEW n \in Privs, WorkRun(n) PROVE <1>c!1
  BY <1>26 DEF WorkRun
<1>27. ASSUME NEW n \in Privs, WorkPacket(n) PROVE <1>c!1
  BY <1>27 DEF WorkPacket
<1>28. ASSUME NEW n \in Privs, WorkEnd(n) PROVE <1>c!1
  BY <1>28 DEF WorkEnd
<1>29. CASE NlBegin
  BY <1>29 DEF NlBegin
<1>30. CASE NlEnd
  BY <1>30 DEF NlEnd
<1>31. CASE ProcEnd
  BY <1>31 DEF ProcEnd
<1>32. ASSUME NEW i \in 1..Len(ProcFiles), ProcBegin(ProcFiles[i]) PROVE <1>c!1
  BY <1>32 DEF ProcBegin
<1>33. CASE UNCHANGED vars
  BY <1>33 DEF vars
<1> QED
  <2>1. ASSUME NEW t \in Threads, Thread(t) PROVE <1>c!1
    BY <2>1, <1>2, <1>3, <1>4, <1>5, <1>6, <1>7, <1>8, <1>9, <1>10, <1>11, <1>12, <1>13, <1>14, <1>15, <1>16, <1>17, <1>18, <1>19, <1>20, <1>21, <1>22, <1>23, <1>24, <1>25
    DEF Thread, InitStep, DeinitStep, SendStep
  <2>2. CASE Users
    BY <2>2, <1>26, <1>27, <1>28, <1>29, <1>30, <1>31, <1>32 DEF Users
  <2> QED
    BY <1>1, <1>33, <2>1, <2>2 DEF Next

----------------------------------------------------------------------------
(* How the only call may leave a state that satisfies the invariant.       *)

\* It goes on with the mode partly set up.
LEMMA ToSetup ==
  ASSUME TypeOK, OneCall, NEW t \in Threads, pc[t] # "idle", op[t] # "deinit", op' = op,
         NEW n \in Privs, net_priv'[t] = n,
         NEW l \in Setup \cup ModeDown, Goto(t, l), Holds(l, n, FALSE)'
  PROVE  LifeInv'
<1>1. pc' = [pc EXCEPT ![t] = l] /\ pc'[t] = l
  BY DEF Goto, TypeOK
<1>2. Holds(pc[t], net_priv[t], op[t] = "deinit")'
  BY <1>1 DEF Holds
<1>3. Part(t)'
  BY <1>1, <1>2 DEF Part
<1>4. l # "idle"
  BY DEF Setup, ModeDown
<1> QED
  BY <1>1, <1>3, <1>4, Alone

\* It goes on with the mode partly taken down.
LEMMA ToTakedown ==
  ASSUME TypeOK, OneCall, NEW t \in Threads, pc[t] # "idle", op[t] = "deinit", op' = op,
         NEW n \in Privs, net_priv'[t] = n,
         NEW l \in Takedown, Goto(t, l), Holds(l, n, TRUE)'
  PROVE  LifeInv'
<1>1. pc' = [pc EXCEPT ![t] = l] /\ pc'[t] = l
  BY DEF Goto, TypeOK
<1>2. Holds(pc[t], net_priv[t], op[t] = "deinit")'
  BY <1>1 DEF Holds
<1>3. Part(t)'
  BY <1>1, <1>2 DEF Part
<1>4. l # "idle"
  BY DEF Takedown, ModeDown
<1> QED
  BY <1>1, <1>3, <1>4, Alone

\* The mode is off, or on, and xp_packet_send goes on or the call is over.
LEMMA ToCalm ==
  ASSUME TypeOK, OneCall, NEW t \in Threads, pc[t] # "idle",
         \/ Off'
         \/ \E n \in Privs : Holds("on", n, TRUE)',
         InitDone(t) \/ Return(t)
  PROVE  LifeInv'
<1>1. CASE Return(t)
  BY <1>1, Alone DEF Return, Goto
<1>2. CASE op[t] = "send" /\ Goto(t, "send") /\ UNCHANGED op
  <2>1. pc' = [pc EXCEPT ![t] = "send"] /\ pc'[t] = "send" /\ op'[t] = "send"
    BY <1>2 DEF Goto, TypeOK
  <2>2. Idle(t)' \/ On(t)'
    BY <2>1 DEF Idle, On, Calm, Before
  <2> QED
    BY <2>1, <2>2, Alone
<1> QED
  BY <1>1, <1>2 DEF InitDone

\* Nothing that Off and Holds speak of changes.
LEMMA SameState ==
  ASSUME UNCHANGED <<mode, core, procs>>
  PROVE  /\ Off => Off'
         /\ \A l, n, was : Holds(l, n, was) => Holds(l, n, was)'
  BY DEF Off, Holds, mode, core, procs

----------------------------------------------------------------------------

\* The steps of xp_netdev_init keep the invariant, whichever fails.
LEMMA InitKeeps ==
  ASSUME Bindable, TypeOK, LifeInv, OneCall, NEW t \in Threads, InitStep(t)
  PROVE  LifeInv'
<1>1. CASE InitAlready(t)
  <2>1. Off \/ \E n \in Privs : Holds("on", n, TRUE)
    BY <1>1, CalmAt DEF InitAlready
  <2>2. Off' \/ \E n \in Privs : Holds("on", n, TRUE)'
    BY <1>1, <2>1, SameState DEF InitAlready
  <2> QED
    BY <1>1, <2>2, ToCalm DEF InitAlready
<1>2. CASE InitBegin(t)
  <2>1. Off
    BY <1>2, CalmAt, NoneAssumption DEF InitBegin, Holds
  <2>2. Off'
    BY <1>2, <2>1, SameState DEF InitBegin
  <2>3. pc' = [pc EXCEPT ![t] = "alloc"] /\ pc'[t] = "alloc" /\ pc[t] # "idle"
    BY <1>2 DEF InitBegin, Goto, TypeOK
  <2>4. Idle(t)'
    BY <1>2, <2>2, <2>3, CalmAt DEF InitBegin, Idle, Calm
  <2> QED
    BY <2>3, <2>4, Alone
<1>3. CASE InitNoMemory(t)
  <2>1. Off
    BY <1>3, CalmAt DEF InitNoMemory
  <2>2. Off'
    BY <1>3, <2>1, SameState DEF InitNoMemory
  <2> QED
    BY <1>3, <2>2, ToCalm DEF InitNoMemory
<1>4. ASSUME NEW n \in Privs, InitAlloc(t, n) PROVE LifeInv'
  <2>1. Off
    BY <1>4, CalmAt DEF InitAlloc
  <2>2. Holds("trap", n, FALSE)'
    BY <1>4, <2>1 DEF InitAlloc, Off, Holds, ModeDown, mode, procs
  <2>3. op[t] # "deinit"
    BY <1>4, CalmAt DEF InitAlloc
  <2>4. net_priv'[t] = n
    BY <1>4 DEF InitAlloc, TypeOK
  <2> QED
    BY <1>4, <2>2, <2>3, <2>4, ToSetup DEF InitAlloc, Setup
<1>5. CASE InitTrap(t)
  <2>1. PICK n \in Privs : net_priv[t] = n /\ Holds("trap", n, FALSE) /\ op[t] # "deinit"
    BY <1>5, SetupAt DEF InitTrap, Setup
  <2>2. op' = op /\ net_priv' = net_priv /\ pc[t] # "idle"
    BY <1>5 DEF InitTrap
  <2>3. CASE trap_table' = TRUE /\ Goto(t, "netlink")
    <3>1. Holds("netlink", n, FALSE)'
      BY <1>5, <2>1, <2>3 DEF InitTrap, Holds, ModeDown, core, procs
    <3> QED
      BY <2>1, <2>2, <2>3, <3>1, ToSetup DEF Setup
  <2>4. CASE Goto(t, "teardown") /\ UNCHANGED trap_table
    <3>1. Holds("teardown", n, FALSE)'
      BY <1>5, <2>1, <2>4 DEF InitTrap, Holds, ModeDown, core, procs
    <3> QED
      BY <2>1, <2>2, <2>4, <3>1, ToSetup DEF Setup
  <2> QED
    BY <1>5, <2>3, <2>4 DEF InitTrap
<1>6. CASE InitNetlink(t)
  <2>1. PICK n \in Privs : net_priv[t] = n /\ Holds("netlink", n, FALSE) /\ op[t] # "deinit"
    BY <1>6, SetupAt DEF InitNetlink, Setup
  <2>2. op' = op /\ net_priv' = net_priv /\ pc[t] # "idle"
    BY <1>6 DEF InitNetlink
  <2>3. CASE netlink' = TRUE /\ Goto(t, "client")
    <3>1. Holds("client", n, FALSE)'
      BY <1>6, <2>1, <2>3 DEF InitNetlink, Holds, ModeDown, core, procs
    <3> QED
      BY <2>1, <2>2, <2>3, <3>1, ToSetup DEF Setup
  <2>4. CASE Goto(t, "undo_trap") /\ UNCHANGED netlink
    <3>1. Holds("undo_trap", n, FALSE)'
      BY <1>6, <2>1, <2>4 DEF InitNetlink, Holds, ModeDown, core, procs
    <3> QED
      BY <2>1, <2>2, <2>4, <3>1, ToSetup DEF Setup
  <2> QED
    BY <1>6, <2>3, <2>4 DEF InitNetlink
<1>7. CASE InitClient(t)
  <2>1. PICK n \in Privs : net_priv[t] = n /\ Holds("client", n, FALSE) /\ op[t] # "deinit"
    BY <1>7, SetupAt DEF InitClient, Setup
  <2>2. op' = op /\ net_priv' = net_priv /\ pc[t] # "idle"
    BY <1>7 DEF InitClient
  <2>3. CASE client' = TRUE /\ Goto(t, "wq")
    <3>1. Holds("wq", n, FALSE)'
      BY <1>7, <2>1, <2>3 DEF InitClient, Holds, ModeDown, core, procs
    <3> QED
      BY <2>1, <2>2, <2>3, <3>1, ToSetup DEF Setup
  <2>4. CASE /\ client \/ "client" \in MayFail
             /\ Goto(t, "undo_netlink") /\ UNCHANGED client
    <3>1. "client" \in MayFail
      BY <2>1, <2>4 DEF Holds, ModeDown
    <3>2. ~netdevs
      BY <2>1, <3>1 DEF Bindable, Holds
    <3>3. Holds("undo_netlink", n, FALSE)'
      BY <1>7, <2>1, <2>4, <3>1, <3>2 DEF InitClient, Holds, ModeDown, core, procs
    <3> QED
      BY <2>1, <2>2, <2>4, <3>3, ToSetup DEF Setup
  <2> QED
    BY <1>7, <2>3, <2>4 DEF InitClient
<1>8. CASE InitWork(t)
  <2>1. PICK n \in Privs : net_priv[t] = n /\ Holds("wq", n, FALSE) /\ op[t] # "deinit"
    BY <1>8, SetupAt DEF InitWork, Setup
  <2>2. pc[t] # "idle" /\ UNCHANGED <<mode, xpnet, g_net_priv, alive, rings>>
    BY <1>8 DEF InitWork
  <2>3. CASE /\ wqueue' = wqueue \cup {net_priv[t]}
             /\ dwork' = [dwork EXCEPT ![net_priv[t]] = "queued"]
             /\ InitDone(t)
             /\ ProcCreate
    <3>1. proc_data' = n
      BY <2>1, <2>3 DEF ProcCreate, Holds
    <3>2. \A m \in Privs : dwork'[m] # "off" => m = n
      BY <2>1, <2>3 DEF TypeOK, Holds
    <3>3. Holds("on", n, TRUE)'
      BY <2>1, <2>2, <2>3, <3>1, <3>2 DEF Holds, ModeDown, mode
    <3> QED
      BY <2>2, <2>3, <3>3, ToCalm
  <2>4. CASE Goto(t, "mode_deinit") /\ UNCHANGED <<wqueue, dwork, net_priv, op, procs>>
    <3>1. Holds("mode_deinit", n, FALSE)'
      BY <2>1, <2>2, <2>4 DEF Holds, ModeDown, mode, procs
    <3> QED
      BY <2>1, <2>2, <2>4, <3>1, ToSetup DEF ModeDown
  <2> QED
    BY <1>8, <2>3, <2>4 DEF InitWork
<1>9. CASE UndoNetlink(t)
  <2>1. PICK n \in Privs : net_priv[t] = n /\ Holds("undo_netlink", n, FALSE) /\ op[t] # "deinit"
    BY <1>9, SetupAt DEF UndoNetlink, Setup
  <2>2. Holds("undo_trap", n, FALSE)'
    BY <1>9, <2>1 DEF UndoNetlink, Holds, ModeDown, core, procs
  <2> QED
    BY <1>9, <2>1, <2>2, ToSetup DEF UndoNetlink, Setup
<1>10. CASE UndoTrap(t)
  <2>1. PICK n \in Privs : net_priv[t] = n /\ Holds("undo_trap", n, FALSE) /\ op[t] # "deinit"
    BY <1>10, SetupAt DEF UndoTrap, Setup
  <2>2. Holds("teardown", n, FALSE)'
    BY <1>10, <2>1 DEF UndoTrap, Holds, ModeDown, core, procs
  <2> QED
    BY <1>10, <2>1, <2>2, ToSetup DEF UndoTrap, Setup
<1>11. CASE Teardown(t)
  <2>1. PICK n \in Privs : net_priv[t] = n /\ Holds("teardown", n, FALSE) /\ op[t] # "deinit"
    BY <1>11, SetupAt DEF Teardown, Setup
  <2>2. Off'
    BY <1>11, <2>1 DEF Teardown, Holds, Off, ModeDown, mode, procs
  <2> QED
    BY <1>11, <2>2, ToCalm DEF Teardown
<1> QED
  BY <1>1, <1>2, <1>3, <1>4, <1>5, <1>6, <1>7, <1>8, <1>9, <1>10, <1>11 DEF InitStep

\* Steps of xp_netdev_mode_deinit, for a deinit and for an init that fails.
LEMMA ModeStep ==
  ASSUME TypeOK, LifeInv, OneCall, NEW t \in Threads, pc[t] \in ModeDown,
         op' = op, net_priv' = net_priv, NEW l \in ModeDown, Goto(t, l),
         \A n \in Privs, was \in BOOLEAN : Holds(pc[t], n, was) => Holds(l, n, was)'
  PROVE  LifeInv'
<1>1. PICK n \in Privs : net_priv[t] = n /\ Holds(pc[t], n, op[t] = "deinit")
  BY PartAt DEF Takedown
<1>2. pc[t] # "idle"
  BY DEF ModeDown
<1>3. CASE op[t] = "deinit"
  <2>1. Holds(pc[t], n, TRUE)
    BY <1>1, <1>3 DEF Holds
  <2>2. Holds(l, n, TRUE)'
    BY <2>1
  <2> QED
    BY <1>1, <1>2, <1>3, <2>2, ToTakedown DEF Takedown
<1>4. CASE op[t] # "deinit"
  <2>1. Holds(pc[t], n, FALSE)
    BY <1>1, <1>4 DEF Holds
  <2>2. Holds(l, n, FALSE)'
    BY <2>1
  <2> QED
    BY <1>1, <1>2, <1>4, <2>2, ToSetup
<1> QED
  BY <1>3, <1>4

\* The steps of xp_netdev_deinit keep the invariant.
LEMMA DeinitKeeps ==
  ASSUME TypeOK, LifeInv, OneCall, NEW t \in Threads, DeinitStep(t)
  PROVE  LifeInv'
<1>1. CASE DeinitNothing(t)
  <2>1. Off \/ \E n \in Privs : Holds("on", n, TRUE)
    BY <1>1, CalmAt DEF DeinitNothing
  <2>2. Off' \/ \E n \in Privs : Holds("on", n, TRUE)'
    BY <1>1, <2>1, SameState DEF DeinitNothing
  <2> QED
    BY <1>1, <2>2, ToCalm DEF DeinitNothing
<1>2. CASE DeinitBegin(t)
  <2>1. PICK n \in Privs : Holds("on", n, TRUE)
    BY <1>2, CalmAt DEF DeinitBegin, Off
  <2>2. Holds("mode_deinit", n, TRUE)'
    BY <1>2, <2>1 DEF DeinitBegin, Holds, ModeDown, mode, core, procs
  <2>3. net_priv'[t] = n /\ op[t] = "deinit"
    BY <1>2, <2>1, CalmAt DEF DeinitBegin, Holds, TypeOK
  <2> QED
    BY <1>2, <2>2, <2>3, ToTakedown DEF DeinitBegin, Takedown, ModeDown
<1>3. CASE ModeTrap(t)
  <2>1. ASSUME NEW n \in Privs, NEW was \in BOOLEAN, Holds("mode_deinit", n, was)
        PROVE  Holds("mode_netlink", n, was)'
    BY <1>3, <2>1 DEF ModeTrap, Holds, ModeDown, core, procs
  <2> QED
    BY <1>3, <2>1, ModeStep DEF ModeTrap, ModeDown
<1>4. CASE ModeNetlink(t)
  <2>1. ASSUME NEW n \in Privs, NEW was \in BOOLEAN, Holds("mode_netlink", n, was)
        PROVE  Holds("mode_netdevs", n, was)'
    BY <1>4, <2>1 DEF ModeNetlink, Holds, ModeDown, core, procs
  <2> QED
    BY <1>4, <2>1, ModeStep DEF ModeNetlink, ModeDown
<1>5. CASE ModeNetdevs(t)
  <2>1. ASSUME NEW n \in Privs, NEW was \in BOOLEAN, Holds("mode_netdevs", n, was)
        PROVE  Holds("mode_client", n, was)'
    BY <1>5, <2>1 DEF ModeNetdevs, Holds, ModeDown, core, procs
  <2> QED
    BY <1>5, <2>1, ModeStep DEF ModeNetdevs, ModeDown
<1>6. CASE ModeClient(t)
  <2>1. PICK n \in Privs : net_priv[t] = n /\ Holds("mode_client", n, op[t] = "deinit")
    BY <1>6, PartAt DEF ModeClient, Takedown, ModeDown
  <2>2. pc[t] # "idle" /\ op' = op /\ net_priv' = net_priv
    BY <1>6 DEF ModeClient
  <2>3. CASE op[t] = "deinit"
    <3>1. Holds("cancel", n, TRUE)'
      BY <1>6, <2>1, <2>3 DEF ModeClient, Holds, ModeDown, core, procs
    <3>2. Goto(t, "cancel")
      BY <1>6, <2>3 DEF ModeClient
    <3> QED
      BY <2>1, <2>2, <2>3, <3>1, <3>2, ToTakedown DEF Takedown
  <2>4. CASE op[t] # "deinit"
    <3>1. Holds("teardown", n, FALSE)'
      BY <1>6, <2>1, <2>4 DEF ModeClient, Holds, ModeDown, core, procs
    <3>2. Goto(t, "teardown")
      BY <1>6, <2>4 DEF ModeClient
    <3> QED
      BY <2>1, <2>2, <2>4, <3>1, <3>2, ToSetup DEF Setup
  <2> QED
    BY <2>3, <2>4
<1>7. CASE Cancel(t)
  <2>1. PICK n \in Privs : net_priv[t] = n /\ Holds("cancel", n, TRUE) /\ op[t] = "deinit"
    BY <1>7, DownAt DEF Cancel
  <2>2. \A m \in Privs : dwork'[m] = "off"
    BY <1>7, <2>1 DEF Cancel, Holds, TypeOK
  <2>3. Holds("free", n, TRUE)'
    BY <1>7, <2>1, <2>2 DEF Cancel, Holds, ModeDown, mode, procs
  <2> QED
    BY <1>7, <2>1, <2>3, ToTakedown DEF Cancel, Takedown
<1>8. CASE Free(t)
  <2>1. PICK n \in Privs : net_priv[t] = n /\ Holds("free", n, TRUE) /\ op[t] = "deinit"
    BY <1>8, DownAt DEF Free
  <2>2. Holds("unproc", n, TRUE)'
    BY <1>8, <2>1 DEF Free, Holds, ModeDown, mode, procs
  <2> QED
    BY <1>8, <2>1, <2>2, ToTakedown DEF Free, Takedown
<1>9. CASE RemoveProc(t)
  <2>1. PICK n \in Privs : net_priv[t] = n /\ Holds("unproc", n, TRUE) /\ op[t] = "deinit"
    BY <1>9, DownAt DEF RemoveProc
  <2>2. Holds("unproc", n, TRUE)'
    BY <1>9, <2>1 DEF RemoveProc, Holds, ModeDown, mode, core, procs
  <2>3. Goto(t, "unproc") /\ op' = op /\ net_priv' = net_priv /\ pc[t] = "unproc"
    BY <1>9 DEF RemoveProc, Goto, thread, TypeOK
  <2> QED
    BY <2>1, <2>2, <2>3, ToTakedown DEF Takedown
<1>10. CASE FreePriv(t)
  <2>1. PICK n \in Privs : net_priv[t] = n /\ Holds("unproc", n, TRUE) /\ op[t] = "deinit"
    BY <1>10, DownAt DEF FreePriv
  <2>2. Off'
    BY <1>10, <2>1 DEF FreePriv, ReadersLeft, Holds, Off, ModeDown, mode, procs
  <2> QED
    BY <1>10, <2>2, ToCalm DEF FreePriv
<1> QED
  BY <1>1, <1>2, <1>3, <1>4, <1>5, <1>6, <1>7, <1>8, <1>9, <1>10 DEF DeinitStep

\* So do the steps of xp_packet_send, and the beginning of a call.
LEMMA SendKeeps ==
  ASSUME TypeOK, LifeInv, OneCall, NEW t \in Threads, SendStep(t)
  PROVE  LifeInv'
<1>1. CASE SendError(t)
  <2>1. Off \/ \E n \in Privs : Holds("on", n, TRUE)
    BY <1>1, CalmAt DEF SendError
  <2>2. Off' \/ \E n \in Privs : Holds("on", n, TRUE)'
    BY <1>1, <2>1, SameState DEF SendError
  <2> QED
    BY <1>1, <2>2, ToCalm DEF SendError
<1>2. CASE SendBegin(t)
  <2>1. PICK n \in Privs : Holds("on", n, TRUE)
    BY <1>2, CalmAt DEF SendBegin, Off
  <2>2. Holds("on", n, TRUE)'
    BY <1>2, <2>1, SameState DEF SendBegin
  <2>3. pc' = [pc EXCEPT ![t] = "xmit"] /\ pc'[t] = "xmit" /\ pc[t] # "idle"
        /\ net_priv'[t] = n /\ op'[t] # "deinit"
    BY <1>2, <2>1, CalmAt DEF SendBegin, Goto, TypeOK, Holds
  <2>4. On(t)'
    BY <2>2, <2>3 DEF On, Calm
  <2> QED
    BY <2>3, <2>4, Alone
<1>3. CASE SendEnd(t)
  <2>1. PICK n \in Privs : Holds("on", n, TRUE)
    BY <1>3, CalmAt DEF SendEnd
  <2>2. Holds("on", n, TRUE)'
    BY <1>3, <2>1, SameState DEF SendEnd
  <2> QED
    BY <1>3, <2>2, ToCalm DEF SendEnd
<1> QED
  BY <1>1, <1>2, <1>3 DEF SendStep

LEMMA CallKeeps ==
  ASSUME TypeOK, LifeInv, OneCall', NEW t \in Threads, NEW o \in {"init", "deinit", "send"},
         Call(t, o)
  PROVE  LifeInv'
<1>1. /\ pc'[t] = IF o = "deinit" THEN "deinit" ELSE "init"
      /\ op'[t] = o
      /\ \A s \in Threads : s # t => pc'[s] = pc[s]
      /\ pc[t] = "idle"
  BY DEF Call, Goto, TypeOK
<1>2. \A s \in Threads : s # t => pc'[s] = "idle"
  BY <1>1 DEF OneCall
<1>3. NoCall
  BY <1>1, <1>2 DEF NoCall
<1>4. Off' \/ \E n \in Privs : Holds("on", n, TRUE)'
  BY <1>3, SameState DEF LifeInv, Call
<1>5. Idle(t)' \/ On(t)'
  BY <1>1, <1>4 DEF Idle, On, Calm, Before
<1>6. ~NoCall'
  BY <1>1 DEF NoCall
<1> QED
  BY <1>1, <1>2, <1>5, <1>6 DEF LifeInv

\* Users of a mode change nothing that a call has set up.
LEMMA UsersKeepPart ==
  ASSUME LifeInv,
         UNCHANGED <<xpnet, g_net_priv, alive, rings, wqueue, trap_table, netlink, client,
                     netdevs, thread, proc, proc_data>>,
         \A m \in Privs : dwork'[m] # "off" => dwork[m] # "off",
         reader' # "none" => reader # "none" \/ proc # {}
  PROVE  LifeInv'
<1>1. Off => Off'
  BY DEF Off
<1>2. \A l, n, was : Holds(l, n, was) => Holds(l, n, was)'
  BY DEF Holds
<1>3. pc' = pc /\ op' = op /\ net_priv' = net_priv
  BY DEF thread
<1>4. ASSUME NEW t \in Threads PROVE Idle(t) => Idle(t)'
  BY <1>1, <1>3 DEF Idle, Calm
<1>5. ASSUME NEW t \in Threads PROVE On(t) => On(t)'
  BY <1>2, <1>3 DEF On, Calm
<1>6. ASSUME NEW t \in Threads PROVE Part(t) => Part(t)'
  BY <1>2, <1>3 DEF Part
<1>7. NoCall' => NoCall
  BY <1>3 DEF NoCall
<1> QED
  BY <1>1, <1>2, <1>3, <1>4, <1>5, <1>6, <1>7 DEF LifeInv

\* A step that leaves the only call where it is.
LEMMA OnlyCall ==
  ASSUME OneCall, NEW t \in Threads, pc[t] # "idle", pc' = pc, Idle(t)' \/ On(t)' \/ Part(t)'
  PROVE  LifeInv'
  BY DEF OneCall, LifeInv, NoCall

LEMMA UsersKeep ==
  ASSUME Bindable, OneCall, TypeOK, LifeInv, UserInv, Users
  PROVE  LifeInv'
<1>1. ASSUME NEW n \in Privs, WorkRun(n) PROVE LifeInv'
  <2>1. \A m \in Privs : dwork'[m] # "off" => dwork[m] # "off"
    BY <1>1 DEF WorkRun, TypeOK
  <2> QED
    BY <1>1, <2>1, UsersKeepPart DEF WorkRun, mode, procs
<1>2. ASSUME NEW n \in Privs, WorkPacket(n) PROVE LifeInv'
  <2>1. \A m \in Privs : dwork'[m] # "off" => dwork[m] # "off"
    BY <1>2 DEF WorkPacket, TypeOK
  <2> QED
    BY <1>2, <2>1, UsersKeepPart DEF WorkPacket, mode, procs
<1>3. ASSUME NEW n \in Privs, WorkEnd(n) PROVE LifeInv'
  <2>1. \A m \in Privs : dwork'[m] # "off" => dwork[m] # "off"
    BY <1>3 DEF WorkEnd, TypeOK
  <2> QED
    BY <1>3, <2>1, UsersKeepPart DEF WorkEnd, mode, procs
<1>4. CASE NlBegin
  BY <1>4, UsersKeepPart DEF NlBegin, mode, core, procs
<1>5. CASE NlEnd
  <2>1. netlink /\ (Quiet => NoCall)
    BY <1>5 DEF NlEnd, UserInv, QuietInv, RequestInv, Still
  <2>2. pc' = pc /\ op' = op /\ net_priv' = net_priv
    BY <1>5 DEF NlEnd, thread
  <2>3. ASSUME NEW n \in Privs, Holds("on", n, TRUE) PROVE Holds("on", n, TRUE)'
    BY <1>5, <2>3 DEF NlEnd, Holds, core, procs
  <2>4. CASE NoCall
    <3>1. PICK n \in Privs : Holds("on", n, TRUE)
      BY <2>1, <2>4 DEF LifeInv, Off
    <3> QED
      BY <2>2, <2>3, <2>4, <3>1 DEF LifeInv, NoCall
  <2>5. ASSUME NEW t \in Threads, pc[t] # "idle", ~Quiet PROVE LifeInv'
    <3>1. CASE Idle(t)
      BY <2>1, <3>1 DEF Idle, Off
    <3>2. CASE On(t)
      <4>1. PICK n \in Privs : /\ Holds("on", n, TRUE)
                               /\ pc[t] \in Before \/ (pc[t] = "xmit" /\ net_priv[t] = n)
        BY <3>2 DEF On
      <4>2. Holds("on", n, TRUE)'
        BY <2>3, <4>1
      <4>3. On(t)'
        BY <2>2, <3>2, <4>1, <4>2 DEF On, Calm
      <4> QED
        BY <2>2, <2>5, <4>3, OnlyCall
    <3>3. CASE Part(t)
      <4>1. PICK n \in Privs : net_priv[t] = n /\ Holds(pc[t], n, op[t] = "deinit")
        BY <3>3 DEF Part
      <4>2. pc[t] \in {"client", "wq", "mode_deinit", "mode_netlink"}
        <5>1. pc[t] \in {"on", "client", "wq", "undo_netlink", "mode_deinit", "mode_netlink"}
          BY <2>1, <4>1 DEF Holds
        <5>2. pc[t] # "on"
          BY <3>3 DEF Part, Setup, Takedown, ModeDown
        <5>3. pc[t] # "undo_netlink"
          BY <2>5, <4>1 DEF Holds, Bindable
        <5> QED
          BY <5>1, <5>2, <5>3
      <4>3. Holds(pc[t], n, op[t] = "deinit")'
        BY <1>5, <2>2, <2>5, <4>1, <4>2 DEF NlEnd, Holds, core, procs
      <4>4. Part(t)'
        BY <2>2, <3>3, <4>1, <4>3 DEF Part
      <4> QED
        BY <2>2, <2>5, <4>4, OnlyCall
    <3> QED
      BY <2>5, <3>1, <3>2, <3>3 DEF LifeInv
  <2> QED
    BY <2>1, <2>4, <2>5 DEF NoCall
<1>6. ASSUME NEW i \in 1..Len(ProcFiles), ProcBegin(ProcFiles[i]) PROVE LifeInv'
  BY <1>6, UsersKeepPart DEF ProcBegin, mode, core
<1>7. CASE ProcEnd
  BY <1>7, UsersKeepPart DEF ProcEnd, mode, core
<1> QED
  BY <1>1, <1>2, <1>3, <1>4, <1>5, <1>6, <1>7 DEF Users

\* A step of a call while user space is quiet finds it quiet.
LEMMA StillKept ==
  ASSUME Still, nlbusy' = nlbusy, reader' = reader,
         \A n \in Privs : dwork'[n] = "packet" => dwork[n] = "packet"
  PROVE  Still'
  BY UsesOf DEF Still

\* User space that is quiet during calls stays so.
LEMMA QuietStep ==
  ASSUME TypeOK, QuietInv, [Next]_vars
  PROVE  QuietInv'
<1> SUFFICES ASSUME Quiet PROVE QuietInv'
  BY DEF QuietInv
<1>a. dwork \in [Privs -> {"off", "queued", "running", "packet"}]
  BY DEF TypeOK
<1>1. ASSUME NEW t \in Threads, Thread(t) PROVE QuietInv'
  <2>1. Still
    <3>1. pc[t] # "idle"
      BY <1>1 DEF Thread, InitStep, DeinitStep, SendStep, InitAlready, InitBegin, InitNoMemory,
           InitAlloc, InitTrap, InitNetlink, InitClient, InitWork, UndoNetlink, UndoTrap, Teardown,
           DeinitNothing, DeinitBegin, ModeTrap, ModeNetlink, ModeNetdevs, ModeClient,
           Cancel, Free, RemoveProc, FreePriv, SendError, SendBegin, SendEnd
    <3> QED
      BY <3>1 DEF QuietInv, NoCall
  <2>2. CASE InitStep(t)
    <3>1. nlbusy' = nlbusy /\ reader' = reader
      BY <2>2 DEF InitStep, InitAlready, InitBegin, InitNoMemory, InitAlloc, InitTrap,
           InitNetlink, InitClient, InitWork, ProcCreate, UndoNetlink, UndoTrap, Teardown, procs
    <3>2. \A n \in Privs : dwork'[n] = "packet" => dwork[n] = "packet"
      BY <1>a, <2>2 DEF InitStep, InitAlready, InitBegin, InitNoMemory, InitAlloc, InitTrap,
           InitNetlink, InitClient, InitWork, UndoNetlink, UndoTrap, Teardown, core
    <3> QED
      BY <2>1, <3>1, <3>2, StillKept DEF QuietInv
  <2>3. CASE DeinitStep(t)
    <3>1. nlbusy' = nlbusy /\ reader' = reader
      BY <2>3 DEF DeinitStep, DeinitNothing, DeinitBegin, ModeTrap, ModeNetlink, ModeNetdevs,
           ModeClient, Cancel, Free, RemoveProc, FreePriv, procs
    <3>2. \A n \in Privs : dwork'[n] = "packet" => dwork[n] = "packet"
      BY <1>a, <2>3 DEF DeinitStep, DeinitNothing, DeinitBegin, ModeTrap, ModeNetlink, ModeNetdevs,
           ModeClient, Cancel, Free, RemoveProc, FreePriv, core
    <3> QED
      BY <2>1, <3>1, <3>2, StillKept DEF QuietInv
  <2>4. CASE SendStep(t)
    BY <2>1, <2>4, StillKept DEF QuietInv, SendStep, SendError, SendBegin, SendEnd, procs, core
  <2> QED
    BY <1>1, <2>2, <2>3, <2>4 DEF Thread
<1>2. ASSUME NEW t \in Threads, NEW o, Call(t, o) PROVE QuietInv'
  BY <1>2, StillKept DEF QuietInv, Call, procs, core
<1>3. ASSUME NEW n \in Privs, WorkRun(n) PROVE QuietInv'
  BY <1>3, <1>a DEF WorkRun, QuietInv, NoCall, Still, mode, thread, procs
<1>4. ASSUME NEW n \in Privs, WorkPacket(n) PROVE QuietInv'
  <2>1. NoCall /\ nlbusy' = nlbusy /\ UNCHANGED <<xpnet, reader, trap_table, pc>>
    BY <1>4 DEF WorkPacket, UsersRun, mode, thread, procs
  <2> QED
    BY <2>1 DEF QuietInv, NoCall
<1>5. ASSUME NEW n \in Privs, WorkEnd(n) PROVE QuietInv'
  BY <1>5, <1>a DEF WorkEnd, QuietInv, NoCall, Still, mode, thread, procs
<1>6. CASE NlBegin
  <2>1. NoCall /\ pc' = pc
    BY <1>6 DEF NlBegin, UsersRun, thread
  <2> QED
    BY <2>1 DEF QuietInv, NoCall
<1>7. CASE NlEnd
  BY <1>7 DEF NlEnd, QuietInv, NoCall, Still, core, thread, procs
<1>8. ASSUME NEW i \in 1..Len(ProcFiles), ProcBegin(ProcFiles[i]) PROVE QuietInv'
  <2>1. /\ reader' = ProcFiles[i] /\ (reader' = "trap" => trap_table)
        /\ (reader' \in Unguarded => NoCall)
        /\ UNCHANGED <<xpnet, trap_table, pc, nlbusy, dwork>>
    BY <1>8 DEF ProcBegin, UsersRun, mode, core, thread
  <2> QED
    BY <2>1 DEF QuietInv, NoCall, Still
<1>9. CASE ProcEnd
  BY <1>9, UsesOf DEF ProcEnd, QuietInv, NoCall, Still, mode, core, thread
<1>10. CASE UNCHANGED vars
  BY <1>10 DEF vars, QuietInv, NoCall, Still, mode, core, thread, procs
<1> QED
  BY <1>1, <1>2, <1>3, <1>4, <1>5, <1>6, <1>7, <1>8, <1>9, <1>10 DEF Next, Users

\* No step releases the sockets under a request.
LEMMA RequestStep ==
  ASSUME RequestInv, [Next]_vars
  PROVE  RequestInv'
<1>1. ASSUME NEW t \in Threads, InitStep(t) PROVE RequestInv'
  BY <1>1 DEF InitStep, InitAlready, InitBegin, InitNoMemory, InitAlloc, InitTrap, InitNetlink,
     InitClient, InitWork, UndoNetlink, UndoTrap, Teardown, RequestInv, mode
<1>2. ASSUME NEW t \in Threads, DeinitStep(t) PROVE RequestInv'
  BY <1>2 DEF DeinitStep, DeinitNothing, DeinitBegin, ModeTrap, ModeNetlink, ModeNetdevs,
     ModeClient, Cancel, Free, RemoveProc, FreePriv, RequestInv, mode
<1>3. ASSUME NEW t \in Threads, SendStep(t) PROVE RequestInv'
  BY <1>3 DEF SendStep, SendError, SendBegin, SendEnd, RequestInv, mode
<1>4. ASSUME NEW t \in Threads, NEW o, Call(t, o) PROVE RequestInv'
  BY <1>4 DEF Call, RequestInv, mode
<1>5. CASE Users
  BY <1>5 DEF Users, WorkRun, WorkPacket, WorkEnd, NlBegin, NlEnd, ProcBegin, ProcEnd,
     RequestInv, mode
<1>6. CASE UNCHANGED vars
  BY <1>6 DEF vars, RequestInv, mode
<1> QED
  BY <1>1, <1>2, <1>3, <1>4, <1>5, <1>6 DEF Next, Thread

LEMMA UserStep ==
  ASSUME TypeOK, UserInv, [Next]_vars
  PROVE  UserInv'
  BY QuietStep, RequestStep DEF UserInv

LEMMA LifeStep ==
  ASSUME Bindable, TypeOK, LifeInv, UserInv, OneCall, OneCall', [Next]_vars
  PROVE  LifeInv'
<1>1. CASE UNCHANGED vars
  BY <1>1, UsersKeepPart DEF vars, mode, core, procs
<1>2. ASSUME NEW t \in Threads, Thread(t) PROVE LifeInv'
  BY <1>2, InitKeeps, DeinitKeeps, SendKeeps DEF Thread
<1> QED
  BY <1>1, <1>2, CallKeeps, UsersKeep DEF Next

\* The invariant holds before the first call.
LEMMA InvariantAtInit ==
  ASSUME Init PROVE TypeOK /\ LifeInv /\ UserInv
<1>1. Off /\ NoCall /\ Still
  BY UsesOf DEF Init, Off, NoCall, Still
<1>2. TypeOK
  BY Zenon DEF Init, TypeOK, Labels, Before
<1>3. LifeInv
  BY <1>1 DEF LifeInv, NoCall
<1>4. UserInv
  BY <1>1 DEF UserInv, QuietInv, RequestInv, Init
<1> QED
  BY <1>2, <1>3, <1>4

\* If calls do not overlap the invariant holds, with requests, packets and readers
\* at any time if the client socket can be bound: at every point of a call, on
\* its failure paths too, exactly what Holds says is held.
THEOREM Invariance == Bindable => (Spec /\ []OneCall => [](TypeOK /\ LifeInv /\ UserInv))
<1> SUFFICES ASSUME Bindable PROVE Spec /\ []OneCall => [](TypeOK /\ LifeInv /\ UserInv)
  OBVIOUS
<1>1. Init => TypeOK /\ LifeInv /\ UserInv
  BY InvariantAtInit
<1>2. TypeOK /\ LifeInv /\ UserInv /\ OneCall /\ OneCall' /\ [Next]_vars
        => (TypeOK /\ LifeInv /\ UserInv)'
  BY TypeStep, LifeStep, UserStep
<1> QED
  BY <1>1, <1>2, PTL DEF Spec

\* In a state of the invariant in which no call is in progress and the mode is
\* off, nothing is held.
LEMMA InvariantReleases ==
  ASSUME LifeInv PROVE Released
<1> SUFFICES ASSUME NoCall, xpnet = None PROVE Off
  BY DEF Released, Off
<1> QED
  BY NoneAssumption DEF LifeInv, Holds

\* When no call is in progress and the mode is off, everything that was set up
\* has been released, whichever steps of xp_netdev_init failed.
THEOREM EverythingReleased == Bindable => (Spec /\ []OneCall => []Released)
<1> SUFFICES ASSUME Bindable PROVE Spec /\ []OneCall => []Released
  OBVIOUS
<1>1. LifeInv => Released
  BY InvariantReleases
<1> QED
  BY <1>1, Invariance, PTL

\* In a state of the invariant every user has its structure, rings and queue.
LEMMA InvariantProtects ==
  ASSUME TypeOK, LifeInv, OneCall PROVE UsersProtected
<1>1. ASSUME Off, \A s \in Threads : pc[s] # "xmit" PROVE UsersProtected
  BY <1>1, UsesOf DEF Off, UsersProtected, PrivOutlivesUsers, WorkHasRings
<1>2. ASSUME NEW n \in Privs, NEW l, NEW was, Holds(l, n, was), l # "unproc",
             \A s \in Threads : pc[s] = "xmit" => net_priv[s] = n
      PROVE  UsersProtected
  BY <1>2, UsesOf DEF Holds, UsersProtected, PrivOutlivesUsers, WorkHasRings
<1>3. ASSUME NEW n \in Privs, Holds("unproc", n, TRUE), \A s \in Threads : pc[s] # "xmit"
      PROVE  UsersProtected
  BY <1>3, UsesOf DEF Holds, UsersProtected, PrivOutlivesUsers, WorkHasRings
<1>4. CASE NoCall
  BY <1>1, <1>2, <1>4 DEF LifeInv, NoCall
<1>5. ASSUME NEW t \in Threads, pc[t] # "idle" PROVE UsersProtected
  <2>1. CASE Idle(t)
    <3>1. pc[t] # "xmit"
      BY <2>1 DEF Idle, Before
    <3>2. \A s \in Threads : pc[s] # "xmit"
      BY <1>5, <3>1 DEF OneCall
    <3> QED
      BY <1>1, <2>1, <3>2 DEF Idle
  <2>2. CASE On(t)
    <3>1. PICK n \in Privs : /\ Holds("on", n, TRUE)
                             /\ pc[t] \in Before \/ (pc[t] = "xmit" /\ net_priv[t] = n)
      BY <2>2 DEF On
    <3>2. \A s \in Threads : pc[s] = "xmit" => net_priv[s] = n
      BY <1>5, <3>1 DEF OneCall, Before
    <3> QED
      BY <1>2, <3>1, <3>2
  <2>3. CASE Part(t)
    <3>1. PICK n \in Privs : Holds(pc[t], n, op[t] = "deinit")
      BY <2>3 DEF Part
    <3>2. pc[t] # "xmit" /\ (pc[t] = "unproc" => op[t] = "deinit")
      BY <2>3 DEF Part, Takedown, Setup, ModeDown
    <3>3. \A s \in Threads : pc[s] # "xmit"
      BY <1>5, <3>2 DEF OneCall
    <3>4. CASE pc[t] = "unproc"
      <4>1. Holds("unproc", n, TRUE)
        BY <3>1, <3>2, <3>4 DEF Holds
      <4> QED
        BY <1>3, <3>3, <4>1
    <3> QED
      BY <1>2, <3>1, <3>3, <3>4
  <2> QED
    BY <1>5, <2>1, <2>2, <2>3 DEF LifeInv
<1> QED
  BY <1>4, <1>5 DEF NoCall

\* Whatever user space and the wire do while a call is in progress, transmission
\* never outlives its structure, the work item its structure, rings and work
\* queue, nor a reader of a proc file the structure it shows; if the client
\* socket can be bound, or user space is quiet during calls.
THEOREM UsersAreSafe == Bindable => (Spec /\ []OneCall => []UsersProtected)
<1> SUFFICES ASSUME Bindable PROVE Spec /\ []OneCall => []UsersProtected
  OBVIOUS
<1>1. TypeOK /\ LifeInv /\ OneCall => UsersProtected
  BY InvariantProtects
<1> QED
  BY <1>1, Invariance, PTL


----------------------------------------------------------------------------
(* The PCI driver (XpPci).                                                 *)
(* The tables.                                                             *)

LEMMA ModuleTable ==
  /\ Len(ModuleSteps) = 8
  /\ \A i \in 1..8 : (ModuleSteps[i] = "driver") <=> (i = 8)
  /\ \A i \in 1..8 : (ModuleSteps[i] = "dma_node") <=> (i = 5)
  /\ ModuleSteps[3] = "dma_priv"
<1>1. /\ Len(ModuleSteps) = 8
      /\ ModuleSteps[1] = "class" /\ ModuleSteps[2] = "chrdev" /\ ModuleSteps[3] = "dma_priv"
      /\ ModuleSteps[4] = "dma_cdev" /\ ModuleSteps[5] = "dma_node"
      /\ ModuleSteps[6] = "dma_mask" /\ ModuleSteps[7] = "dma_parms"
      /\ ModuleSteps[8] = "driver"
  BY DEF ModuleSteps
<1> QED
  BY <1>1

LEMMA ExitTable ==
  /\ Len(ExitSteps) = 9
  /\ \A i \in 1..9 : (ExitSteps[i] = "driver") <=> (i = 7)
  /\ \A i \in 1..9 : (ExitSteps[i] = "dmamem") <=> (i = 1)
  /\ \A i \in 1..8 : \E j \in 1..9 : ExitSteps[j] = ModuleSteps[i]
<1>1. /\ Len(ExitSteps) = 9
      /\ ExitSteps[1] = "dmamem" /\ ExitSteps[2] = "dma_mask" /\ ExitSteps[3] = "dma_parms"
      /\ ExitSteps[4] = "dma_node" /\ ExitSteps[5] = "dma_cdev" /\ ExitSteps[6] = "dma_priv"
      /\ ExitSteps[7] = "driver" /\ ExitSteps[8] = "chrdev" /\ ExitSteps[9] = "class"
  BY DEF ExitSteps
<1>2. /\ ModuleSteps[1] = "class" /\ ModuleSteps[2] = "chrdev" /\ ModuleSteps[3] = "dma_priv"
      /\ ModuleSteps[4] = "dma_cdev" /\ ModuleSteps[5] = "dma_node"
      /\ ModuleSteps[6] = "dma_mask" /\ ModuleSteps[7] = "dma_parms"
      /\ ModuleSteps[8] = "driver"
  BY DEF ModuleSteps
<1>3. \A i \in 1..8 : \E j \in 1..9 : ExitSteps[j] = ModuleSteps[i]
  <2> SUFFICES ASSUME NEW i \in 1..8 PROVE \E j \in 1..9 : ExitSteps[j] = ModuleSteps[i]
    OBVIOUS
  <2>1. i \in {1, 2, 3, 4, 5, 6, 7, 8}
    OBVIOUS
  <2> QED
    BY <2>1, <1>1, <1>2
<1> QED
  BY <1>1, <1>3

LEMMA ProbeTable ==
  /\ Len(ProbeSteps) = 18
  /\ \A i \in 1..18 :
       /\ (ProbeSteps[i] = "priv") <=> (i = 1)
       /\ (ProbeSteps[i] = "enable") <=> (i = 2)
       /\ (ProbeSteps[i] = "regions") <=> (i = 3)
       /\ (ProbeSteps[i] = "dma") <=> (i = 4)
       /\ (ProbeSteps[i] = "pcie") <=> (i = 5)
       /\ (ProbeSteps[i] = "save") <=> (i = 6)
       /\ (ProbeSteps[i] = "msi") <=> (i = 7)
       /\ (ProbeSteps[i] = "wq") <=> (i = 8)
       /\ (ProbeSteps[i] = "high") <=> (i = 9)
       /\ (ProbeSteps[i] = "low") <=> (i = 10)
       /\ (ProbeSteps[i] = "bar") <=> (i = 11)
       /\ (ProbeSteps[i] = "iomap") <=> (i = 12)
       /\ (ProbeSteps[i] = "devid") <=> (i = 13)
       /\ (ProbeSteps[i] = "cdev") <=> (i = 14)
       /\ (ProbeSteps[i] = "node") <=> (i = 15)
       /\ (ProbeSteps[i] = "lock") <=> (i = 16)
       /\ (ProbeSteps[i] = "regproc") <=> (i = 17)
       /\ (ProbeSteps[i] = "ptr") <=> (i = 18)
<1>1. /\ Len(ProbeSteps) = 18
      /\ ProbeSteps[1] = "priv" /\ ProbeSteps[2] = "enable" /\ ProbeSteps[3] = "regions"
      /\ ProbeSteps[4] = "dma" /\ ProbeSteps[5] = "pcie" /\ ProbeSteps[6] = "save"
      /\ ProbeSteps[7] = "msi" /\ ProbeSteps[8] = "wq" /\ ProbeSteps[9] = "high"
      /\ ProbeSteps[10] = "low" /\ ProbeSteps[11] = "bar" /\ ProbeSteps[12] = "iomap"
      /\ ProbeSteps[13] = "devid" /\ ProbeSteps[14] = "cdev" /\ ProbeSteps[15] = "node"
      /\ ProbeSteps[16] = "lock" /\ ProbeSteps[17] = "regproc" /\ ProbeSteps[18] = "ptr"
  BY DEF ProbeSteps
<1> QED
  BY <1>1

LEMMA RemoveTable ==
  /\ Len(RemoveSteps) = 13
  /\ \A i \in 1..13 :
       /\ (RemoveSteps[i] = "deinit") <=> (i = 1)
       /\ (RemoveSteps[i] = "node") <=> (i = 2)
       /\ (RemoveSteps[i] = "cdev") <=> (i = 3)
       /\ (RemoveSteps[i] = "iomap") <=> (i = 4)
       /\ (RemoveSteps[i] = "regions") <=> (i = 5)
       /\ (RemoveSteps[i] = "high") <=> (i = 6)
       /\ (RemoveSteps[i] = "low") <=> (i = 7)
       /\ (RemoveSteps[i] = "msi") <=> (i = 8)
       /\ (RemoveSteps[i] = "wq") <=> (i = 9)
       /\ (RemoveSteps[i] = "regproc") <=> (i = 10)
       /\ (RemoveSteps[i] = "priv") <=> (i = 11)
       /\ (RemoveSteps[i] = "enable") <=> (i = 12)
       /\ (RemoveSteps[i] = "ptr") <=> (i = 13)
       /\ RemoveSteps[i] # "lock"
  /\ IndexOf(RemoveSteps, "priv") = 11
  /\ IndexOf(RemoveSteps, "deinit") = 1
<1>1. /\ Len(RemoveSteps) = 13
      /\ RemoveSteps[1] = "deinit" /\ RemoveSteps[2] = "node" /\ RemoveSteps[3] = "cdev"
      /\ RemoveSteps[4] = "iomap" /\ RemoveSteps[5] = "regions" /\ RemoveSteps[6] = "high"
      /\ RemoveSteps[7] = "low" /\ RemoveSteps[8] = "msi" /\ RemoveSteps[9] = "wq"
      /\ RemoveSteps[10] = "regproc" /\ RemoveSteps[11] = "priv" /\ RemoveSteps[12] = "enable"
      /\ RemoveSteps[13] = "ptr"
  BY DEF RemoveSteps
<1>2. \A i \in 1..13 : RemoveSteps[i] = "priv" <=> i = 11
  BY <1>1
<1>3. \A i \in 1..13 : RemoveSteps[i] = "deinit" <=> i = 1
  BY <1>1
<1>4. IndexOf(RemoveSteps, "priv") = 11
  BY <1>1, <1>2 DEF IndexOf
<1>5. IndexOf(RemoveSteps, "deinit") = 1
  BY <1>1, <1>3 DEF IndexOf
<1> QED
  BY <1>1, <1>4, <1>5

LEMMA UndoTable ==
  /\ Len(UndoLabels) = 6
  /\ UndoLabels[1] = "err_device_create" /\ UndoLabels[2] = "err_cdev_add"
  /\ UndoLabels[3] = "err_pci_iomap" /\ UndoLabels[4] = "cleanup_ports"
  /\ UndoLabels[5] = "err_dma" /\ UndoLabels[6] = "err_free_memory"
  /\ UndoReleases["err_device_create"] = {"cdev"} /\ UndoReleases["err_cdev_add"] = {"iomap"}
  /\ UndoReleases["err_pci_iomap"] = {"regions"} /\ UndoReleases["cleanup_ports"] = {}
  /\ UndoReleases["err_dma"] = {"enable"} /\ UndoReleases["err_free_memory"] = {"wq", "priv"}
  /\ \A s \in {"enable", "pcie", "save", "high", "devid"} : IndexOf(UndoLabels, FailsTo(s)) = 6
  /\ \A s \in {"regions", "dma"} : IndexOf(UndoLabels, FailsTo(s)) = 5
  /\ IndexOf(UndoLabels, FailsTo("bar")) = 4
  /\ IndexOf(UndoLabels, FailsTo("iomap")) = 3
  /\ IndexOf(UndoLabels, FailsTo("cdev")) = 2
  /\ IndexOf(UndoLabels, FailsTo("node")) = 1
<1>1. /\ Len(UndoLabels) = 6
      /\ UndoLabels[1] = "err_device_create" /\ UndoLabels[2] = "err_cdev_add"
      /\ UndoLabels[3] = "err_pci_iomap" /\ UndoLabels[4] = "cleanup_ports"
      /\ UndoLabels[5] = "err_dma" /\ UndoLabels[6] = "err_free_memory"
  BY DEF UndoLabels
<1>2. ASSUME NEW k \in 1..6 PROVE IndexOf(UndoLabels, UndoLabels[k]) = k
  <2>1. \A i \in 1..6 : UndoLabels[i] = UndoLabels[k] => i = k
    BY <1>1
  <2> QED
    BY <1>1, <2>1 DEF IndexOf
<1>3. \A s \in {"enable", "pcie", "save", "high", "devid"} : FailsTo(s) = UndoLabels[6]
  BY <1>1 DEF FailsTo
<1>4. \A s \in {"regions", "dma"} : FailsTo(s) = UndoLabels[5]
  BY <1>1 DEF FailsTo
<1>5. FailsTo("bar") = UndoLabels[4]
  BY <1>1 DEF FailsTo
<1>6. FailsTo("iomap") = UndoLabels[3]
  BY <1>1 DEF FailsTo
<1>7. FailsTo("cdev") = UndoLabels[2]
  BY <1>1 DEF FailsTo
<1>8. FailsTo("node") = UndoLabels[1]
  BY <1>1 DEF FailsTo
<1>9. /\ UndoReleases["err_device_create"] = {"cdev"} /\ UndoReleases["err_cdev_add"] = {"iomap"}
      /\ UndoReleases["err_pci_iomap"] = {"regions"} /\ UndoReleases["cleanup_ports"] = {}
      /\ UndoReleases["err_dma"] = {"enable"} /\ UndoReleases["err_free_memory"] = {"wq", "priv"}
  BY DEF UndoReleases
<1> QED
  BY <1>1, <1>2, <1>3, <1>4, <1>5, <1>6, <1>7, <1>8, <1>9

LEMMA ModuleSets ==
  /\ ModuleTaken(0) = {} /\ ExitLeft(10) = {}
  /\ \A n \in 1..8 : /\ ModuleTaken(n) = ModuleTaken(n - 1) \cup {ModuleSteps[n]}
                     /\ ModuleTaken(n - 1) = ModuleTaken(n) \ {ModuleSteps[n]}
  /\ \A n \in 0..8 : "driver" \in ModuleTaken(n) <=> n = 8
  /\ \A n \in 1..9 : ExitLeft(n) \ {ExitSteps[n]} \subseteq ExitLeft(n + 1)
  /\ "dma_priv" \in ModuleTaken(8) /\ ModuleTaken(8) \subseteq ExitLeft(1)
<1>1. ModuleTaken(0) = {} /\ ExitLeft(10) = {}
  BY ExitTable DEF ModuleTaken, ExitLeft
<1>2. ASSUME NEW n \in 1..8
      PROVE  /\ ModuleTaken(n) = ModuleTaken(n - 1) \cup {ModuleSteps[n]}
             /\ ModuleTaken(n - 1) = ModuleTaken(n) \ {ModuleSteps[n]}
  <2>1. 1..n = (1..n - 1) \cup {n}
    OBVIOUS
  <2>2. \A i \in 1..n - 1 : ModuleSteps[i] # ModuleSteps[n]
    BY DEF ModuleSteps
  <2> QED
    BY <2>1, <2>2 DEF ModuleTaken
<1>3. \A n \in 0..8 : "driver" \in ModuleTaken(n) <=> n = 8
  BY ModuleTable DEF ModuleTaken
<1>4. ASSUME NEW n \in 1..9 PROVE ExitLeft(n) \ {ExitSteps[n]} \subseteq ExitLeft(n + 1)
  BY ExitTable DEF ExitLeft
<1>5. "dma_priv" \in ModuleTaken(8)
  BY ModuleTable DEF ModuleTaken
<1>6. ModuleTaken(8) \subseteq ExitLeft(1)
  BY ExitTable DEF ModuleTaken, ExitLeft
<1> QED
  BY <1>1, <1>2, <1>3, <1>4, <1>5, <1>6

LEMMA PassedSets ==
  /\ Passed(0) = {}
  /\ \A n \in 1..18 : Passed(n) = Passed(n - 1) \cup {ProbeSteps[n]}
  /\ \A n \in 0..18 :
       /\ "priv" \in Passed(n) <=> n >= 1
       /\ "enable" \in Passed(n) <=> n >= 2
       /\ "regions" \in Passed(n) <=> n >= 3
       /\ "msi" \in Passed(n) <=> n >= 7
       /\ "wq" \in Passed(n) <=> n >= 8
       /\ "high" \in Passed(n) <=> n >= 9
       /\ "low" \in Passed(n) <=> n >= 10
       /\ "iomap" \in Passed(n) <=> n >= 12
       /\ "cdev" \in Passed(n) <=> n >= 14
       /\ "regproc" \in Passed(n) <=> n >= 17
       /\ "ptr" \in Passed(n) <=> n >= 18
<1>1. Passed(0) = {}
  BY DEF Passed
<1>2. ASSUME NEW n \in 1..18 PROVE Passed(n) = Passed(n - 1) \cup {ProbeSteps[n]}
  <2>1. 1..n = (1..n - 1) \cup {n}
    OBVIOUS
  <2> QED
    BY <2>1 DEF Passed
<1>3. ASSUME NEW n \in 0..18
      PROVE /\ "priv" \in Passed(n) <=> n >= 1
            /\ "enable" \in Passed(n) <=> n >= 2
            /\ "regions" \in Passed(n) <=> n >= 3
            /\ "msi" \in Passed(n) <=> n >= 7
            /\ "wq" \in Passed(n) <=> n >= 8
            /\ "high" \in Passed(n) <=> n >= 9
            /\ "low" \in Passed(n) <=> n >= 10
            /\ "iomap" \in Passed(n) <=> n >= 12
            /\ "cdev" \in Passed(n) <=> n >= 14
            /\ "regproc" \in Passed(n) <=> n >= 17
            /\ "ptr" \in Passed(n) <=> n >= 18
  BY ProbeTable DEF Passed
<1> QED
  BY <1>1, <1>2, <1>3

\* The step that asks for the second vector.
LEMMA LowIsTenth == \A i \in 1..18 : ProbeSteps[i] = "low" => i = 10
BY ProbeTable

\* What a probe takes depends on the interrupts only.
LEMMA TakesWhat ==
  /\ Takes \subseteq {"priv", "enable", "regions", "msi", "wq", "high", "low", "iomap", "cdev",
                      "node", "lock", "regproc", "ptr"}
  /\ {"priv", "enable", "regions", "iomap", "cdev", "node", "lock", "regproc", "ptr"}
       \subseteq Takes
  /\ "msi" \in Takes <=> IsrEnable /\ msi # "fail"
  /\ "wq" \in Takes <=> IsrEnable /\ msi # "fail"
  /\ "high" \in Takes <=> IsrEnable /\ msi # "fail"
  /\ "low" \in Takes <=> IsrEnable /\ BothVectors
<1> DEFINE All == {ProbeSteps[i] : i \in 1..Len(ProbeSteps)}
<1>1. All = {"priv", "enable", "regions", "dma", "pcie", "save", "msi", "wq", "high", "low",
             "bar", "iomap", "devid", "cdev", "node", "lock", "regproc", "ptr"}
  <2>1. Len(ProbeSteps) = 18
    BY ProbeTable
  <2>2. 1..18 = {1, 2, 3, 4, 5, 6, 7, 8, 9, 10, 11, 12, 13, 14, 15, 16, 17, 18}
    OBVIOUS
  <2> QED
    BY <2>1, <2>2, ProbeTable
<1>2. Takes = {s \in All \ Checks : ~Skips(s) /\ (s = "msi" => msi # "fail")}
  BY DEF Takes
<1> HIDE DEF All
<1> QED
  BY <1>1, <1>2 DEF Checks, Skips, BothVectors

LEMMA LeftSets ==
  /\ Left(14) = {}
  /\ Takes \subseteq Left(1)
  /\ \A n \in 2..13 :
       Left(n + 1) = Left(n) \ (IF RemoveSteps[n] = "priv" THEN {"priv", "lock"}
                                ELSE {RemoveSteps[n]})
  /\ Left(1) \ {"deinit"} = Left(2)
  /\ \A n \in 1..13 : RemoveSteps[n] \in Left(n)
  /\ \A n \in 1..14 :
       /\ "high" \in Left(n) <=> n <= 6
       /\ "low" \in Left(n) <=> n <= 7
       /\ "wq" \in Left(n) <=> n <= 9
       /\ "regproc" \in Left(n) <=> n <= 10
       /\ "priv" \in Left(n) <=> n <= 11
<1> DEFINE L(n) == {RemoveSteps[i] : i \in n..13}
<1>1. \A n : Left(n) = L(n) \cup {s \in {"lock"} : n <= 11}
  BY RemoveTable DEF Left
<1>2. Left(14) = {}
  BY <1>1
<1>3. Takes \subseteq Left(1)
  <2>1. 1..13 = {1, 2, 3, 4, 5, 6, 7, 8, 9, 10, 11, 12, 13}
    OBVIOUS
  <2>2. {"priv", "enable", "regions", "msi", "wq", "high", "low", "iomap", "cdev",
         "node", "regproc", "ptr"} \subseteq L(1)
    BY <2>1, RemoveTable
  <2>3. "lock" \in Left(1)
    BY <1>1
  <2> HIDE DEF L
  <2> QED
    BY <2>2, <2>3, <1>1, TakesWhat
<1>4. ASSUME NEW n \in 1..13
      PROVE  /\ L(n + 1) = L(n) \ {RemoveSteps[n]}
             /\ RemoveSteps[n] \in L(n)
             /\ "lock" \notin L(n)
  <2>1. n..13 = {n} \cup (n + 1)..13
    OBVIOUS
  <2>2. \A i \in (n + 1)..13 : RemoveSteps[i] # RemoveSteps[n]
    BY DEF RemoveSteps
  <2> QED
    BY <2>1, <2>2, RemoveTable
<1>5. ASSUME NEW n \in 2..13
      PROVE  Left(n + 1) = Left(n) \ (IF RemoveSteps[n] = "priv" THEN {"priv", "lock"}
                                      ELSE {RemoveSteps[n]})
  <2>1. RemoveSteps[n] = "priv" <=> n = 11
    BY RemoveTable
  <2>2. RemoveSteps[n] # "lock"
    BY RemoveTable
  <2> HIDE DEF L
  <2> QED
    BY <1>1, <1>4, <2>1, <2>2
<1>6. Left(1) \ {"deinit"} = Left(2)
  <2>1. RemoveSteps[1] = "deinit"
    BY RemoveTable
  <2>2. L(2) = L(1) \ {"deinit"}
    BY <2>1, <1>4
  <2> HIDE DEF L
  <2> QED
    BY <1>1, <2>2
<1>7. \A n \in 1..13 : RemoveSteps[n] \in Left(n)
  BY <1>1, <1>4
<1>8. ASSUME NEW n \in 1..14
      PROVE  /\ "high" \in Left(n) <=> n <= 6
             /\ "low" \in Left(n) <=> n <= 7
             /\ "wq" \in Left(n) <=> n <= 9
             /\ "regproc" \in Left(n) <=> n <= 10
             /\ "priv" \in Left(n) <=> n <= 11
  BY <1>1, RemoveTable
<1> QED
  BY <1>2, <1>3, <1>5, <1>6, <1>7, <1>8

----------------------------------------------------------------------------
(* Module init and exit.                                                   *)

\* A step outside module init and exit: the driver stays registered as long as
\* there is a device.
LEMMA ModuleUntouched ==
  ASSUME ModuleInv, UNCHANGED mvars, device' # "unbound" => "driver" \in mods
  PROVE  ModuleInv'
  BY DEF ModuleInv, mvars

LEMMA ModuleKept ==
  ASSUME ModuleInv, [PNext]_pvars
  PROVE  ModuleInv'
<1>a. Len(ModuleSteps) = 8 /\ Len(ExitSteps) = 9
  BY ModuleTable, ExitTable
<1>b. ASSUME
        module' \in {"out", "init", "undo", "undo_rc0", "live", "dead", "exit"},
        mpc' \in Nat,
        module' \in {"out", "dead"} => mods' = {},
        module' = "init" => mpc' \in 1..9 /\ mods' = ModuleTaken(mpc' - 1),
        module' \in {"undo", "undo_rc0"} => mpc' < 8 /\ mods' = ModuleTaken(mpc'),
        module' = "live" => mods' = ModuleTaken(8),
        module' = "exit" => mpc' \in 1..10 /\ mods' \subseteq ExitLeft(mpc'),
        device' # "unbound" => "driver" \in mods'
      PROVE ModuleInv'
  BY <1>a, <1>b DEF ModuleInv
<1>c. /\ mpc \in Nat
      /\ module \in {"out", "dead"} => mods = {}
      /\ module = "init" => mpc \in 1..9 /\ mods = ModuleTaken(mpc - 1)
      /\ module \in {"undo", "undo_rc0"} => mpc < 8 /\ mods = ModuleTaken(mpc)
      /\ module = "live" => mods = ModuleTaken(8)
      /\ module = "exit" => mpc \in 1..10 /\ mods \subseteq ExitLeft(mpc)
      /\ device # "unbound" => "driver" \in mods
  BY <1>a DEF ModuleInv
<1>1. CASE Load
  <2>1. mods' = ModuleTaken(0) /\ mods' = mods /\ mpc' = 1 /\ module' = "init" /\ device' = device
    BY <1>1, <1>c, ModuleSets DEF Load, dvars
  <2> QED
    BY <2>1, <1>b, <1>c
<1>2. CASE ModuleStep
  <2>1. mpc \in 1..8 /\ mods' = ModuleTaken(mpc) /\ mpc' = mpc + 1 /\ module' = "init"
    BY <1>2, <1>a, <1>c, ModuleSets DEF ModuleStep
  <2>2. device' # "unbound" => "driver" \in mods'
    BY <1>2, <1>c DEF ModuleStep
  <2> QED
    BY <1>b, <2>1, <2>2
<1>3. CASE ModuleFail
  <2>1. mpc \in 1..8 /\ mods' = ModuleTaken(mpc - 1) /\ mpc' = mpc - 1 /\ mods' = mods
        /\ module' \in {"undo", "undo_rc0"} /\ device' = device
    BY <1>3, <1>a, <1>c DEF ModuleFail, dvars
  <2> QED
    BY <1>b, <2>1, <1>c
<1>4. CASE ModuleUndo
  <2>1. mpc \in 1..7 /\ mods = ModuleTaken(mpc) /\ mods' = mods \ {ModuleSteps[mpc]}
        /\ mpc' = mpc - 1 /\ module' = module /\ module \in {"undo", "undo_rc0"}
        /\ device' = device
    BY <1>4, <1>c DEF ModuleUndo, dvars
  <2>2. mods' = ModuleTaken(mpc - 1) /\ "driver" \notin mods
    BY <2>1, ModuleSets
  <2> QED
    BY <1>b, <2>1, <2>2, <1>c
<1>5. CASE ModuleInitEnds
  BY <1>b, <1>5, <1>a, <1>c, ModuleSets DEF ModuleInitEnds, dvars
<1>6. CASE Plug
  BY <1>6, ModuleUntouched DEF Plug
<1>7. CASE Probe
  <2>1. UNCHANGED mvars /\ device # "unbound"
    BY <1>7 DEF Probe, ProbeSkip, ProbeTake, ProbeIgnore, ProbeFail, ProbeMsi, ProbeNoMemory,
                ProbeUndo, ProbeFailed, Probing
  <2> QED
    BY <2>1, <1>c, ModuleUntouched
<1>8. CASE Unbind
  BY <1>8, <1>c, ModuleUntouched DEF Unbind
<1>9. CASE Remove
  <2>1. UNCHANGED mvars /\ device # "unbound"
    BY <1>9 DEF Remove, RemoveStep, RemoveDeinit, RemoveEnds
  <2> QED
    BY <2>1, <1>c, ModuleUntouched
<1>10. CASE Unload
  BY <1>b, <1>10, <1>a, <1>c, ModuleSets DEF Unload, dvars
<1>11. ASSUME NEW s, ExitStep(s) PROVE ModuleInv'
  <2>1. mpc \in 1..9 /\ mods' = mods \ {ExitSteps[mpc]} /\ mods \subseteq ExitLeft(mpc)
        /\ mpc' = mpc + 1 /\ module' = "exit" /\ device' = device /\ ExitSteps[mpc] # "driver"
    BY <1>11, <1>a, <1>c DEF ExitStep, dvars
  <2>2. mods' \subseteq ExitLeft(mpc + 1)
    BY <2>1, ModuleSets
  <2> QED
    BY <1>b, <2>1, <2>2, <1>c
<1>12. CASE ExitDriver
  <2>1. CASE device = "bound"
    BY <1>12, <2>1, <1>c, ModuleUntouched DEF ExitDriver, mvars
  <2>2. CASE device # "bound"
    <3>1. mpc \in 1..9 /\ mods' = mods \ {ExitSteps[mpc]} /\ mods \subseteq ExitLeft(mpc)
          /\ mpc' = mpc + 1 /\ module' = "exit" /\ device' = "unbound"
      BY <1>12, <2>2, <1>a, <1>c DEF ExitDriver
    <3>2. mods' \subseteq ExitLeft(mpc + 1)
      BY <3>1, ModuleSets
    <3> QED
      BY <1>b, <3>1, <3>2
  <2> QED
    BY <2>1, <2>2
<1>13. CASE ExitEnds
  BY <1>b, <1>13, <1>a, <1>c, ModuleSets DEF ExitEnds, dvars
<1>14. CASE UNCHANGED <<mvars, dvars>>
  BY <1>14, <1>c, ModuleUntouched DEF dvars
<1>15. ASSUME NEW u, Begin(u) \/ End(u) PROVE ModuleInv'
  BY <1>15, <1>14 DEF Begin, End
<1>16. CASE DmaMemory
  BY <1>16, <1>14 DEF DmaMemory
<1>17. ASSUME NEW t, NetdevCall(t) PROVE ModuleInv'
  BY <1>17, <1>14 DEF NetdevCall
<1>18. CASE Netdev
  BY <1>18, <1>14 DEF Netdev
<1>19. CASE UNCHANGED pvars
  BY <1>19, <1>14 DEF pvars
<1> QED
  BY <1>1, <1>2, <1>3, <1>4, <1>5, <1>6, <1>7, <1>8, <1>9, <1>10, <1>11, <1>12, <1>13, <1>15,
     <1>16, <1>17, <1>18, <1>19 DEF PNext, ModuleInit, Exit

\* DMA memory is freed when the module goes.
LEMMA MemoryKept ==
  ASSUME ModuleInv, MemoryInv, [PNext]_pvars
  PROVE  MemoryInv'
<1>a. /\ "dma_file" \in users => module = "live"
      /\ dmamem => mask /\ (module = "live" \/ (module = "exit" /\ mpc = 1))
  BY DEF MemoryInv
<1>b. module = "live" => "dma_priv" \in mods
  BY ModuleSets, ModuleTable DEF ModuleInv
<1>c. module \in {"init", "undo", "undo_rc0", "out", "dead"} => ~dmamem
  BY <1>a
<1>d. ASSUME UNCHANGED <<mvars, dmamem, users>>, mask => mask' PROVE MemoryInv'
  BY <1>d DEF MemoryInv, mvars
<1>1. CASE Load
  BY <1>1, <1>a DEF Load, MemoryInv
<1>2. CASE ModuleInit
  <2>1. dmamem' = dmamem /\ users' = users /\ module \in {"init", "undo", "undo_rc0"}
    BY <1>2 DEF ModuleInit, ModuleStep, ModuleFail, ModuleUndo, ModuleInitEnds
  <2> QED
    BY <2>1, <1>a, <1>c DEF MemoryInv
<1>3. CASE Plug
  BY <1>3, <1>d DEF Plug
<1>4. CASE Probe
  <2>1. ASSUME NEW s, ProbeTake(s) PROVE MemoryInv'
    <3>1. UNCHANGED <<mvars, dmamem, users>> /\ mask' = (mask \/ s = "dma")
      BY <2>1 DEF ProbeTake
    <3> QED
      BY <3>1, <1>d
  <2>2. ASSUME UNCHANGED <<mvars, dmamem, users, mask>> PROVE MemoryInv'
    BY <2>2, <1>d
  <2> QED
    BY <1>4, <2>1, <2>2 DEF Probe, ProbeSkip, ProbeIgnore, ProbeFail, ProbeMsi, ProbeNoMemory,
                ProbeUndo, ProbeFailed
<1>5. CASE Unbind \/ Remove
  <2>1. UNCHANGED <<mvars, dmamem, users, mask>>
    BY <1>5 DEF Unbind, Remove, RemoveStep, RemoveDeinit, RemoveEnds
  <2> QED
    BY <2>1, <1>d
<1>6. CASE Unload
  BY <1>6, <1>a, <1>b DEF Unload, MemoryInv
<1>7. ASSUME NEW s, ExitStep(s) PROVE MemoryInv'
  <2>1. /\ users' = users /\ mask' = mask /\ module = "exit" /\ module' = "exit"
        /\ mpc <= Len(ExitSteps) /\ s = ExitSteps[mpc]
        /\ dmamem' = (dmamem /\ ~(s = "dmamem" /\ mask))
    BY <1>7 DEF ExitStep
  <2>2. mpc = 1 => s = "dmamem"
    BY <2>1, ExitTable
  <2>3. ~dmamem'
    BY <2>1, <2>2, <1>a
  <2> QED
    BY <2>1, <2>3, <1>a DEF MemoryInv
<1>8. CASE ExitDriver
  <2>1. users' = users /\ mask' = mask /\ module' = "exit" /\ dmamem' = dmamem /\ module = "exit"
        /\ mpc <= Len(ExitSteps) /\ ExitSteps[mpc] = "driver"
    BY <1>8 DEF ExitDriver
  <2>2. mpc # 1
    BY <2>1, ExitTable
  <2> QED
    BY <2>1, <2>2, <1>a DEF MemoryInv
<1>9. CASE ExitEnds
  BY <1>9, <1>a, ExitTable DEF ExitEnds, MemoryInv
<1>10. ASSUME NEW u, Begin(u) PROVE MemoryInv'
  BY <1>10, <1>a DEF Begin, MayBegin, MemoryInv, mvars
<1>11. ASSUME NEW u, End(u) PROVE MemoryInv'
  BY <1>11, <1>a DEF End, MemoryInv, mvars
<1>12. CASE DmaMemory
  BY <1>12, <1>a DEF DmaMemory, MemoryInv, mvars
<1>13. ASSUME NEW t, NetdevCall(t) PROVE MemoryInv'
  BY <1>13, <1>d DEF NetdevCall
<1>14. CASE Netdev
  BY <1>14, <1>d DEF Netdev
<1>15. CASE UNCHANGED pvars
  BY <1>15, <1>d DEF pvars
<1> QED
  BY <1>1, <1>2, <1>3, <1>4, <1>5, <1>6, <1>7, <1>8, <1>9, <1>10, <1>11, <1>12, <1>13, <1>14,
     <1>15 DEF PNext, Exit

----------------------------------------------------------------------------
(* What the device holds.                                                  *)

LEMMA TakesNext ==
  /\ Takes' \subseteq {"priv", "enable", "regions", "msi", "wq", "high", "low", "iomap", "cdev",
                       "node", "lock", "regproc", "ptr"}
  /\ {"priv", "enable", "regions", "iomap", "cdev", "node", "lock", "regproc", "ptr"}
       \subseteq Takes'
  /\ "msi" \in Takes' <=> IsrEnable /\ msi' # "fail"
  /\ msi' = msi => Takes' = Takes
<1>1. (/\ Takes \subseteq {"priv", "enable", "regions", "msi", "wq", "high", "low", "iomap", "cdev",
                      "node", "lock", "regproc", "ptr"}
       /\ {"priv", "enable", "regions", "iomap", "cdev", "node", "lock", "regproc", "ptr"}
            \subseteq Takes
       /\ "msi" \in Takes <=> IsrEnable /\ msi # "fail"
       /\ "wq" \in Takes <=> IsrEnable /\ msi # "fail"
       /\ "high" \in Takes <=> IsrEnable /\ msi # "fail"
       /\ "low" \in Takes <=> IsrEnable /\ BothVectors)'
  BY TakesWhat, PTL
<1>2. msi' = msi => Takes' = Takes
  BY DEF Takes, Skips, BothVectors
<1> QED
  BY <1>1, <1>2

\* Nothing that HeldAtMost and HeldAtLeast speak of changes.
LEMMA HeldUntouched ==
  ASSUME UNCHANGED <<device, dpc, held, leaked, msi>>
  PROVE  (HeldAtMost => HeldAtMost') /\ (HeldAtLeast => HeldAtLeast')
<1>1. Takes' = Takes
  BY TakesNext
<1> QED
  BY <1>1 DEF HeldAtMost, HeldAtLeast

\* The steps that concern neither the probe nor the removal.
LEMMA DeviceUntouched ==
  ASSUME ModuleInv, PNext, ~Probe, ~Unbind, ~Remove
  PROVE  \/ UNCHANGED dvars
         \/ device = "unbound" /\ device' = "probe" /\ dpc' = 1 /\ UNCHANGED <<held, leaked, msi>>
         \/ /\ device = "bound" /\ device' = "remove" /\ dpc' = 1
            /\ module = "exit" /\ ExitDriver /\ UNCHANGED <<held, leaked, msi>>
<1>1. CASE ModuleStep
  <2>1. CASE ModuleSteps[mpc] = "driver"
    <3>1. mpc = 8 /\ mods = ModuleTaken(7)
      BY <1>1, <2>1, ModuleTable DEF ModuleStep, ModuleInv
    <3>2. device = "unbound"
      BY <3>1, ModuleSets DEF ModuleInv
    <3> QED
      BY <1>1, <2>1, <3>2 DEF ModuleStep
  <2>2. CASE ModuleSteps[mpc] # "driver"
    BY <1>1, <2>2 DEF ModuleStep, dvars
  <2> QED
    BY <2>1, <2>2
<1>2. CASE Plug
  BY <1>2 DEF Plug
<1>3. CASE ExitDriver
  BY <1>3 DEF ExitDriver, dvars
<1>4. ASSUME ModuleFail \/ ModuleUndo \/ ModuleInitEnds \/ Load \/ Unload \/ ExitEnds \/ DmaMemory
             \/ Netdev
      PROVE UNCHANGED dvars
  BY <1>4 DEF ModuleFail, ModuleUndo, ModuleInitEnds, Load, Unload, ExitEnds, DmaMemory, Netdev
<1>5. ASSUME NEW s, ExitStep(s) \/ Begin(s) \/ End(s) \/ NetdevCall(s) PROVE UNCHANGED dvars
  BY <1>5 DEF ExitStep, Begin, End, NetdevCall
<1> QED
  BY <1>1, <1>2, <1>3, <1>4, <1>5 DEF PNext, ModuleInit, Exit

\* The probe goes on to the next step, or ends.
LEMMA ProbeGoesOn ==
  ASSUME device = "probe", dpc \in 1..18, ProbeNext,
         held \subseteq Passed(dpc - 1) \cap Takes',
         held' \subseteq held \cup ({ProbeSteps[dpc]} \cap Takes')
  PROVE  HeldAtMost'
<1>1. held' \subseteq Passed(dpc) \cap Takes'
  BY PassedSets
<1>2. Len(ProbeSteps) = 18
  BY ProbeTable
<1>3. CASE dpc = 18
  BY <1>1, <1>2, <1>3 DEF ProbeNext, HeldAtMost
<1>4. CASE dpc # 18
  <2>1. device' = "probe" /\ dpc' = dpc + 1 /\ dpc' \in 1..18 /\ dpc' - 1 = dpc
    BY <1>2, <1>4 DEF ProbeNext
  <2>2. held' \subseteq Passed(dpc' - 1) \cap Takes'
    BY <1>1, <2>1
  <2> QED
    BY <1>2, <2>1, <2>2 DEF HeldAtMost
<1> QED
  BY <1>3, <1>4

\* The device never holds more than the probe has taken or the removal has left,
\* whichever steps fail and whatever user space does.
LEMMA AtMostKept ==
  ASSUME ModuleInv, HeldAtMost, [PNext]_pvars
  PROVE  HeldAtMost'
<1>a. Len(ProbeSteps) = 18 /\ Len(UndoLabels) = 6 /\ Len(RemoveSteps) = 13
  BY ProbeTable, UndoTable, RemoveTable
<1>b. device = "probe" => dpc \in 1..18 /\ held \subseteq Passed(dpc - 1) \cap Takes
  BY <1>a DEF HeldAtMost
<1>c. ASSUME NEW s, ProbeSkip(s) \/ ProbeIgnore(s) PROVE HeldAtMost'
  <2>1. device = "probe" /\ held' = held /\ msi' = msi /\ ProbeNext
    BY <1>c DEF ProbeSkip, ProbeIgnore, Probing
  <2> QED
    BY <2>1, <1>b, TakesNext, ProbeGoesOn
<1>d. ASSUME NEW s, ProbeTake(s) PROVE HeldAtMost'
  <2>1. device = "probe" /\ msi' = msi /\ ProbeNext /\ s = ProbeSteps[dpc] /\ s # "msi" /\ ~Skips(s)
        /\ held' = IF s \in Checks THEN held ELSE held \cup {s}
    BY <1>d DEF ProbeTake, Probing
  <2>2. s \in Checks \/ s \in Takes
    BY <2>1, <1>a, <1>b DEF Takes
  <2> QED
    BY <2>1, <2>2, <1>b, TakesNext, ProbeGoesOn
<1>e. CASE ProbeMsi
  <2>1. device = "probe" /\ ProbeNext /\ ProbeSteps[dpc] = "msi" /\ ~Skips("msi")
        /\ held' = IF msi' = "fail" THEN held ELSE held \cup {"msi"}
    BY <1>e DEF ProbeMsi, Probing
  <2>2. dpc = 7 /\ IsrEnable
    BY <2>1, <1>b, ProbeTable, IsrEnableAssumption DEF Skips
  <2>3. held \subseteq Takes \ {"msi", "wq", "high", "low"}
    BY <2>1, <2>2, <1>b, PassedSets
  <2>4. held \subseteq Takes'
    BY <2>3, TakesWhat, TakesNext
  <2>5. held' \subseteq held \cup ({"msi"} \cap Takes')
    BY <2>1, <2>2, TakesNext
  <2> QED
    BY <2>1, <2>4, <2>5, <1>b, ProbeGoesOn
<1>f. CASE ProbeNoMemory
  <2>1. device = "probe" /\ ProbeSteps[dpc] = "priv" /\ device' = "unbound" /\ held' = held
    BY <1>f DEF ProbeNoMemory, Probing
  <2>2. dpc = 1
    BY <2>1, <1>b, ProbeTable
  <2>3. held = {}
    BY <2>1, <2>2, <1>b, PassedSets
  <2> QED
    BY <2>1, <2>3 DEF HeldAtMost
<1>g. ASSUME NEW s, ProbeFail(s) PROVE HeldAtMost'
  <2>1. device = "probe" /\ held' = held /\ msi' = msi /\ device' \in {"undo", "undo_rc0"}
        /\ dpc' = IndexOf(UndoLabels, FailsTo(s)) /\ s = ProbeSteps[dpc] /\ s # "ptr"
        /\ s \notin {"priv", "msi", "wq", "low", "lock", "regproc", "ptr"}
    BY <1>g DEF ProbeFail, Probing
  <2>2. s \in {"enable", "regions", "dma", "pcie", "save", "high", "bar", "iomap", "devid", "cdev",
               "node"}
    <3>1. dpc \in {1, 2, 3, 4, 5, 6, 7, 8, 9, 10, 11, 12, 13, 14, 15, 16, 17, 18}
      BY <2>1, <1>b
    <3> QED
      BY <2>1, <3>1, ProbeTable
  <2>3. dpc' \in 1..7
    BY <2>1, <2>2, UndoTable
  <2>4. held' \subseteq Passed(17) \cap Takes'
    <3>1. \A x \in Passed(dpc - 1) : x \in Passed(17)
      <4>1. dpc # 18
        BY <2>1, <1>b, ProbeTable
      <4>2. 1..dpc - 1 \subseteq 1..17
        BY <2>1, <4>1, <1>b
      <4> QED
        BY <4>2 DEF Passed
    <3> QED
      BY <2>1, <3>1, <1>b, TakesNext
  <2> QED
    BY <2>1, <2>3, <2>4, <1>a DEF HeldAtMost
<1>h. CASE ProbeUndo
  <2>1. /\ device \in {"undo", "undo_rc0"} /\ device' = device /\ held' \subseteq held /\ msi' = msi
        /\ dpc' = dpc + 1 /\ dpc <= 6
    BY <1>h, <1>a DEF ProbeUndo
  <2> QED
    BY <2>1, <1>a, TakesNext DEF HeldAtMost
<1>i. CASE ProbeFailed
  BY <1>i DEF ProbeFailed, HeldAtMost
<1>1. CASE Probe
  BY <1>1, <1>c, <1>d, <1>e, <1>f, <1>g, <1>h, <1>i DEF Probe
<1>2. ASSUME device = "bound", device' = "remove", dpc' = 1, UNCHANGED <<held, leaked, msi>>
      PROVE HeldAtMost'
  <2>1. held \subseteq Takes
    BY <1>2 DEF HeldAtMost
  <2>2. held' \subseteq Left(1) \cap Takes'
    BY <1>2, <2>1, LeftSets, TakesNext
  <2> QED
    BY <1>2, <2>2, <1>a DEF HeldAtMost
<1>3. CASE Unbind
  BY <1>2, <1>3 DEF Unbind
<1>j. device = "remove" => dpc \in 1..14 /\ held \subseteq Left(dpc) \cap Takes
  BY <1>a DEF HeldAtMost
<1>k. ASSUME device = "remove", device' = "remove", dpc' = dpc + 1, dpc \in 1..13, msi' = msi,
             held' \subseteq Left(dpc + 1) \cap Takes
      PROVE HeldAtMost'
  BY <1>k, <1>a, TakesNext DEF HeldAtMost
<1>l. ASSUME NEW s, RemoveStep(s) PROVE HeldAtMost'
  <2>1. /\ device = "remove" /\ device' = "remove" /\ dpc' = dpc + 1 /\ dpc \in 2..13 /\ msi' = msi
        /\ s = RemoveSteps[dpc]
        /\ held' = IF RemoveSkips(s) THEN held
                   ELSE held \ (IF s = "priv" THEN {"priv", "lock"} ELSE {s})
    BY <1>l, <1>a, <1>j, RemoveTable DEF RemoveStep
  <2>2. ASSUME RemoveSkips(s) PROVE s \notin held /\ s # "priv"
    BY <2>1, <2>2, <1>j, TakesWhat DEF RemoveSkips, BothVectors
  <2>3. held' \subseteq Left(dpc + 1) \cap Takes
    BY <2>1, <2>2, <1>j, LeftSets
  <2> QED
    BY <2>1, <2>3, <1>k
<1>m. CASE RemoveDeinit
  <2>1. device = "remove" /\ device' = "remove" /\ dpc' = dpc + 1 /\ dpc = 1 /\ msi' = msi
        /\ held' = held
    BY <1>m, RemoveTable DEF RemoveDeinit
  <2>2. held' \subseteq Left(2) \cap Takes
    BY <2>1, <1>j, LeftSets, TakesWhat
  <2> QED
    BY <2>1, <2>2, <1>k
<1>n. CASE RemoveEnds
  BY <1>n DEF RemoveEnds, HeldAtMost
<1>4. CASE Remove
  BY <1>4, <1>l, <1>m, <1>n DEF Remove
<1>5. ASSUME device = "unbound", device' = "probe", dpc' = 1, UNCHANGED <<held, leaked, msi>>
      PROVE HeldAtMost'
  BY <1>5, <1>a, PassedSets DEF HeldAtMost
<1>6. CASE UNCHANGED dvars
  BY <1>6, HeldUntouched DEF dvars
<1>7. CASE UNCHANGED pvars
  BY <1>6, <1>7 DEF pvars
<1> QED
  BY <1>1, <1>2, <1>3, <1>4, <1>5, <1>6, <1>7, DeviceUntouched

\* The probe goes on, or ends, and has got what it cannot do without.
LEMMA ProbeGoesOnWithIt ==
  ASSUME device = "probe", dpc \in 1..18, ProbeNext, leaked' = leaked,
         (Passed(dpc - 1) \cap Takes') \ Optional \subseteq held',
         ProbeSteps[dpc] \in Takes' \ Optional => ProbeSteps[dpc] \in held',
         "low" \in held' => "high" \in held',
         "low" \in leaked => "high" \in leaked,
         "high" \notin held' \cap leaked
  PROVE  HeldAtLeast'
<1>1. (Passed(dpc) \cap Takes') \ Optional \subseteq held'
  BY PassedSets
<1>2. Len(ProbeSteps) = 18
  BY ProbeTable
<1>3. CASE dpc = 18
  BY <1>1, <1>2, <1>3 DEF ProbeNext, HeldAtLeast
<1>4. CASE dpc # 18
  <2>1. device' = "probe" /\ dpc' - 1 = dpc
    BY <1>2, <1>4 DEF ProbeNext
  <2>2. (Passed(dpc' - 1) \cap Takes') \ Optional \subseteq held'
    BY <1>1, <2>1
  <2> QED
    BY <2>1, <2>2 DEF HeldAtLeast
<1> QED
  BY <1>3, <1>4

\* The error path finds what its labels give back.
LEMMA UndoFinds ==
  ASSUME HeldAtMost, HeldAtLeast, NEW s, ProbeFail(s)
  PROVE  \A k \in dpc'..5 : UndoReleases[UndoLabels[k]] \subseteq held
<1>1. device = "probe" /\ dpc' = IndexOf(UndoLabels, FailsTo(s)) /\ s = ProbeSteps[dpc]
      /\ s \notin {"priv", "msi", "wq", "low", "lock", "regproc", "ptr"}
  BY DEF ProbeFail, Probing
<1>2. dpc \in 1..18 /\ (Passed(dpc - 1) \cap Takes) \ Optional \subseteq held
  BY <1>1, ProbeTable DEF HeldAtMost, HeldAtLeast
<1>3. /\ dpc >= 3 => "enable" \in held
      /\ dpc >= 4 => "regions" \in held
      /\ dpc >= 13 => "iomap" \in held
      /\ dpc >= 15 => "cdev" \in held
  BY <1>2, PassedSets, TakesWhat DEF Optional
<1>4. s \in {"enable", "regions", "dma", "pcie", "save", "high", "bar", "iomap", "devid", "cdev",
             "node"}
  <2>1. dpc \in {1, 2, 3, 4, 5, 6, 7, 8, 9, 10, 11, 12, 13, 14, 15, 16, 17, 18}
    BY <1>2
  <2> QED
    BY <1>1, <2>1, ProbeTable
<1>5. CASE s \in {"enable", "pcie", "save", "high", "devid"}
  BY <1>1, <1>5, UndoTable
<1>6. CASE s \in {"regions", "dma"}
  <2>1. dpc' = 5 /\ "enable" \in held
    BY <1>1, <1>2, <1>3, <1>6, UndoTable, ProbeTable
  <2>2. \A k \in dpc'..5 : k = 5
    BY <2>1
  <2> QED
    BY <2>1, <2>2, UndoTable
<1>7. CASE s = "bar"
  <2>a. dpc = 11
    <3>1. dpc \in 1..18
      BY <1>2
    <3>2. ProbeSteps[dpc] = "bar"
      BY <1>1, <1>7
    <3> QED
      BY <3>1, <3>2, ProbeTable
  <2>b. dpc' = 4
    BY <1>1, <1>7, UndoTable
  <2>1. dpc' = 4 /\ "enable" \in held
    BY <1>3, <2>a, <2>b
  <2>2. \A k \in dpc'..5 : k = 4 \/ k = 5
    BY <2>1
  <2> QED
    BY <2>1, <2>2, UndoTable
<1>8. CASE s = "iomap"
  <2>a. dpc = 12
    <3>1. dpc \in 1..18
      BY <1>2
    <3>2. ProbeSteps[dpc] = "iomap"
      BY <1>1, <1>8
    <3> QED
      BY <3>1, <3>2, ProbeTable
  <2>b. dpc' = 3
    BY <1>1, <1>8, UndoTable
  <2>1. dpc' = 3 /\ "enable" \in held /\ "regions" \in held
    BY <1>3, <2>a, <2>b
  <2>2. \A k \in dpc'..5 : k = 3 \/ k = 4 \/ k = 5
    BY <2>1
  <2> QED
    BY <2>1, <2>2, UndoTable
<1>9. CASE s = "cdev"
  <2>a. dpc = 14
    <3>1. dpc \in 1..18
      BY <1>2
    <3>2. ProbeSteps[dpc] = "cdev"
      BY <1>1, <1>9
    <3> QED
      BY <3>1, <3>2, ProbeTable
  <2>b. dpc' = 2
    BY <1>1, <1>9, UndoTable
  <2>1. dpc' = 2 /\ "enable" \in held /\ "regions" \in held /\ "iomap" \in held
    BY <1>3, <2>a, <2>b
  <2>2. \A k \in dpc'..5 : k = 2 \/ k = 3 \/ k = 4 \/ k = 5
    BY <2>1
  <2> QED
    BY <2>1, <2>2, UndoTable
<1>10. CASE s = "node"
  <2>a. dpc = 15
    <3>1. dpc \in 1..18
      BY <1>2
    <3>2. ProbeSteps[dpc] = "node"
      BY <1>1, <1>10
    <3> QED
      BY <3>1, <3>2, ProbeTable
  <2>b. dpc' = 1
    BY <1>1, <1>10, UndoTable
  <2>1. dpc' = 1 /\ "enable" \in held /\ "regions" \in held /\ "iomap" \in held /\ "cdev" \in held
    BY <1>3, <2>a, <2>b
  <2>2. \A k \in dpc'..5 : k = 1 \/ k = 2 \/ k = 3 \/ k = 4 \/ k = 5
    BY <2>1
  <2> QED
    BY <2>1, <2>2, UndoTable
<1> QED
  BY <1>4, <1>5, <1>6, <1>7, <1>8, <1>9, <1>10

\* Unless device_create fails, the device holds at least what the probe cannot
\* do without.
LEMMA AtLeastKept ==
  ASSUME "node" \notin PMayFail, ModuleInv, HeldAtMost, HeldAtLeast, [PNext]_pvars
  PROVE  HeldAtLeast'
<1>a. Len(ProbeSteps) = 18 /\ Len(UndoLabels) = 6 /\ Len(RemoveSteps) = 13
  BY ProbeTable, UndoTable, RemoveTable
<1>b. device = "probe" =>
        /\ dpc \in 1..18 /\ held \subseteq Passed(dpc - 1) \cap Takes
        /\ (Passed(dpc - 1) \cap Takes) \ Optional \subseteq held
        /\ "low" \in held => "high" \in held
  BY <1>a DEF HeldAtMost, HeldAtLeast
<1>c. ("low" \in leaked => "high" \in leaked) /\ "high" \notin held \cap leaked
  BY DEF HeldAtLeast
<1>d. ASSUME NEW s, ProbeSkip(s) PROVE HeldAtLeast'
  <2>1. device = "probe" /\ held' = held /\ msi' = msi /\ leaked' = leaked /\ ProbeNext
        /\ s = ProbeSteps[dpc] /\ Skips(s)
    BY <1>d DEF ProbeSkip, Probing
  <2>2. s \notin Takes
    BY <2>1 DEF Takes
  <2> QED
    BY <2>1, <2>2, <1>b, <1>c, TakesNext, ProbeGoesOnWithIt
<1>e. ASSUME NEW s, ProbeIgnore(s) PROVE HeldAtLeast'
  <2>1. device = "probe" /\ held' = held /\ msi' = msi /\ leaked' = leaked /\ ProbeNext
        /\ s = ProbeSteps[dpc] /\ ~Skips(s) /\ s \in {"wq", "low", "regproc"}
        /\ (s \in PMayFail \/ Refused(s))
    BY <1>e DEF ProbeIgnore, Probing
  <2>2. ~Refused(s)
    <3>1. SUFFICES ASSUME s = "low", "low" \in leaked PROVE FALSE
      BY <2>1 DEF Refused
    <3>2. dpc = 10 /\ "high" \in Takes
      <4>1. dpc \in 1..18
        BY <2>1, <1>b
      <4>2. dpc = 10
        BY <2>1, <3>1, <4>1, LowIsTenth
      <4>3. IsrEnable /\ msi = "both"
        BY <2>1, <3>1 DEF Skips, BothVectors
      <4> QED
        BY <4>2, <4>3, TakesWhat
    <3>3. "high" \in held
      BY <2>1, <3>2, <1>b, PassedSets DEF Optional
    <3> QED
      BY <3>1, <3>3, <1>c
  <2>3. s \in Optional
    BY <2>1, <2>2 DEF Optional
  <2> QED
    BY <2>1, <2>3, <1>b, <1>c, TakesNext, ProbeGoesOnWithIt
<1>f. ASSUME NEW s, ProbeTake(s) PROVE HeldAtLeast'
  <2>1. device = "probe" /\ msi' = msi /\ leaked' = leaked /\ ProbeNext /\ s = ProbeSteps[dpc]
        /\ s # "msi" /\ ~Skips(s) /\ ~Refused(s)
        /\ held' = IF s \in Checks THEN held ELSE held \cup {s}
    BY <1>f DEF ProbeTake, Probing
  <2>2. s \in Checks => s \notin Takes
    BY DEF Takes
  <2>3. ASSUME s = "low" PROVE "high" \in held
    <3>1. dpc = 10 /\ "high" \in Takes
      <4>1. dpc \in 1..18
        BY <2>1, <1>b
      <4>2. dpc = 10
        BY <2>1, <2>3, <4>1, LowIsTenth
      <4>3. IsrEnable /\ msi = "both"
        BY <2>1, <2>3 DEF Skips, BothVectors
      <4> QED
        BY <4>2, <4>3, TakesWhat
    <3> QED
      BY <2>1, <3>1, <1>b, PassedSets DEF Optional
  <2>4. "high" \notin held' \cap leaked
    BY <2>1, <1>c DEF Refused
  <2>5. "low" \in held' => "high" \in held'
    BY <2>1, <2>3, <1>b
  <2> QED
    BY <2>1, <2>2, <2>4, <2>5, <1>b, <1>c, TakesNext, ProbeGoesOnWithIt
<1>g. CASE ProbeMsi
  <2>1. device = "probe" /\ ProbeNext /\ ProbeSteps[dpc] = "msi" /\ leaked' = leaked
        /\ held' = IF msi' = "fail" THEN held ELSE held \cup {"msi"}
    BY <1>g DEF ProbeMsi, Probing
  <2>2. dpc = 7
    BY <2>1, <1>b, ProbeTable
  <2>3. Passed(6) \cap {"msi", "wq", "high", "low"} = {}
    BY PassedSets
  <2>4. Passed(6) \cap Takes' \subseteq Takes
    BY <2>3, TakesWhat, TakesNext
  <2>5. "low" \notin held' /\ "high" \notin held'
    BY <2>1, <2>2, <2>3, <1>b
  <2>6. (Passed(dpc - 1) \cap Takes') \ Optional \subseteq held'
    BY <2>1, <2>2, <2>4, <1>b
  <2>7. "msi" \in Takes' => "msi" \in held'
    BY <2>1, TakesNext
  <2> QED
    BY <2>1, <2>5, <2>6, <2>7, <1>b, <1>c, ProbeGoesOnWithIt
<1>h. CASE ProbeNoMemory
  <2>1. device = "probe" /\ device' = "unbound" /\ held' = held /\ leaked' = leaked
    BY <1>h DEF ProbeNoMemory, Probing
  <2> QED
    BY <2>1, <1>b, <1>c DEF HeldAtLeast
<1>i. ASSUME NEW s, ProbeFail(s) PROVE HeldAtLeast'
  <2>1. device = "probe" /\ held' = held /\ leaked' = leaked /\ s # "node" /\ device' = "undo"
    BY <1>i DEF ProbeFail, Probing, Refused
  <2>2. \A k \in dpc'..5 : UndoReleases[UndoLabels[k]] \subseteq held'
    BY <1>i, <2>1, UndoFinds
  <2> QED
    BY <2>1, <2>2, <1>a, <1>b, <1>c DEF HeldAtLeast
<1>j. CASE ProbeUndo
  <2>1. /\ device = "undo" /\ device' = "undo" /\ leaked' = leaked /\ dpc' = dpc + 1 /\ dpc \in 1..6
        /\ held' = IF UndoLabels[dpc] = "err_free_memory" /\ "wq" \notin held THEN held
                   ELSE held \ UndoReleases[UndoLabels[dpc]]
    BY <1>j, <1>a DEF ProbeUndo, HeldAtLeast, HeldAtMost
  <2>2. dpc \in {1, 2, 3, 4, 5, 6}
    BY <2>1
  <2>3. \A k \in dpc..5 : UndoReleases[UndoLabels[k]] \subseteq held
    BY <2>1, <1>a DEF HeldAtLeast
  <2>4. ASSUME NEW k \in dpc'..5 PROVE UndoReleases[UndoLabels[k]] \subseteq held'
    <3>1. k \in {2, 3, 4, 5} /\ k > dpc
      BY <2>1
    <3>2. UndoReleases[UndoLabels[k]] \subseteq held
      BY <2>1, <2>3, <2>4
    <3>3. UndoReleases[UndoLabels[k]] \cap UndoReleases[UndoLabels[dpc]] = {}
      BY <2>2, <3>1, UndoTable
    <3> QED
      BY <2>1, <3>2, <3>3
  <2>5. ("low" \in held' => "high" \in held') /\ "high" \notin held' \cap leaked
    <3>1. "high" \notin UndoReleases[UndoLabels[dpc]]
      BY <2>2, UndoTable
    <3> QED
      BY <2>1, <3>1, <1>c DEF HeldAtLeast
  <2> QED
    BY <2>1, <2>4, <2>5, <1>a, <1>c DEF HeldAtLeast
<1>k. CASE ProbeFailed
  <2>1. device = "undo" /\ device' = "unbound" /\ held' = {} /\ leaked' = leaked \cup held
    BY <1>k DEF ProbeFailed, HeldAtLeast
  <2>2. "low" \in held => "high" \in held
    BY <2>1 DEF HeldAtLeast
  <2> QED
    BY <2>1, <2>2, <1>c DEF HeldAtLeast
<1>1. CASE Probe
  BY <1>1, <1>d, <1>e, <1>f, <1>g, <1>h, <1>i, <1>j, <1>k DEF Probe
<1>2. ASSUME device = "bound", device' = "remove", dpc' = 1, UNCHANGED <<held, leaked, msi>>
      PROVE HeldAtLeast'
  <2>1. Takes \subseteq Passed(18)
    BY <1>a DEF Takes, Passed
  <2>2. Takes \ Optional \subseteq held
    BY <1>2, <2>1, <1>a DEF HeldAtLeast
  <2> QED
    BY <1>2, <2>2, <1>c, TakesNext DEF HeldAtLeast
<1>3. CASE Unbind
  BY <1>2, <1>3 DEF Unbind
<1>l. device = "remove" => dpc \in 1..14 /\ held \subseteq Left(dpc) \cap Takes
                           /\ (Left(dpc) \cap Takes) \ Optional \subseteq held
  BY <1>a DEF HeldAtMost, HeldAtLeast
<1>m. ASSUME device = "remove", device' = "remove", msi' = msi, leaked' = leaked, held' \subseteq held,
             (Left(dpc') \cap Takes) \ Optional \subseteq held'
      PROVE HeldAtLeast'
  BY <1>m, <1>c, TakesNext DEF HeldAtLeast
<1>n. ASSUME NEW s, RemoveStep(s) PROVE HeldAtLeast'
  <2>1. /\ device = "remove" /\ device' = "remove" /\ dpc' = dpc + 1 /\ dpc \in 2..13 /\ msi' = msi
        /\ s = RemoveSteps[dpc] /\ leaked' = leaked
        /\ held' = IF RemoveSkips(s) THEN held
                   ELSE held \ (IF s = "priv" THEN {"priv", "lock"} ELSE {s})
    BY <1>n, <1>a, <1>l, RemoveTable DEF RemoveStep
  <2>2. (Left(dpc + 1) \cap Takes) \ Optional \subseteq held'
    BY <2>1, <1>l, LeftSets
  <2> QED
    BY <2>1, <2>2, <1>m
<1>o. CASE RemoveDeinit
  <2>1. device = "remove" /\ device' = "remove" /\ dpc' = 2 /\ dpc = 1 /\ msi' = msi
        /\ held' = held /\ leaked' = leaked
    BY <1>o, RemoveTable DEF RemoveDeinit
  <2>2. (Left(2) \cap Takes) \ Optional \subseteq held'
    BY <2>1, <1>l, LeftSets
  <2> QED
    BY <2>1, <2>2, <1>m
<1>p. CASE RemoveEnds
  <2>1. device = "remove" /\ dpc = 14 /\ device' = "unbound" /\ held' = {} /\ leaked' = leaked \cup held
    BY <1>p, <1>a, <1>l DEF RemoveEnds
  <2>2. held = {}
    BY <2>1, <1>l, LeftSets
  <2> QED
    BY <2>1, <2>2, <1>c DEF HeldAtLeast
<1>4. CASE Remove
  BY <1>4, <1>n, <1>o, <1>p DEF Remove
<1>5. ASSUME device = "unbound", device' = "probe", dpc' = 1, UNCHANGED <<held, leaked, msi>>
      PROVE HeldAtLeast'
  <2>1. Passed(dpc' - 1) = {}
    BY <1>5, PassedSets
  <2> QED
    BY <1>5, <2>1, <1>c DEF HeldAtLeast
<1>6. CASE UNCHANGED dvars
  BY <1>6, HeldUntouched DEF dvars
<1>7. CASE UNCHANGED pvars
  BY <1>6, <1>7 DEF pvars
<1> QED
  BY <1>1, <1>2, <1>3, <1>4, <1>5, <1>6, <1>7, DeviceUntouched

----------------------------------------------------------------------------
(* What is held.                                                           *)

LEMMA PTables ==
  ASSUME PInit PROVE ModuleInv /\ MemoryInv /\ HeldAtMost /\ HeldAtLeast
<1>1. /\ module = "out" /\ mpc = 1 /\ mods = {} /\ device = "unbound" /\ dpc = 1 /\ held = {}
      /\ leaked = {} /\ msi = "fail" /\ mask = FALSE /\ dmamem = FALSE /\ users = {}
  BY DEF PInit
<1>2. ModuleInv /\ MemoryInv
  BY <1>1 DEF ModuleInv, MemoryInv
<1>3. HeldAtMost /\ HeldAtLeast
  BY <1>1 DEF HeldAtMost, HeldAtLeast
<1> QED
  BY <1>2, <1>3

LEMMA TablesInvariant == PSpec => [](ModuleInv /\ MemoryInv /\ HeldAtMost)
<1>1. PInit => ModuleInv /\ MemoryInv /\ HeldAtMost
  BY PTables
<1>2. ModuleInv /\ MemoryInv /\ HeldAtMost /\ [PNext]_pvars => (ModuleInv /\ MemoryInv /\ HeldAtMost)'
  BY ModuleKept, MemoryKept, AtMostKept
<1> QED
  BY <1>1, <1>2, PTL DEF PSpec

LEMMA AtLeastInvariant ==
  ASSUME "node" \notin PMayFail PROVE PSpec => []HeldAtLeast
<1>1. PInit => HeldAtLeast
  BY PTables
<1>2. ModuleInv /\ HeldAtMost /\ HeldAtLeast /\ [PNext]_pvars => HeldAtLeast'
  BY AtLeastKept
<1> QED
  BY <1>1, <1>2, TablesInvariant, PTL DEF PSpec

\* Whatever fails and whatever user space does, a device that was removed leaves
\* nothing behind: when the removal is over the device holds nothing.
THEOREM RemovalIsComplete == PSpec => RemoveLeavesNothing
<1> DEFINE LeavesNothing == device = "remove" => leaked' = leaked
<1>1. ModuleInv /\ HeldAtMost /\ [PNext]_pvars => [LeavesNothing]_pvars
  <2> SUFFICES ASSUME ModuleInv, HeldAtMost, PNext, device = "remove" PROVE leaked' = leaked
    BY DEF LeavesNothing
  <2>1. CASE RemoveEnds
    <3>1. dpc = 14 /\ held \subseteq Left(dpc)
      BY <2>1, RemoveTable DEF RemoveEnds, HeldAtMost
    <3>2. held = {}
      BY <3>1, LeftSets
    <3> QED
      BY <2>1, <3>2 DEF RemoveEnds
  <2>2. CASE Probe
    <3>1. ~ProbeFailed
      BY DEF ProbeFailed
    <3> QED
      BY <2>2, <3>1 DEF Probe, ProbeSkip, ProbeTake, ProbeIgnore, ProbeFail, ProbeMsi, ProbeNoMemory,
                        ProbeUndo
  <2>3. CASE Remove
    BY <2>1, <2>3 DEF Remove, RemoveStep, RemoveDeinit
  <2>4. CASE Unbind
    BY <2>4 DEF Unbind
  <2> QED
    BY <2>2, <2>3, <2>4, DeviceUntouched DEF dvars
<1> QED
  BY <1>1, TablesInvariant, PTL DEF PSpec, RemoveLeavesNothing, LeavesNothing

\* If create_workqueue, the request of the second interrupt and device_create
\* succeed, the error path of the probe and the removal give back only what the
\* device holds, whatever else fails and whatever user space does.
THEOREM OnlyHeldIsReleased ==
  ASSUME PMayFail \cap {"wq", "low", "node"} = {} PROVE PSpec => []ReleasesHeld
<1>1. HeldAtMost /\ HeldAtLeast => ReleasesHeld
  <2> SUFFICES ASSUME HeldAtMost, HeldAtLeast PROVE ReleasesHeld
    OBVIOUS
  <2>1. ASSUME device \in {"undo", "undo_rc0"}, dpc < Len(UndoLabels)
        PROVE UndoReleases[UndoLabels[dpc]] \subseteq held
    <3>1. device = "undo" /\ dpc \in 1..5
      BY <2>1, UndoTable DEF HeldAtMost, HeldAtLeast
    <3> QED
      BY <3>1, UndoTable DEF HeldAtLeast
  <2>2. ASSUME device = "remove", dpc \in 2..Len(RemoveSteps), ~RemoveSkips(RemoveSteps[dpc])
        PROVE RemoveSteps[dpc] \in held
    <3> DEFINE s == RemoveSteps[dpc]
    <3>1. dpc \in 2..13 /\ (Left(dpc) \cap Takes) \ Optional \subseteq held
      BY <2>2, RemoveTable DEF HeldAtLeast
    <3>2. s \in Left(dpc)
      BY <3>1, RemoveTable DEF Left
    <3>3. CASE s = "regproc"
      BY <2>2, <3>3 DEF RemoveSkips
    <3>4. CASE s # "regproc"
      <4>1. s \notin Optional
        BY <3>4 DEF Optional
      <4>2. dpc \in {2, 3, 4, 5, 6, 7, 8, 9, 10, 11, 12, 13}
        BY <3>1
      <4>3. s \in {"node", "cdev", "iomap", "regions", "high", "low", "msi", "wq", "regproc", "priv",
                   "enable", "ptr"}
        BY <4>2, RemoveTable
      <4>4. s \in Takes
        BY <2>2, <4>3, TakesWhat DEF RemoveSkips
      <4> QED
        BY <3>1, <3>2, <4>1, <4>4
    <3> QED
      BY <3>3, <3>4
  <2> QED
    BY <2>1, <2>2 DEF ReleasesHeld
<1>2. PSpec => []HeldAtLeast
  BY AtLeastInvariant
<1> QED
  BY <1>1, <1>2, TablesInvariant, PTL

----------------------------------------------------------------------------
(* Who is in a call.                                                       *)

\* A thread goes on only if it is in a call of the net device mode, and is
\* called for the same until it returns.
LEMMA ThreadGoesOn ==
  ASSUME CallTypes, NEW t \in Threads, Thread(t)
  PROVE  /\ pc[t] \notin {"idle", "remove"}
         /\ \E l \in Labels \ {"remove"} :
              /\ pc' = [pc EXCEPT ![t] = l]
              /\ \/ l # "idle" /\ op' = op
                 \/ l = "idle" /\ op' = [op EXCEPT ![t] = "none"]
<1> DEFINE Goes == \E l \in Labels \ {"remove"} :
              /\ pc' = [pc EXCEPT ![t] = l]
              /\ \/ l # "idle" /\ op' = op
                 \/ l = "idle" /\ op' = [op EXCEPT ![t] = "none"]
<1>a. Labels = {"idle", "init", "deinit", "send", "remove", "alloc", "xmit", "trap", "netlink", "client",
                "wq", "undo_netlink", "undo_trap", "teardown", "mode_deinit", "mode_netlink",
                "mode_netdevs", "mode_client", "cancel", "free", "unproc"}
  BY DEF Labels, Before, Setup, ModeDown, Takedown
<1>b. ASSUME NEW l \in Labels \ {"remove", "idle"}, Goto(t, l), op' = op PROVE Goes
  BY <1>b DEF Goto
<1>c. ASSUME Return(t) PROVE Goes
  BY <1>a, <1>c DEF Return, Goto
<1>d. ASSUME InitDone(t) PROVE Goes
  BY <1>a, <1>b, <1>c, <1>d DEF InitDone
<1> HIDE DEF Goes
<1>1. CASE InitStep(t)
  <2>1. CASE InitAlready(t)
    BY <2>1, <1>d DEF InitAlready, Goes
  <2>2. CASE InitBegin(t)
    BY <2>2, <1>a, <1>b DEF InitBegin, Goes
  <2>3. CASE InitNoMemory(t)
    BY <2>3, <1>d DEF InitNoMemory, Goes
  <2>4. ASSUME NEW n \in Privs, InitAlloc(t, n) PROVE pc[t] \notin {"idle", "remove"} /\ Goes
    BY <2>4, <1>a, <1>b DEF InitAlloc
  <2>5. CASE InitTrap(t)
    BY <2>5, <1>a, <1>b DEF InitTrap, Goes
  <2>6. CASE InitNetlink(t)
    BY <2>6, <1>a, <1>b DEF InitNetlink, Goes
  <2>7. CASE InitClient(t)
    BY <2>7, <1>a, <1>b DEF InitClient, Goes
  <2>8. CASE InitWork(t)
    BY <2>8, <1>a, <1>b, <1>d DEF InitWork, Goes
  <2>9. CASE UndoNetlink(t) \/ UndoTrap(t)
    BY <2>9, <1>a, <1>b DEF UndoNetlink, UndoTrap, Goes
  <2>10. CASE Teardown(t)
    BY <2>10, <1>d DEF Teardown, Goes
  <2> QED
    BY <1>1, <2>1, <2>2, <2>3, <2>4, <2>5, <2>6, <2>7, <2>8, <2>9, <2>10 DEF InitStep, Goes
<1>2. CASE DeinitStep(t)
  <2>1. CASE DeinitNothing(t)
    BY <2>1, <1>c DEF DeinitNothing, Goes
  <2>2. CASE DeinitBegin(t)
    BY <2>2, <1>a, <1>b DEF DeinitBegin, Goes
  <2>3. CASE ModeTrap(t) \/ ModeNetlink(t) \/ ModeNetdevs(t)
    BY <2>3, <1>a, <1>b DEF ModeTrap, ModeNetlink, ModeNetdevs, Goes
  <2>4. CASE ModeClient(t)
    BY <2>4, <1>a, <1>b DEF ModeClient, Goes
  <2>5. CASE Cancel(t) \/ Free(t)
    BY <2>5, <1>a, <1>b DEF Cancel, Free, Goes
  <2>6. CASE RemoveProc(t)
    <3>1. pc[t] = "unproc" /\ pc' = pc /\ op' = op
      BY <2>6 DEF RemoveProc, thread
    <3>2. pc' = [pc EXCEPT ![t] = "unproc"]
      BY <3>1 DEF CallTypes
    <3> QED
      BY <3>1, <3>2, <1>a, <1>b DEF Goto, Goes
  <2>7. CASE FreePriv(t)
    BY <2>7, <1>c DEF FreePriv, Goes
  <2> QED
    BY <1>2, <2>1, <2>2, <2>3, <2>4, <2>5, <2>6, <2>7 DEF DeinitStep
<1>3. CASE SendStep(t)
  BY <1>3, <1>a, <1>b, <1>c DEF SendStep, SendError, SendBegin, SendEnd, Goes
<1> QED
  BY <1>1, <1>2, <1>3 DEF Thread

\* The steps of the users of the net device mode and of the probe, and most of
\* the others, concern no thread.
LEMMA ThreadsUntouched ==
  ASSUME PNext, ~Unbind, ~RemoveDeinit, ~Unload, ~ExitEnds,
         ~\E t \in Threads : NetdevCall(t) \/ (Thread(t) /\ Netdev)
  PROVE  UNCHANGED thread
<1>1. CASE Load \/ ModuleInit \/ Plug
  BY <1>1 DEF Load, ModuleInit, ModuleStep, ModuleFail, ModuleUndo, ModuleInitEnds, Plug, vars
<1>2. CASE Probe
  BY <1>2 DEF Probe, ProbeSkip, ProbeTake, ProbeIgnore, ProbeFail, ProbeMsi, ProbeNoMemory, ProbeUndo,
              ProbeFailed, vars
<1>3. CASE Remove
  BY <1>3 DEF Remove, RemoveStep, RemoveEnds, vars
<1>4. CASE Exit
  BY <1>4 DEF Exit, ExitStep, ExitDriver, vars
<1>5. ASSUME NEW u, Begin(u) \/ End(u) PROVE UNCHANGED thread
  BY <1>5 DEF Begin, End, vars
<1>6. CASE DmaMemory
  BY <1>6 DEF DmaMemory, vars
<1>7. CASE Users
  BY <1>7 DEF Users, WorkRun, WorkPacket, WorkEnd, NlBegin, NlEnd, ProcBegin, ProcEnd
<1> QED
  BY <1>1, <1>2, <1>3, <1>4, <1>5, <1>6, <1>7 DEF PNext, Netdev

LEMMA CallTypesKept ==
  ASSUME CallTypes, [PNext]_pvars PROVE CallTypes'
<1>a. Labels = {"idle", "init", "deinit", "send", "remove", "alloc", "xmit", "trap", "netlink", "client",
                "wq", "undo_netlink", "undo_trap", "teardown", "mode_deinit", "mode_netlink",
                "mode_netdevs", "mode_client", "cancel", "free", "unproc"}
  BY DEF Labels, Before, Setup, ModeDown, Takedown
<1>1. CASE Unbind \/ Unload
  BY <1>1, <1>a, RmAssumption DEF Unbind, Unload, Goto, CallTypes
<1>2. CASE RemoveDeinit
  BY <1>2, <1>a, RmAssumption DEF RemoveDeinit, Goto, CallTypes
<1>3. CASE ExitEnds
  BY <1>3, <1>a, RmAssumption DEF ExitEnds, Goto, CallTypes
<1>4. ASSUME NEW t \in Threads, NetdevCall(t) PROVE CallTypes'
  BY <1>4, <1>a DEF NetdevCall, Call, Goto, CallTypes
<1>5. ASSUME NEW t \in Threads, Thread(t) PROVE CallTypes'
  BY <1>5, <1>a, ThreadGoesOn DEF CallTypes
<1>6. CASE UNCHANGED thread
  BY <1>6 DEF thread, CallTypes
<1>7. CASE UNCHANGED pvars
  BY <1>6, <1>7 DEF pvars, vars
<1> QED
  BY <1>1, <1>2, <1>3, <1>4, <1>5, <1>6, <1>7, ThreadsUntouched

\* While no other thread is in a call and nothing happens to the users.
LEMMA CallsUntouched ==
  ASSUME CallInv, UNCHANGED thread, users' = users,
         "file" \in users => device' = "bound" /\ module' \in {"init", "live"},
         "client" \in users => device' # "remove" /\ module' = "live",
         device = "bound" => device' = "bound" \/ users \cap {"file", "client"} = {},
         pc[Rm] # "idle" => device' = "remove" \/ module' = "exit",
         pc[Rm] \notin {"idle", "remove"} => device' = "remove" /\ dpc' = 2,
         device' = "remove" => (dpc' = 1 <=> pc[Rm] = "remove"),
         module' = "exit" /\ device' = "bound" => pc[Rm] = "remove",
         device' \in {"probe", "undo", "undo_rc0"} => module' \in {"init", "live"}
  PROVE  CallInv'
<1>1. pc' = pc /\ op' = op
  BY DEF thread
<1>2. \A t \in Threads \ {Rm} : pc[t] # "idle" =>
        (op[t] \in {"init", "deinit"} /\ "file" \in users) \/ (op[t] = "send" /\ "client" \in users)
  BY DEF CallInv
<1>3. \A t \in Threads \ {Rm} : pc[t] # "idle" => device' = "bound"
  BY <1>2 DEF CallInv
<1> QED
  BY <1>1, <1>2, <1>3 DEF CallInv

\* If user space uses neither a device that is being probed nor one that is
\* being removed, no call is in progress then.
LEMMA CallKept ==
  ASSUME Env = {}, ModuleInv, HeldAtMost, CallTypes, CallInv, [PNext]_pvars PROVE CallInv'
<1>a. /\ "file" \in users => device = "bound" /\ module \in {"init", "live"}
      /\ "client" \in users => device # "remove" /\ module = "live"
      /\ pc[Rm] # "idle" => device = "remove" \/ module = "exit"
      /\ pc[Rm] \notin {"idle", "remove"} => device = "remove" /\ dpc = 2
      /\ device = "remove" => (dpc = 1 <=> pc[Rm] = "remove")
      /\ module = "exit" /\ device = "bound" => pc[Rm] = "remove"
      /\ device \in {"probe", "undo", "undo_rc0"} => module \in {"init", "live"}
  BY DEF CallInv
<1>b. module \in {"out", "dead", "undo", "undo_rc0"} => device = "unbound"
  BY ModuleTable, ModuleSets DEF ModuleInv
<1>c. module = "init" /\ mpc <= Len(ModuleSteps) => device = "unbound"
  BY ModuleTable, ModuleSets DEF ModuleInv
<1>d. module = "exit" /\ mpc > Len(ExitSteps) => device = "unbound"
  BY ExitTable, ModuleSets DEF ModuleInv
<1>e. pc \in [Threads -> Labels] /\ op \in [Threads -> {"none", "init", "deinit", "send"}]
      /\ Rm \in Threads
  BY RmAssumption DEF CallTypes
<1>f. \A t \in Threads \ {Rm} : pc[t] # "idle" =>
        /\ (op[t] \in {"init", "deinit"} /\ "file" \in users) \/ (op[t] = "send" /\ "client" \in users)
        /\ device = "bound"
  BY DEF CallInv
<1>g. op[Rm] = IF pc[Rm] \in {"idle", "remove"} THEN "none" ELSE "deinit"
  BY DEF CallInv
<1>1. CASE Load
  <2>1. /\ UNCHANGED <<thread, users, device, dpc>> /\ module = "out" /\ module' = "init"
    BY <1>1 DEF Load, vars, dvars
  <2> QED
    BY <2>1, <1>a, <1>b, CallsUntouched
<1>2. CASE ModuleStep
  <2>1. /\ UNCHANGED <<thread, users>> /\ module = "init" /\ module' = "init" /\ device = "unbound"
        /\ device' \in {"unbound", "probe"}
    BY <1>2, <1>c DEF ModuleStep, vars
  <2> QED
    BY <2>1, <1>a, CallsUntouched
<1>3. CASE ModuleFail
  <2>1. /\ UNCHANGED <<thread, users, device, dpc>> /\ module = "init" /\ device = "unbound"
        /\ module' \in {"undo", "undo_rc0"}
    BY <1>3, <1>c DEF ModuleFail, vars, dvars
  <2> QED
    BY <2>1, <1>a, CallsUntouched
<1>4. CASE ModuleUndo
  <2>1. UNCHANGED <<thread, users, device, dpc, module>>
    BY <1>4 DEF ModuleUndo, vars, dvars
  <2> QED
    BY <2>1, <1>a, CallsUntouched
<1>5. CASE ModuleInitEnds
  <2>1. /\ UNCHANGED <<thread, users, device, dpc>>
        /\ \/ module \in {"undo", "undo_rc0"} /\ module' \in {"out", "dead"}
           \/ module = "init" /\ module' = "live"
    BY <1>5 DEF ModuleInitEnds, vars, dvars
  <2> QED
    BY <2>1, <1>a, <1>b, CallsUntouched
<1>6. CASE Plug
  <2>1. UNCHANGED <<thread, users, module>> /\ device = "unbound" /\ device' = "probe" /\ module = "live"
    BY <1>6 DEF Plug, vars, mvars
  <2> QED
    BY <2>1, <1>a, CallsUntouched
<1>7. CASE Probe
  <2>1. UNCHANGED <<thread, users, module>> /\ device \in {"probe", "undo", "undo_rc0"}
    BY <1>7 DEF Probe, ProbeSkip, ProbeTake, ProbeIgnore, ProbeFail, ProbeMsi, ProbeNoMemory, ProbeUndo,
              ProbeFailed, Probing, vars, mvars
  <2>2. device' \in {"probe", "undo", "undo_rc0", "unbound", "bound"}
    BY <1>7 DEF Probe, ProbeSkip, ProbeTake, ProbeIgnore, ProbeFail, ProbeMsi, ProbeNoMemory, ProbeUndo,
              ProbeFailed, ProbeNext
  <2> QED
    BY <2>1, <2>2, <1>a, CallsUntouched
<1>8. CASE Unbind
  <2>1. /\ users' = users /\ op' = op /\ pc' = [pc EXCEPT ![Rm] = "remove"] /\ pc[Rm] = "idle"
        /\ module = "live" /\ module' = "live" /\ device = "bound" /\ device' = "remove" /\ dpc' = 1
        /\ users \cap {"file", "client"} = {}
    BY <1>8 DEF Unbind, Goto, mvars
  <2>2. pc'[Rm] = "remove" /\ \A t \in Threads \ {Rm} : pc'[t] = "idle"
    BY <2>1, <1>e, <1>f
  <2> QED
    BY <2>1, <2>2 DEF CallInv
<1>9. CASE RemoveDeinit
  <2>1. /\ users' = users /\ op' = [op EXCEPT ![Rm] = "deinit"] /\ pc' = [pc EXCEPT ![Rm] = "deinit"]
        /\ module' = module /\ device = "remove" /\ device' = "remove" /\ dpc = 1 /\ dpc' = 2
    BY <1>9, RemoveTable DEF RemoveDeinit, Goto, mvars
  <2>2. pc'[Rm] = "deinit" /\ op'[Rm] = "deinit" /\ \A t \in Threads \ {Rm} : pc'[t] = "idle"
    BY <2>1, <1>e, <1>f
  <2> QED
    BY <2>1, <2>2, <1>a DEF CallInv
<1>10. ASSUME NEW s, RemoveStep(s) PROVE CallInv'
  <2>1. /\ UNCHANGED <<thread, users, device, module>> /\ device = "remove" /\ pc[Rm] = "idle"
        /\ dpc' = dpc + 1 /\ dpc \in 1..14
    BY <1>10, RemoveTable DEF RemoveStep, vars, mvars, HeldAtMost
  <2>2. dpc' # 1
    BY <2>1
  <2> QED
    BY <2>1, <2>2, <1>a, CallsUntouched
<1>11. CASE RemoveEnds
  <2>1. /\ UNCHANGED <<thread, users, module>> /\ device = "remove" /\ device' = "unbound" /\ dpc = 14
    BY <1>11, RemoveTable DEF RemoveEnds, vars, mvars, HeldAtMost
  <2>2. pc[Rm] = "idle"
    BY <2>1, <1>a
  <2> QED
    BY <2>1, <2>2, <1>a, CallsUntouched
<1>12. CASE Unload
  <2>1. /\ users' = users /\ op' = op /\ pc' = [pc EXCEPT ![Rm] = "remove"] /\ pc[Rm] = "idle"
        /\ module' = "exit" /\ UNCHANGED <<device, dpc>> /\ device \in {"unbound", "bound"}
        /\ users \cap {"file", "client"} = {}
    BY <1>12 DEF Unload, Goto, dvars
  <2>2. pc'[Rm] = "remove" /\ \A t \in Threads \ {Rm} : pc'[t] = "idle"
    BY <2>1, <1>e, <1>f
  <2> QED
    BY <2>1, <2>2 DEF CallInv
<1>13. ASSUME NEW s, ExitStep(s) PROVE CallInv'
  <2>1. UNCHANGED <<thread, users, device, dpc, module>>
    BY <1>13 DEF ExitStep, vars, dvars
  <2> QED
    BY <2>1, <1>a, CallsUntouched
<1>14. CASE ExitDriver
  <2>1. /\ UNCHANGED <<thread, users, module>> /\ module = "exit"
        /\ \/ device = "bound" /\ device' = "remove" /\ dpc' = 1
           \/ UNCHANGED <<device, dpc>>
    BY <1>14 DEF ExitDriver, vars
  <2> QED
    BY <2>1, <1>a, CallsUntouched
<1>15. CASE ExitEnds
  <2>1. /\ users' = users /\ op' = op /\ pc' = [pc EXCEPT ![Rm] = "idle"]
        /\ module = "exit" /\ module' = "out" /\ UNCHANGED <<device, dpc>> /\ device = "unbound"
    BY <1>15, <1>d DEF ExitEnds, Goto, dvars
  <2>2. \A t \in Threads : pc'[t] = "idle"
    BY <2>1, <1>e, <1>f
  <2> QED
    BY <2>1, <2>2, <1>a, <1>e DEF CallInv
<1>16. ASSUME NEW u \in UserKinds, Begin(u) PROVE CallInv'
  <2>1. /\ UNCHANGED <<pc, op, device, dpc, module>> /\ users' = users \cup {u}
        /\ u = "file" => device = "bound" /\ module \in {"init", "live"}
        /\ u = "client" => device # "remove" /\ module = "live"
    BY <1>16 DEF Begin, MayBegin, vars, thread, dvars, mvars
  <2> QED
    BY <2>1, <1>a, <1>e, <1>f, <1>g DEF CallInv
<1>17. ASSUME NEW u \in UserKinds, End(u) PROVE CallInv'
  <2>1. /\ UNCHANGED <<pc, op, device, dpc, module>> /\ users \ {u} \subseteq users'
        /\ users' \subseteq users \cup {"work"} /\ ~Calling(u)
    BY <1>17 DEF End, vars, thread, dvars, mvars
  <2>2. \A t \in Threads \ {Rm} : pc[t] # "idle" =>
          (op[t] \in {"init", "deinit"} /\ "file" \in users') \/ (op[t] = "send" /\ "client" \in users')
    BY <2>1, <1>f DEF Calling
  <2> QED
    BY <2>1, <2>2, <1>a, <1>f, <1>g DEF CallInv
<1>18. CASE DmaMemory
  <2>1. UNCHANGED <<thread, users, device, dpc, module>>
    BY <1>18 DEF DmaMemory, vars, dvars, mvars
  <2> QED
    BY <2>1, <1>a, CallsUntouched
<1>19. ASSUME NEW t \in Threads, NetdevCall(t) PROVE CallInv'
  <2>1. PICK o \in {"init", "deinit", "send"} :
          /\ t # Rm /\ op' = [op EXCEPT ![t] = o]
          /\ pc' = [pc EXCEPT ![t] = IF o = "deinit" THEN "deinit" ELSE "init"]
          /\ (o # "send" /\ "file" \in users) \/ (o = "send" /\ "client" \in users /\ "ptr" \in held)
          /\ UNCHANGED <<device, dpc, module, users>>
    BY <1>19 DEF NetdevCall, Call, Goto, dvars, mvars
  <2>2. device = "bound"
    <3>1. "ptr" \in held => device \in {"bound", "remove"}
      BY ProbeTable, PassedSets DEF HeldAtMost
    <3> QED
      BY <2>1, <3>1, <1>a
  <2>3. op'[t] = o /\ \A s \in Threads \ {t} : op'[s] = op[s] /\ pc'[s] = pc[s]
    BY <2>1, <1>e
  <2> QED
    BY <2>1, <2>2, <2>3, <1>a, <1>e, <1>f, <1>g DEF CallInv
<1>20. ASSUME NEW t \in Threads, Thread(t), Netdev PROVE CallInv'
  <2>1. UNCHANGED <<device, dpc, module, users>>
    BY <1>20 DEF Netdev, dvars, mvars
  <2>2. pc[t] \notin {"idle", "remove"}
    BY <1>20, ThreadGoesOn
  <2>3. PICK l \in Labels \ {"remove"} :
              /\ pc' = [pc EXCEPT ![t] = l]
              /\ \/ l # "idle" /\ op' = op
                 \/ l = "idle" /\ op' = [op EXCEPT ![t] = "none"]
    BY <1>20, ThreadGoesOn
  <2>4. /\ pc'[t] = l /\ l # "remove" /\ op'[t] = IF pc'[t] = "idle" THEN "none" ELSE op[t]
        /\ \A s \in Threads \ {t} : op'[s] = op[s] /\ pc'[s] = pc[s]
    BY <2>3, <1>e
  <2> QED
    BY <2>1, <2>2, <2>4, <1>a, <1>e, <1>f, <1>g DEF CallInv
<1>21. CASE Users /\ Netdev
  <2>1. UNCHANGED <<thread, device, dpc, module, users>>
    BY <1>21 DEF Netdev, dvars, mvars, Users, WorkRun, WorkPacket, WorkEnd, NlBegin, NlEnd, ProcBegin,
                 ProcEnd
  <2> QED
    BY <2>1, <1>a, CallsUntouched
<1>22. CASE UNCHANGED pvars
  <2>1. UNCHANGED <<thread, device, dpc, module, users>>
    BY <1>22 DEF pvars, dvars, mvars, vars
  <2> QED
    BY <2>1, <1>a, CallsUntouched
<1> QED
  BY <1>1, <1>2, <1>3, <1>4, <1>5, <1>6, <1>7, <1>8, <1>9, <1>10, <1>11, <1>12, <1>13, <1>14, <1>15,
     <1>16, <1>17, <1>18, <1>19, <1>20, <1>21, <1>22 DEF PNext, ModuleInit, Remove, Exit, Netdev

----------------------------------------------------------------------------
(* Handlers, their work, readers of the proc file, open files.             *)

\* What the handlers use is held as long as they are registered.
LEMMA GoTogether ==
  ASSUME HeldAtMost, HeldAtLeast, "wq" \notin PMayFail, device # "undo"
  PROVE  /\ held \cap {"high", "low", "wq", "regproc"} # {} => "priv" \in held
         /\ held \cap {"high", "low"} # {} => "wq" \in held
         /\ device = "bound" => "priv" \in held
         /\ device = "remove" /\ dpc <= 11 => "priv" \in held
         /\ device = "remove" /\ dpc <= 9 /\ Takes \cap {"high", "low"} # {} => "wq" \in held
<1>1. "priv" \in Takes /\ "priv" \notin Optional /\ "wq" \notin Optional
      /\ (Takes \cap {"high", "low"} # {} => "wq" \in Takes)
  BY TakesWhat DEF Optional, BothVectors
<1>2. CASE device = "probe"
  <2>1. dpc \in 1..18 /\ held \subseteq Passed(dpc - 1) \cap Takes
        /\ (Passed(dpc - 1) \cap Takes) \ Optional \subseteq held
    BY <1>2, ProbeTable DEF HeldAtMost, HeldAtLeast
  <2> DEFINE n == dpc - 1
  <2>2. n \in 0..18 /\ held \subseteq Passed(n) \cap Takes /\ (Passed(n) \cap Takes) \ Optional \subseteq held
    BY <2>1
  <2> HIDE DEF n
  <2> QED
    BY <1>1, <1>2, <2>2, PassedSets
<1>3. CASE device = "bound"
  <2>1. held \subseteq Takes /\ (Passed(18) \cap Takes) \ Optional \subseteq held
    BY <1>3, ProbeTable DEF HeldAtMost, HeldAtLeast
  <2> QED
    BY <1>1, <1>3, <2>1, PassedSets
<1>4. CASE device = "remove"
  <2>1. dpc \in 1..14 /\ held \subseteq Left(dpc) \cap Takes /\ (Left(dpc) \cap Takes) \ Optional \subseteq held
    BY <1>4, RemoveTable DEF HeldAtMost, HeldAtLeast
  <2> QED
    BY <1>1, <1>4, <2>1, LeftSets
<1>5. CASE device = "unbound"
  BY <1>5 DEF HeldAtMost
<1> QED
  BY <1>2, <1>3, <1>4, <1>5 DEF HeldAtMost, HeldAtLeast

\* A handler or a reader that free_irq or proc_remove has still to wait for.
LEMMA HandlerAt ==
  ASSUME HeldAtMost, HandlerInv, NEW u \in users \cap {"high", "low", "regproc"}
  PROVE  \/ u \in held
         \/ /\ device = "remove" /\ u \in Takes
            /\ u = "high" => dpc = 7
            /\ u = "low" => dpc = 8
            /\ u = "regproc" => dpc = 11
<1> SUFFICES ASSUME u \notin held
             PROVE  /\ device = "remove" /\ u \in Takes
                    /\ u = "high" => dpc = 7
                    /\ u = "low" => dpc = 8
                    /\ u = "regproc" => dpc = 11
  OBVIOUS
<1>1. device = "remove" /\ u \in Takes /\ dpc > 1 /\ u = RemoveSteps[dpc - 1]
  BY DEF HandlerInv
<1>2. dpc \in 1..14
  BY <1>1, RemoveTable DEF HeldAtMost
<1> DEFINE n == dpc - 1
<1>3. n \in 1..13 /\ dpc = n + 1 /\ u = RemoveSteps[n]
  BY <1>1, <1>2
<1> HIDE DEF n
<1> QED
  BY <1>1, <1>3, RemoveTable

\* Nothing that HandlerInv speaks of is given back.
LEMMA HandlersUntouched ==
  ASSUME HandlerInv, users' = users, leaked' = leaked, held \subseteq held', device # "undo",
         device' # "undo",
         device = "remove" => device' = "remove" /\ dpc' = dpc /\ msi' = msi
  PROVE  HandlerInv'
<1>1. msi' = msi => Takes' = Takes
  BY TakesNext
<1>2. users \cap {"high", "low", "regproc"} \subseteq
       held' \cup {s \in Takes' : device' = "remove" /\ dpc' > 1 /\ s = RemoveSteps[dpc' - 1]}
  <2>1. CASE device = "remove"
    BY <2>1, <1>1 DEF HandlerInv
  <2>2. CASE device # "remove"
    BY <2>2 DEF HandlerInv
  <2> QED
    BY <2>1, <2>2
<1> QED
  BY <1>2 DEF HandlerInv

\* If no probe fails once the interrupts are requested, the handlers, their work
\* and the readers of the proc file find what they use.
LEMMA HandlerKept ==
  ASSUME DevId \in Recognised, PMayFail \cap {"wq", "node", "bar", "iomap", "cdev", "devid"} = {},
         ModuleInv, HeldAtMost, HeldAtLeast, HandlerInv, [PNext]_pvars
  PROVE  HandlerInv'
<1>a. /\ leaked \cap {"high", "low"} = {}
      /\ device = "undo" => held \cap {"high", "low", "regproc"} = {}
      /\ users \cap {"high", "low", "regproc"} \subseteq
            held \cup {s \in Takes : device = "remove" /\ dpc > 1 /\ s = RemoveSteps[dpc - 1]}
      /\ "work" \in users => "wq" \in held
      /\ "work" \in users /\ device # "remove" => "high" \in held
  BY DEF HandlerInv
<1>b. device = "undo" => users \cap {"high", "low", "regproc", "work"} = {}
  BY <1>a
<1>c. device # "undo_rc0"
  BY DEF HeldAtLeast
<1>d. ASSUME device = "undo", users' = users, leaked' \cap {"high", "low"} = {}, held' \subseteq held
      PROVE HandlerInv'
  BY <1>d, <1>a, <1>b DEF HandlerInv
<1>e. ASSUME NEW s, ProbeFail(s) PROVE HandlerInv'
  <2>1. device = "probe" /\ UNCHANGED <<users, leaked, held>> /\ device' \in {"undo", "undo_rc0"}
        /\ s = ProbeSteps[dpc] /\ s \notin {"priv", "msi", "wq", "low", "lock", "regproc", "ptr"}
        /\ (s \in PMayFail \/ Refused(s))
    BY <1>e DEF ProbeFail, Probing
  <2>2. s \notin {"bar", "iomap", "devid", "cdev", "node"}
    BY <2>1 DEF Refused
  <2>3. dpc \in 1..18 /\ held \subseteq Passed(dpc - 1)
    BY <2>1, ProbeTable DEF HeldAtMost
  <2>4. dpc \in 1..9
    <3>1. dpc \notin {10, 11, 12, 13, 14, 15, 16, 17, 18}
      BY <2>1, <2>2, ProbeTable
    <3> QED
      BY <2>3, <3>1
  <2>5. held \cap {"high", "low", "regproc"} = {}
    <3> DEFINE n == dpc - 1
    <3>1. n \in 0..18 /\ n <= 8 /\ held \subseteq Passed(n)
      BY <2>3, <2>4
    <3> HIDE DEF n
    <3> QED
      BY <3>1, PassedSets
  <2>6. users \cap {"high", "low", "regproc", "work"} = {}
    BY <2>1, <2>5, <1>a
  <2> QED
    BY <2>1, <2>5, <2>6, <1>a DEF HandlerInv
<1>f. CASE ProbeUndo
  BY <1>f, <1>a, <1>c, <1>d DEF ProbeUndo
<1>g. CASE ProbeFailed
  <2>1. device = "undo" /\ users' = users /\ leaked' = leaked \cup held /\ held' = {}
    BY <1>g, <1>c DEF ProbeFailed
  <2> QED
    BY <2>1, <1>a, <1>d
<1>1. CASE Probe
  <2>1. ASSUME NEW s, ProbeSkip(s) \/ ProbeIgnore(s) \/ ProbeTake(s) \/ ProbeMsi \/ ProbeNoMemory
        PROVE HandlerInv'
    <3>1. device = "probe" /\ users' = users /\ leaked' = leaked /\ held \subseteq held'
      BY <2>1 DEF ProbeSkip, ProbeIgnore, ProbeTake, ProbeMsi, ProbeNoMemory, Probing
    <3>2. device' \in {"probe", "bound", "unbound"}
      BY <2>1 DEF ProbeSkip, ProbeIgnore, ProbeTake, ProbeMsi, ProbeNoMemory, ProbeNext
    <3> QED
      BY <3>1, <3>2, HandlersUntouched
  <2> QED
    BY <1>1, <1>e, <1>f, <1>g, <2>1 DEF Probe
<1>2. CASE Unbind
  <2>1. device = "bound" /\ device' = "remove" /\ UNCHANGED <<users, leaked, held>>
    BY <1>2 DEF Unbind
  <2> QED
    BY <2>1, HandlersUntouched
<1>3. CASE RemoveDeinit
  <2>1. device = "remove" /\ device' = "remove" /\ UNCHANGED <<users, leaked, held>> /\ dpc = 1
    BY <1>3, RemoveTable DEF RemoveDeinit
  <2>2. users \cap {"high", "low", "regproc"} \subseteq held
    BY <2>1, <1>a
  <2> QED
    BY <2>1, <2>2, <1>a DEF HandlerInv
<1>4. ASSUME NEW s, RemoveStep(s) PROVE HandlerInv'
  <2>1. /\ device = "remove" /\ device' = "remove" /\ UNCHANGED <<users, leaked, msi>>
        /\ dpc' = dpc + 1 /\ s = RemoveSteps[dpc]
        /\ users \cap {"high", "low", "regproc"} \subseteq held
        /\ s = "wq" => "work" \notin users
        /\ held' = IF RemoveSkips(s) THEN held
                   ELSE held \ (IF s = "priv" THEN {"priv", "lock"} ELSE {s})
    BY <1>4 DEF RemoveStep, Waited
  <2>2. dpc \in 1..14 /\ dpc' > 1 /\ dpc' - 1 = dpc /\ held \subseteq Takes
    BY <2>1, RemoveTable DEF HeldAtMost
  <2>3. Takes' = Takes
    BY <2>1, TakesNext
  <2>4. users \cap {"high", "low", "regproc"} \subseteq held' \cup {r \in Takes : r = s}
    BY <2>1, <2>2
  <2>5. users' \cap {"high", "low", "regproc"} \subseteq
          held' \cup {r \in Takes' : device' = "remove" /\ dpc' > 1 /\ r = RemoveSteps[dpc' - 1]}
    BY <2>1, <2>2, <2>3, <2>4
  <2>6. "work" \in users' => "wq" \in held'
    BY <2>1, <1>a
  <2> QED
    BY <2>1, <2>5, <2>6, <1>a DEF HandlerInv
<1>5. CASE RemoveEnds
  <2>1. device = "remove" /\ device' = "unbound" /\ dpc = 14 /\ users' = users /\ held' = {}
        /\ leaked' = leaked \cup held
    BY <1>5, RemoveTable DEF RemoveEnds, HeldAtMost
  <2>2. held = {}
    BY <2>1, LeftSets DEF HeldAtMost
  <2>3. users \cap {"high", "low", "regproc"} = {}
    BY <2>1, <2>2, HandlerAt
  <2> QED
    BY <2>1, <2>2, <2>3, <1>a DEF HandlerInv
<1>6. CASE Remove
  BY <1>3, <1>4, <1>5, <1>6 DEF Remove
<1>7. ASSUME NEW u \in UserKinds, Begin(u) PROVE HandlerInv'
  <2>1. /\ UNCHANGED <<device, dpc, held, leaked, msi>> /\ users' = users \cup {u}
        /\ u \in {"high", "low"} => u \in held \cup leaked
        /\ u = "regproc" => u \in held
        /\ u # "work"
    BY <1>7 DEF Begin, MayBegin, dvars
  <2>2. Takes' = Takes
    BY <2>1, TakesNext
  <2> QED
    BY <2>1, <2>2, <1>a DEF HandlerInv
<1>8. ASSUME NEW u \in UserKinds, End(u) PROVE HandlerInv'
  <2>1. /\ UNCHANGED <<device, dpc, held, leaked, msi>> /\ u \in users
        /\ users' \subseteq users \cup {"work"}
        /\ "work" \in users' => "work" \in users \/ u \in {"high", "low"}
    BY <1>8 DEF End, dvars
  <2>2. Takes' = Takes
    BY <2>1, TakesNext
  <2>3. ASSUME u \in {"high", "low"} PROVE "wq" \in held /\ (device # "remove" => "high" \in held)
    <3>1. device # "undo"
      BY <2>1, <2>3, <1>b
    <3>2. \/ u \in held
          \/ device = "remove" /\ u \in Takes /\ (dpc = 7 \/ dpc = 8)
      BY <2>1, <2>3, HandlerAt
    <3>3. "wq" \in held
      BY <2>3, <3>1, <3>2, GoTogether
    <3>4. device # "remove" => "high" \in held
      BY <2>3, <3>2 DEF HeldAtLeast
    <3> QED
      BY <3>3, <3>4
  <2> QED
    BY <2>1, <2>2, <2>3, <1>a DEF HandlerInv
<1>9. ASSUME device = "unbound", device' = "probe", users' = users, UNCHANGED <<held, leaked, msi>>
      PROVE HandlerInv'
  BY <1>9, HandlersUntouched
<1>10. ASSUME device = "bound", device' = "remove", users' = users, UNCHANGED <<held, leaked, msi>>
      PROVE HandlerInv'
  BY <1>10, HandlersUntouched
<1>11. ASSUME users' = users, UNCHANGED dvars PROVE HandlerInv'
  <2>1. UNCHANGED <<device, dpc, held, leaked, msi>> /\ Takes' = Takes
    BY <1>11, TakesNext DEF dvars
  <2> QED
    BY <1>11, <2>1 DEF HandlerInv
<1>12. ASSUME PNext, ~\E u \in UserKinds : Begin(u) \/ End(u) PROVE users' = users
  BY <1>12 DEF PNext, Load, ModuleInit, ModuleStep, ModuleFail, ModuleUndo, ModuleInitEnds, Plug, Probe,
               ProbeSkip, ProbeTake, ProbeIgnore, ProbeFail, ProbeMsi, ProbeNoMemory, ProbeUndo,
               ProbeFailed, Unbind, Remove, RemoveStep, RemoveDeinit, RemoveEnds, Unload, Exit, ExitStep,
               ExitDriver, ExitEnds, DmaMemory, NetdevCall, Netdev
<1>13. CASE UNCHANGED pvars
  BY <1>11, <1>13 DEF pvars
<1> QED
  BY <1>1, <1>2, <1>6, <1>7, <1>8, <1>9, <1>10, <1>11, <1>12, <1>13, DeviceUntouched

\* If every device that the driver binds to is one that xp_pci_probe recognises,
\* if no probe fails after the interrupts were requested, and if user space uses
\* neither a device that is being probed nor one that is being removed, then
\* everybody who uses the structure of the device or the work queue finds them,
\* however many threads, files, handlers and readers there are and whichever
\* other steps fail.
THEOREM UsersFindTheDevice ==
  ASSUME Env = {}, DevId \in Recognised,
         PMayFail \cap {"wq", "node", "bar", "iomap", "cdev", "devid"} = {}
  PROVE  PSpec => []UsersSafe
<1>1. PInit => CallTypes /\ CallInv /\ HandlerInv
  <2> SUFFICES ASSUME PInit PROVE CallTypes /\ CallInv /\ HandlerInv
    OBVIOUS
  <2>1. /\ pc = [t \in Threads |-> "idle"] /\ op = [t \in Threads |-> "none"]
        /\ device = "unbound" /\ module = "out" /\ users = {} /\ held = {} /\ leaked = {}
    BY DEF PInit, Init
  <2>2. CallTypes
    BY <2>1 DEF CallTypes, Labels, Before
  <2>3. CallInv
    BY <2>1, RmAssumption DEF CallInv
  <2>4. HandlerInv
    BY <2>1 DEF HandlerInv
  <2> QED
    BY <2>2, <2>3, <2>4
<1>2. ModuleInv /\ HeldAtMost /\ HeldAtLeast /\ CallTypes /\ CallInv /\ HandlerInv /\ [PNext]_pvars
        => (CallTypes /\ CallInv /\ HandlerInv)'
  BY CallTypesKept, CallKept, HandlerKept
<1>3. ModuleInv /\ HeldAtMost /\ HeldAtLeast /\ CallInv /\ HandlerInv => UsersSafe
  <2> SUFFICES ASSUME ModuleInv, HeldAtMost, HeldAtLeast, CallInv, HandlerInv PROVE UsersSafe
    OBVIOUS
  <2>1. "file" \in users => "priv" \in held
    BY GoTogether DEF CallInv
  <2>2. ASSUME NEW u \in users \cap {"high", "low", "regproc"}
        PROVE "priv" \in held /\ (u # "regproc" => "wq" \in held)
    <3>1. device # "undo"
      BY <2>2 DEF HandlerInv
    <3>2. \/ u \in held
          \/ /\ device = "remove" /\ u \in Takes /\ dpc \in {7, 8, 11}
             /\ u # "regproc" => dpc \in {7, 8}
      BY HandlerAt
    <3> QED
      BY <3>1, <3>2, GoTogether
  <2>3. "work" \in users => "priv" \in held /\ "wq" \in held
    <3> SUFFICES ASSUME "work" \in users PROVE "priv" \in held /\ "wq" \in held
      OBVIOUS
    <3>1. "wq" \in held /\ device # "undo"
      BY DEF HandlerInv
    <3> QED
      BY <3>1, GoTogether
  <2>4. ASSUME NEW t \in Threads, pc[t] \notin {"idle", "remove"} PROVE "priv" \in held
    <3>1. device = "bound" \/ (device = "remove" /\ dpc = 2)
      BY <2>4, RmAssumption DEF CallInv
    <3> QED
      BY <3>1, GoTogether
  <2>5. device = "probe" => "dma_priv" \in mods
    <3> SUFFICES ASSUME device = "probe" PROVE "dma_priv" \in mods
      OBVIOUS
    <3>1. module \in {"init", "live"} /\ "driver" \in mods
      BY DEF CallInv, ModuleInv
    <3>2. mods = ModuleTaken(8)
      BY <3>1, ModuleTable, ModuleSets DEF ModuleInv
    <3> QED
      BY <3>2, ModuleSets
  <2> QED
    BY <2>1, <2>2, <2>3, <2>4, <2>5 DEF UsersSafe
<1>4. PSpec => []HeldAtLeast
  BY AtLeastInvariant
<1> QED
  BY <1>1, <1>2, <1>3, <1>4, TablesInvariant, PTL DEF PSpec

----------------------------------------------------------------------------
(* The net device mode of the device.                                      *)

\* The removal calls into the net device mode only when nobody else does.
LEMMA OneCallAtATime ==
  ASSUME CallInv, OneCaller PROVE OneCall
<1>1. ASSUME NEW t \in Threads \ {Rm}, pc[t] # "idle" PROVE pc[Rm] = "idle"
  <2>1. device = "bound" /\ module \in {"init", "live"}
    BY <1>1 DEF CallInv
  <2> QED
    BY <2>1 DEF CallInv
<1> QED
  BY <1>1 DEF OneCall, OneCaller

\* While the mode is off, nobody uses it.
LEMMA OffStays ==
  ASSUME Off, UserInv PROVE ~Users
<1>1. ~nlbusy
  BY DEF Off, UserInv, RequestInv
<1> QED
  BY <1>1 DEF Off, Users, WorkRun, WorkPacket, WorkEnd, NlBegin, NlEnd, ProcBegin, ProcEnd

\* When xp_netdev_deinit returns there is no structure.
LEMMA DeinitEndsOff ==
  ASSUME TypeOK, LifeInv, NEW t \in Threads, op[t] = "deinit", Thread(t), pc'[t] = "idle"
  PROVE  xpnet' = None
<1>1. pc[t] = "deinit" \/ pc[t] \in Takedown
  <2>1. pc[t] \notin {"idle", "remove"}
    BY ThreadGoesOn DEF TypeOK, CallTypes
  <2>2. Idle(t) \/ On(t) \/ Part(t)
    BY <2>1 DEF LifeInv
  <2> QED
    BY <2>2 DEF Idle, On, Part, Calm
<1>2. ~InitStep(t) /\ ~SendStep(t)
  BY <1>1 DEF InitStep, SendStep, InitAlready, InitBegin, InitNoMemory, InitAlloc, InitTrap, InitNetlink,
              InitClient, InitWork, UndoNetlink, UndoTrap, Teardown, SendError, SendBegin, SendEnd,
              Takedown, ModeDown
<1>3. CASE DeinitNothing(t)
  BY <1>3 DEF DeinitNothing, core
<1>4. CASE FreePriv(t)
  BY <1>4 DEF FreePriv
<1>5. CASE DeinitBegin(t) \/ ModeTrap(t) \/ ModeNetlink(t) \/ ModeNetdevs(t) \/ ModeClient(t)
           \/ Cancel(t) \/ Free(t)
  <2>1. pc'[t] # "idle"
    BY <1>5 DEF DeinitBegin, ModeTrap, ModeNetlink, ModeNetdevs, ModeClient, Cancel, Free, Goto, TypeOK
  <2> QED
    BY <2>1
<1>6. CASE RemoveProc(t)
  BY <1>6 DEF RemoveProc, thread
<1> QED
  BY <1>2, <1>3, <1>4, <1>5, <1>6 DEF Thread, DeinitStep

\* The driver core changes where the thread of the removal is, and nothing else.
LEMMA RemovalKeeps ==
  ASSUME TypeOK, LifeInv, UserInv, CallInv, NEW l \in {"idle", "remove", "deinit"},
         pc' = [pc EXCEPT ![Rm] = l], UNCHANGED <<mode, core, procs, net_priv, nlbusy>>,
         \A t \in Threads \ {Rm} : pc[t] = "idle",
         op' = [op EXCEPT ![Rm] = IF l = "deinit" THEN "deinit" ELSE "none"],
         pc[Rm] \in {"idle", "remove"}, Quiet => Still
  PROVE  TypeOK' /\ LifeInv' /\ UserInv'
<1>a. Rm \in Threads /\ pc \in [Threads -> Labels]
      /\ op \in [Threads -> {"none", "init", "deinit", "send"}]
  BY RmAssumption DEF TypeOK
<1>b. pc'[Rm] = l /\ op'[Rm] = (IF l = "deinit" THEN "deinit" ELSE "none")
      /\ \A t \in Threads \ {Rm} : pc'[t] = "idle"
  BY <1>a
<1>1. Off \/ \E n \in Privs : Holds("on", n, TRUE)
  <2>1. CASE pc[Rm] = "idle"
    BY <2>1 DEF LifeInv, NoCall
  <2>2. CASE pc[Rm] = "remove"
    <3>1. Idle(Rm) \/ On(Rm) \/ Part(Rm)
      BY <1>a, <2>2 DEF LifeInv
    <3>2. ~Part(Rm)
      BY <2>2 DEF Part, Takedown, Setup, ModeDown
    <3> QED
      BY <3>1, <3>2 DEF Idle, On
  <2> QED
    BY <2>1, <2>2
<1>2. Off' \/ \E n \in Privs : Holds("on", n, TRUE)'
  BY <1>1, SameState
<1>3. TypeOK'
  <2>1. pc' \in [Threads -> Labels]
    BY <1>a DEF Labels, Before
  <2>2. op' \in [Threads -> {"none", "init", "deinit", "send"}]
    BY <1>a
  <2> QED
    BY <2>1, <2>2 DEF TypeOK, mode, core, procs
<1>4. LifeInv'
  <2>1. Calm(Rm)'
    BY <1>b DEF Calm
  <2>2. (pc[Rm] \in Before)'
    BY <1>b DEF Before
  <2>3. Off' => Idle(Rm)'
    BY <2>1, <2>2 DEF Idle
  <2>4. (\E n \in Privs : Holds("on", n, TRUE)') => On(Rm)'
    BY <2>1, <2>2 DEF On
  <2>5. Idle(Rm)' \/ On(Rm)'
    BY <1>2, <2>3, <2>4
  <2> QED
    BY <1>2, <1>b, <2>5 DEF LifeInv
<1>5. UserInv'
  <2>1. Still => Still'
    BY DEF Still, core, procs
  <2> QED
    BY <2>1 DEF UserInv, QuietInv, RequestInv, mode
<1> QED
  BY <1>3, <1>4, <1>5

\* The net device mode keeps its invariants, and is off outside its use by a
\* bound device.
LEMMA ModeKept ==
  ASSUME Bindable, Env = {}, ModuleInv, HeldAtMost, CallInv, OneCaller, CallInv', OneCaller',
         TypeOK, LifeInv, UserInv, ModeInv, [PNext]_pvars
  PROVE  TypeOK' /\ LifeInv' /\ UserInv' /\ ModeInv'
<1>a. OneCall /\ OneCall'
  <2>1. (CallInv /\ OneCaller => OneCall)'
    BY OneCallAtATime, PTL
  <2> QED
    BY <2>1, OneCallAtATime
<1>b. ASSUME [Next]_vars PROVE TypeOK' /\ LifeInv' /\ UserInv'
  BY <1>a, <1>b, TypeStep, LifeStep, UserStep
<1>c. ASSUME UNCHANGED vars,
             device' \notin {"bound", "remove"} => Off,
             device' = "remove" /\ dpc' > 1 /\ pc[Rm] = "idle" => Off
      PROVE TypeOK' /\ LifeInv' /\ UserInv' /\ ModeInv'
  <2>1. pc' = pc /\ (Off => Off')
    BY <1>c, SameState DEF vars, thread
  <2> QED
    BY <1>b, <1>c, <2>1 DEF ModeInv
<1>d. /\ device \notin {"bound", "remove"} => Off
      /\ device = "remove" /\ dpc > 1 /\ pc[Rm] = "idle" => Off
  BY DEF ModeInv
<1>e. pc \in [Threads -> Labels] /\ op \in [Threads -> {"none", "init", "deinit", "send"}]
      /\ Rm \in Threads
  BY RmAssumption DEF TypeOK
<1>f. CallTypes
  BY <1>e DEF CallTypes
<1>1. CASE Load \/ ModuleInit
  <2>1. UNCHANGED vars
    BY <1>1 DEF Load, ModuleInit, ModuleStep, ModuleFail, ModuleUndo, ModuleInitEnds
  <2>2. UNCHANGED <<device, dpc>> \/ (device = "unbound" /\ device' = "probe")
    <3>1. ASSUME ModuleStep PROVE UNCHANGED <<device, dpc>> \/ (device = "unbound" /\ device' = "probe")
      <4>1. mpc \in 1..8 /\ mods = ModuleTaken(mpc - 1)
        BY <3>1, ModuleTable DEF ModuleStep, ModuleInv
      <4>2. device = "unbound"
        BY <4>1, ModuleSets DEF ModuleInv
      <4> QED
        BY <3>1, <4>2 DEF ModuleStep
    <3> QED
      BY <1>1, <3>1 DEF Load, ModuleInit, ModuleFail, ModuleUndo, ModuleInitEnds, dvars
  <2> QED
    BY <2>1, <2>2, <1>c, <1>d
<1>2. CASE Plug
  BY <1>2, <1>c, <1>d DEF Plug
<1>3. CASE Probe
  <2>1. device \in {"probe", "undo", "undo_rc0"} /\ device' # "remove"
    BY <1>3 DEF Probe, ProbeSkip, ProbeTake, ProbeIgnore, ProbeFail, ProbeMsi, ProbeNoMemory, ProbeUndo,
              ProbeFailed, Probing, ProbeNext
  <2>2. Off
    BY <2>1, <1>d
  <2>3. UNCHANGED vars
    <3>1. ASSUME NEW s, ProbeTake(s) PROVE UNCHANGED vars
      BY <2>2, <3>1 DEF ProbeTake, Off, vars, core
    <3> QED
      BY <1>3, <3>1 DEF Probe, ProbeSkip, ProbeIgnore, ProbeFail, ProbeMsi, ProbeNoMemory, ProbeUndo,
                ProbeFailed
  <2> QED
    BY <2>1, <2>2, <2>3, <1>c
<1>4. ASSUME Unbind \/ Unload PROVE TypeOK' /\ LifeInv' /\ UserInv' /\ ModeInv'
  <2>1. /\ pc' = [pc EXCEPT ![Rm] = "remove"] /\ op' = op /\ pc[Rm] = "idle"
        /\ UNCHANGED <<mode, core, procs, net_priv, nlbusy>> /\ (Quiet => Still)
        /\ users \cap {"file", "client"} = {} /\ device # "remove"
    BY <1>4 DEF Unbind, Unload, Goto, NoUsers
  <2>2. op' = [op EXCEPT ![Rm] = "none"]
    <3>1. op[Rm] = "none"
      BY <2>1 DEF CallInv
    <3> QED
      BY <2>1, <3>1, <1>e
  <2>3. \A t \in Threads \ {Rm} : pc[t] = "idle"
    BY <2>1 DEF CallInv
  <2>4. TypeOK' /\ LifeInv' /\ UserInv'
    BY <2>1, <2>2, <2>3, RemovalKeeps
  <2>5. pc'[Rm] = "remove"
    BY <2>1, <1>e
  <2>6. Off => Off'
    BY <2>1, SameState
  <2>7. device' = device \/ device' = "remove"
    BY <1>4 DEF Unbind, Unload, dvars
  <2>8. ModeInv'
    BY <2>1, <2>5, <2>6, <2>7, <1>d DEF ModeInv
  <2> QED
    BY <2>4, <2>8
<1>5. CASE RemoveDeinit
  <2>1. /\ pc' = [pc EXCEPT ![Rm] = "deinit"] /\ op' = [op EXCEPT ![Rm] = "deinit"]
        /\ UNCHANGED <<mode, core, procs, net_priv, nlbusy>> /\ device = "remove" /\ device' = "remove"
        /\ dpc = 1
    BY <1>5, RemoveTable DEF RemoveDeinit, Goto
  <2>2. pc[Rm] = "remove" /\ \A t \in Threads \ {Rm} : pc[t] = "idle"
    BY <2>1 DEF CallInv
  <2>3. Quiet => Still
    BY <2>2, <1>e DEF UserInv, QuietInv, NoCall
  <2>4. TypeOK' /\ LifeInv' /\ UserInv'
    BY <2>1, <2>2, <2>3, RemovalKeeps
  <2>5. pc'[Rm] = "deinit"
    BY <2>1, <1>e
  <2>6. ModeInv'
    BY <2>1, <2>5 DEF ModeInv
  <2> QED
    BY <2>4, <2>6
<1>6. ASSUME NEW s, RemoveStep(s) PROVE TypeOK' /\ LifeInv' /\ UserInv' /\ ModeInv'
  <2>1. UNCHANGED <<vars, device>> /\ device = "remove" /\ s = RemoveSteps[dpc] /\ s # "deinit"
        /\ pc[Rm] = "idle"
    BY <1>6 DEF RemoveStep
  <2>2. dpc \in 1..14 /\ dpc # 1
    BY <2>1, RemoveTable DEF HeldAtMost
  <2>3. Off
    BY <2>1, <2>2, <1>d
  <2> QED
    BY <2>1, <2>3, <1>c
<1>7. CASE RemoveEnds
  <2>1. UNCHANGED vars /\ device = "remove" /\ device' = "unbound" /\ dpc = 14
    BY <1>7, RemoveTable DEF RemoveEnds, HeldAtMost
  <2>2. pc[Rm] = "idle"
    BY <2>1 DEF CallInv
  <2> QED
    BY <2>1, <2>2, <1>c, <1>d
<1>8. ASSUME NEW s, ExitStep(s) \/ Begin(s) \/ End(s) \/ DmaMemory
      PROVE TypeOK' /\ LifeInv' /\ UserInv' /\ ModeInv'
  BY <1>8, <1>c, <1>d DEF ExitStep, Begin, End, DmaMemory, dvars
<1>9. CASE ExitDriver
  <2>1. UNCHANGED vars /\ (UNCHANGED <<device, dpc>> \/ (device' = "remove" /\ dpc' = 1))
    BY <1>9 DEF ExitDriver
  <2> QED
    BY <2>1, <1>c, <1>d
<1>10. CASE ExitEnds
  <2>1. /\ pc' = [pc EXCEPT ![Rm] = "idle"] /\ op' = op
        /\ UNCHANGED <<mode, core, procs, net_priv, nlbusy, device>>
        /\ module = "exit" /\ mpc > 9
    BY <1>10, ExitTable DEF ExitEnds, Goto, dvars
  <2>2. device = "unbound"
    BY <2>1, ExitTable, ModuleSets DEF ModuleInv
  <2>3. Off
    BY <2>2, <1>d
  <2>4. pc[Rm] \in {"idle", "remove"} /\ \A t \in Threads \ {Rm} : pc[t] = "idle"
    BY <2>2 DEF CallInv
  <2>5. op' = [op EXCEPT ![Rm] = "none"]
    <3>1. op[Rm] = "none"
      BY <2>4 DEF CallInv
    <3> QED
      BY <2>1, <3>1, <1>e
  <2>6. Still
    BY <2>3, UsesOf DEF Off, Still, UserInv, RequestInv
  <2>7. TypeOK' /\ LifeInv' /\ UserInv'
    BY <2>1, <2>4, <2>5, <2>6, RemovalKeeps
  <2>8. Off'
    BY <2>1, <2>3, SameState
  <2> QED
    BY <2>7, <2>8 DEF ModeInv
<1>11. ASSUME NEW t \in Threads, NetdevCall(t) PROVE TypeOK' /\ LifeInv' /\ UserInv' /\ ModeInv'
  <2>1. PICK o \in {"init", "deinit", "send"} : Call(t, o)
    BY <1>11 DEF NetdevCall
  <2>2. Next
    BY <2>1 DEF Next
  <2>3. t # Rm /\ UNCHANGED <<device, dpc>>
    BY <1>11 DEF NetdevCall, dvars
  <2>4. pc'[Rm] = pc[Rm] /\ (Off => Off')
    BY <2>1, <2>3, <1>e, SameState DEF Call, Goto
  <2>5. ModeInv'
    BY <2>3, <2>4, <1>d DEF ModeInv
  <2> QED
    BY <2>2, <2>5, <1>b
<1>12. ASSUME NEW t \in Threads, Thread(t), Netdev PROVE TypeOK' /\ LifeInv' /\ UserInv' /\ ModeInv'
  <2>1. Next
    BY <1>12 DEF Next
  <2>2. TypeOK' /\ LifeInv' /\ UserInv'
    BY <2>1, <1>b
  <2>3. UNCHANGED <<device, dpc>>
    BY <1>12 DEF Netdev, dvars
  <2>4. pc[t] \notin {"idle", "remove"}
    BY <1>12, <1>f, ThreadGoesOn
  <2>5. device = "bound" \/ (device = "remove" /\ t = Rm /\ op[Rm] = "deinit")
    BY <2>4, <1>e DEF CallInv
  <2>6. ASSUME device = "remove", pc'[Rm] = "idle" PROVE Off'
    <3>1. t = Rm /\ op[t] = "deinit"
      BY <2>5, <2>6
    <3>2. xpnet' = None
      BY <1>12, <2>6, <3>1, DeinitEndsOff
    <3>3. NoCall'
      <4>1. \A s \in Threads \ {Rm} : pc'[s] = "idle"
        BY <2>3, <2>6 DEF CallInv
      <4> QED
        BY <2>6, <4>1 DEF NoCall
    <3>4. Off' \/ \E n \in Privs : Holds("on", n, TRUE)'
      BY <2>2, <3>3 DEF LifeInv
    <3> QED
      BY <3>2, <3>4, NoneAssumption DEF Holds
  <2>7. ModeInv'
    BY <2>3, <2>5, <2>6 DEF ModeInv
  <2> QED
    BY <2>2, <2>7
<1>13. CASE Users /\ Netdev
  <2>1. ~Off
    BY <1>13, OffStays
  <2>2. UNCHANGED <<device, dpc, thread>>
    BY <1>13 DEF Netdev, dvars, Users, WorkRun, WorkPacket, WorkEnd, NlBegin, NlEnd, ProcBegin, ProcEnd
  <2>3. ModeInv'
    BY <2>1, <2>2, <1>d DEF ModeInv, thread
  <2>4. Next
    BY <1>13 DEF Next
  <2> QED
    BY <2>3, <2>4, <1>b
<1>14. CASE UNCHANGED pvars
  BY <1>14, <1>c, <1>d DEF pvars, dvars
<1> QED
  BY <1>1, <1>2, <1>3, <1>4, <1>5, <1>6, <1>7, <1>8, <1>9, <1>10, <1>11, <1>12, <1>13, <1>14
  DEF PNext, Remove, Exit, Netdev

\* If user space uses neither a device that is being probed nor one that is being
\* removed and makes one call at a time, the net device mode keeps its invariants
\* under the probe, the removal and the module.
LEMMA ModeInvariant ==
  ASSUME Bindable, Env = {}
  PROVE  PSpec /\ []OneCaller => [](TypeOK /\ LifeInv /\ UserInv /\ ModeInv /\ OneCall)
<1>1. PInit => CallTypes /\ CallInv /\ TypeOK /\ LifeInv /\ UserInv /\ ModeInv
  <2> SUFFICES ASSUME PInit PROVE CallTypes /\ CallInv /\ TypeOK /\ LifeInv /\ UserInv /\ ModeInv
    OBVIOUS
  <2>1. Init /\ device = "unbound" /\ module = "out" /\ users = {}
    BY DEF PInit
  <2>2. TypeOK /\ LifeInv /\ UserInv
    BY <2>1, InvariantAtInit
  <2>3. Off /\ pc = [t \in Threads |-> "idle"] /\ op = [t \in Threads |-> "none"]
    BY <2>1 DEF Init, Off
  <2>4. CallInv /\ ModeInv
    BY <2>1, <2>3, RmAssumption DEF CallInv, ModeInv
  <2>5. CallTypes
    BY <2>2 DEF TypeOK, CallTypes
  <2> QED
    BY <2>2, <2>4, <2>5
<1>2. ModuleInv /\ HeldAtMost /\ CallTypes /\ CallInv /\ [PNext]_pvars => (CallTypes /\ CallInv)'
  BY CallTypesKept, CallKept
<1>3. ModuleInv /\ HeldAtMost /\ CallInv /\ CallInv' /\ OneCaller /\ OneCaller' /\ TypeOK /\ LifeInv
        /\ UserInv /\ ModeInv /\ [PNext]_pvars => (TypeOK /\ LifeInv /\ UserInv /\ ModeInv)'
  BY ModeKept
<1>4. CallInv /\ OneCaller => OneCall
  BY OneCallAtATime
<1> QED
  BY <1>1, <1>2, <1>3, <1>4, TablesInvariant, PTL DEF PSpec

\* When the module is out, or loaded without its driver, it holds nothing, and
\* neither do its DMA memory device, the net device mode and a removed device,
\* whichever steps of module init, of the probe and of xp_netdev_init failed.
THEOREM ModuleGivesAllBack ==
  ASSUME Bindable, Env = {} PROVE PSpec /\ []OneCaller => []AllReleased
<1>1. ModuleInv /\ MemoryInv /\ HeldAtMost /\ ModeInv => AllReleased
  <2> SUFFICES ASSUME ModuleInv, MemoryInv, HeldAtMost, ModeInv, module \in {"out", "dead"}
               PROVE  mods = {} /\ ~dmamem /\ held = {} /\ xpnet = None /\ alive = {}
    BY DEF AllReleased
  <2>1. mods = {} /\ ~dmamem
    BY DEF ModuleInv, MemoryInv
  <2>2. device = "unbound"
    BY <2>1 DEF ModuleInv
  <2> QED
    BY <2>1, <2>2 DEF HeldAtMost, ModeInv, Off
<1>2. PSpec /\ []OneCaller => [](TypeOK /\ LifeInv /\ UserInv /\ ModeInv /\ OneCall)
  BY ModeInvariant
<1> QED
  BY <1>1, <1>2, TablesInvariant, PTL

\* Under the driver too, and with requests, packets and readers at any time,
\* when no call is in progress and the mode is off nothing of it is held, and its
\* structure, rings and work queue are there as long as their users: the removal
\* of the device takes the mode down by the same steps as DEINIT_NETDEV.
THEOREM ModeIsSafeInTheDriver ==
  ASSUME Bindable, Env = {} PROVE PSpec /\ []OneCaller => [](Released /\ UsersProtected)
<1>1. TypeOK /\ LifeInv /\ OneCall => Released /\ UsersProtected
  BY InvariantReleases, InvariantProtects
<1>2. PSpec /\ []OneCaller => [](TypeOK /\ LifeInv /\ UserInv /\ ModeInv /\ OneCall)
  BY ModeInvariant
<1> QED
  BY <1>1, <1>2, PTL

=============================================================================
