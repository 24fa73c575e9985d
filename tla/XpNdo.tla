-------------------------------- MODULE XpNdo --------------------------------
(***************************************************************************)
(* Transmission through a net device of the xpnet driver                   *)
(* (xpnet/src/xp_netdev_intf.c, the net_device_ops): xp_ndo_open,          *)
(* xp_ndo_stop, xp_ndo_start_xmit, and the netlink handler that sets the   *)
(* TX header; and xp_packet_send, the callback of the client socket.       *)
(*                                                                         *)
(* xp_ndo_start_xmit puts the TX header in front of the frame, in a copy   *)
(* if the skb has no room for it, and calls xpnet_start_xmit, which        *)
(* returns OK and frees the skb it was given or returns BUSY and keeps     *)
(* away from it (module XpnetTx).  The kernel is external: it calls        *)
(* ndo_start_xmit for one skb of a device at a time while the device's     *)
(* queue is not stopped, keeps a refused skb to send it again, and drops   *)
(* what it has queued when the device is closed.                           *)
(***************************************************************************)
EXTENDS Naturals, FiniteSets

CONSTANTS Devs,      \* net devices
          Headers,   \* TX headers user space sets
          NoHeader,  \* the zeroed header of a device without one
          MaxDatagrams, \* bound on the datagrams waiting at the client socket
          None

ASSUME MaxDatagramsAssumption == MaxDatagrams \in Nat
ASSUME HeadersAssumption == NoHeader \notin Headers

VARIABLES
  up,         \* IFF_UP, per device
  stopped,    \* the device's transmit queue is stopped
  tx_header,  \* priv->tx_header
  queued,     \* the skb the kernel holds for the device, or None
  pc,         \* where the device's xp_ndo_start_xmit is
  copy,       \* new_skb, or None
  refused,    \* history: the skb queued was refused with NETDEV_TX_BUSY
  receive_queue, \* skbs in the receive queue of the client socket
  sending,    \* the callback holds an skb
  unsent      \* history: an skb of the socket was neither sent nor freed

socket == <<receive_queue, sending, unsent>>
vars == <<up, stopped, tx_header, queued, pc, copy, refused, socket>>

\* An skb is the sequence of headers in front of the frame and whether there
\* is room for one more: at most two are ever pushed.
Skb == [hdrs : UNION {[1 .. n -> Headers \cup {NoHeader}] : n \in 0 .. 2},
        room : BOOLEAN]

ASSUME NoneAssumption == None \notin Skb

Push(skb, h) == [skb EXCEPT !.hdrs = [n \in 1 .. Cardinality(DOMAIN @) + 1 |->
                                        IF n = 1 THEN h ELSE @[n - 1]]]

----------------------------------------------------------------------------

Init ==
  /\ up = [x \in Devs |-> FALSE]
  /\ stopped = [x \in Devs |-> FALSE]
  /\ tx_header = [x \in Devs |-> NoHeader]
  /\ queued = [x \in Devs |-> None]
  /\ pc = [x \in Devs |-> "idle"]
  /\ copy = [x \in Devs |-> None]
  /\ refused = [x \in Devs |-> FALSE]
  /\ receive_queue = 0
  /\ sending = FALSE
  /\ unsent = FALSE

\* xp_ndo_open: netif_start_queue.
xp_ndo_open(x) ==
  /\ ~up[x]
  /\ up' = [up EXCEPT ![x] = TRUE]
  /\ stopped' = [stopped EXCEPT ![x] = FALSE]
  /\ UNCHANGED <<tx_header, queued, pc, copy, refused, socket>>

\* xp_ndo_stop: netif_stop_queue; the kernel waits for a running xmit and
\* drops what is queued before it calls it.
xp_ndo_stop(x) ==
  /\ up[x]
  /\ pc[x] = "idle"
  /\ up' = [up EXCEPT ![x] = FALSE]
  /\ stopped' = [stopped EXCEPT ![x] = TRUE]
  /\ queued' = [queued EXCEPT ![x] = None]
  /\ refused' = [refused EXCEPT ![x] = FALSE]
  /\ UNCHANGED <<tx_header, pc, copy, socket>>

\* xp_nl_msg_tx_header, which also removes the header.
xp_nl_msg_tx_header(x, h) ==
  /\ tx_header' = [tx_header EXCEPT ![x] = h]
  /\ UNCHANGED <<up, stopped, queued, pc, copy, refused, socket>>

\* The kernel has a frame for the device.
Submit(x, room) ==
  /\ queued[x] = None
  /\ queued' = [queued EXCEPT ![x] = [hdrs |-> <<>>, room |-> room]]
  /\ UNCHANGED <<up, stopped, tx_header, pc, copy, refused, socket>>

\* The kernel calls ndo_start_xmit.
CallXmit(x) == pc[x] = "idle" /\ queued[x] # None /\ ~stopped[x]

\* The device is not up: the skb is freed.
XmitDown(x) ==
  /\ CallXmit(x)
  /\ ~up[x]
  /\ queued' = [queued EXCEPT ![x] = None]
  /\ refused' = [refused EXCEPT ![x] = FALSE]
  /\ UNCHANGED <<up, stopped, tx_header, pc, copy, socket>>

\* Up to the call of xpnet_start_xmit.  (Memory for a copy is taken to be
\* there: the code does not look at the result of skb_copy_expand.)
XmitPush(x) ==
  /\ CallXmit(x)
  /\ up[x]
  /\ IF queued[x].room
     THEN queued' = [queued EXCEPT ![x] = Push(@, tx_header[x])] /\ UNCHANGED copy
     ELSE copy' = [copy EXCEPT ![x] = Push(queued[x], tx_header[x])] /\ UNCHANGED queued
  /\ pc' = [pc EXCEPT ![x] = "xmit"]
  /\ UNCHANGED <<up, stopped, tx_header, refused, socket>>

\* xpnet_start_xmit returned NETDEV_TX_OK: it freed the skb it was given, and
\* the original of a copy is freed here.
XmitOk(x) ==
  /\ pc[x] = "xmit"
  /\ queued' = [queued EXCEPT ![x] = None]
  /\ copy' = [copy EXCEPT ![x] = None]
  /\ refused' = [refused EXCEPT ![x] = FALSE]
  /\ pc' = [pc EXCEPT ![x] = "idle"]
  /\ UNCHANGED <<up, stopped, tx_header, socket>>

\* Faulty variant: the queue of the device is not stopped.
Fault_BusyKeepsQueue(x) ==
  /\ pc[x] = "xmit"
  /\ copy' = [copy EXCEPT ![x] = None]
  /\ refused' = [refused EXCEPT ![x] = TRUE]
  /\ pc' = [pc EXCEPT ![x] = "idle"]
  /\ UNCHANGED <<up, stopped, tx_header, queued, socket>>

\* xpnet_start_xmit returned NETDEV_TX_BUSY: the copy is freed, the skb stays
\* the kernel's, and the device's queue is stopped.
XmitBusy(x) ==
  /\ pc[x] = "xmit"
  /\ copy' = [copy EXCEPT ![x] = None]
  /\ refused' = [refused EXCEPT ![x] = TRUE]
  /\ stopped' = [stopped EXCEPT ![x] = TRUE]
  /\ pc' = [pc EXCEPT ![x] = "idle"]
  /\ UNCHANGED <<up, tx_header, queued, socket>>

----------------------------------------------------------------------------
(* xp_packet_send of the client socket.                                    *)

\* A datagram arrives.
Datagram ==
  /\ receive_queue < MaxDatagrams
  /\ receive_queue' = receive_queue + 1
  /\ UNCHANGED <<up, stopped, tx_header, queued, pc, copy, refused, sending, unsent>>

\* The callback takes it, and leaves the UDP header out: it goes to the DMA
\* queue with the TX header that user space has put into it.
SendTake ==
  /\ ~sending
  /\ receive_queue > 0
  /\ receive_queue' = receive_queue - 1
  /\ sending' = TRUE
  /\ UNCHANGED <<up, stopped, tx_header, queued, pc, copy, refused, unsent>>

\* xpnet_start_xmit has freed the skb or returned NETDEV_TX_BUSY, which is
\* only logged.
SendDone ==
  /\ sending
  /\ sending' = FALSE
  /\ unsent' \in {unsent, TRUE}
  /\ UNCHANGED <<up, stopped, tx_header, queued, pc, copy, refused, receive_queue>>

----------------------------------------------------------------------------

Xmit(x) == XmitDown(x) \/ XmitPush(x) \/ XmitOk(x) \/ XmitBusy(x)

Next ==
  \/ \E x \in Devs :
       \/ xp_ndo_open(x) \/ xp_ndo_stop(x)
       \/ \E h \in Headers \cup {NoHeader} : xp_nl_msg_tx_header(x, h)
       \/ \E room \in BOOLEAN : Submit(x, room)
       \/ Xmit(x)
  \/ Datagram \/ SendTake \/ SendDone

Spec == Init /\ [][Next]_vars

\* The kernel transmits what is queued whenever the queue lets it, and a
\* frame offered again and again is accepted some time: a busy DMA queue
\* becomes free.
FairSpec == Spec /\ \A x \in Devs : WF_vars(Xmit(x)) /\ SF_vars(XmitOk(x))

----------------------------------------------------------------------------
(* Properties.                                                             *)

\* Devices, skbs and headers stay in their ranges.
TypeOK ==
  /\ up \in [Devs -> BOOLEAN]
  /\ stopped \in [Devs -> BOOLEAN]
  /\ tx_header \in [Devs -> Headers \cup {NoHeader}]
  /\ queued \in [Devs -> Skb \cup {None}]
  /\ pc \in [Devs -> {"idle", "xmit"}]
  /\ copy \in [Devs -> Skb \cup {None}]
  /\ refused \in [Devs -> BOOLEAN]
  /\ receive_queue \in 0 .. MaxDatagrams
  /\ sending \in BOOLEAN
  /\ unsent \in BOOLEAN

\* The skb that xpnet_start_xmit is given.
Given(x) == IF copy[x] # None THEN copy[x] ELSE queued[x]

\* A frame reaches the DMA queue with exactly one TX header, although the
\* header is pushed on the kernel's own skb and the kernel keeps that skb when
\* the queue is busy.
OneHeader == \A x \in Devs : pc[x] = "xmit" => DOMAIN Given(x).hdrs = {1}

\* A copy made for the header lives no longer than the call: it is freed on
\* every path, and the skb it was made from is left without a header.
CopyFreed ==
  \A x \in Devs : /\ copy[x] # None => pc[x] = "xmit"
                  /\ copy[x] # None => queued[x] # None /\ queued[x].hdrs = <<>>

\* Inductive strengthening of the two: outside xp_ndo_start_xmit there is no
\* copy, and an skb that kept its header after BUSY belongs to a device that is
\* up and whose queue is stopped.  Only xp_ndo_open starts a queue, only of a
\* device that is down, and the kernel drops the skb before the device is.
HeaderInv ==
  \A x \in Devs :
    /\ pc[x] = "idle" => /\ copy[x] = None
                         /\ queued[x] # None /\ queued[x].hdrs # <<>>
                              => up[x] /\ stopped[x]
    /\ pc[x] = "xmit" => /\ up[x]
                         /\ queued[x] # None
                         /\ DOMAIN Given(x).hdrs = {1}
                         /\ copy[x] # None => queued[x].hdrs = <<>>

\* "Kernel retries packet after wake queue": an skb refused because the DMA
\* queue was busy is sent (or dropped with the device) in the end.
BusyIsRetried == \A x \in Devs : refused[x] ~> ~refused[x]

\* Every skb the callback takes off the socket is freed in the end, whether the
\* DMA queue had room for it or not.
SocketSkbFreed == ~unsent

=============================================================================
