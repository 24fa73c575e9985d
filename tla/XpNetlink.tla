----------------------------- MODULE XpNetlink ------------------------------
(***************************************************************************)
(* The netlink requests of the xpnet driver (xpnet/src/xp_netdev_intf.c,   *)
(* xp_netlink_rcv and xp_nl_msg_process; formats in                        *)
(* xpnet/include/xp_export.h).                                             *)
(*                                                                         *)
(* A request is a header, with the length of its payload, and any number   *)
(* of messages, each a type and a body of the size the type has.  Every    *)
(* network namespace has a netlink socket, and xp_netlink_mutex serialises *)
(* the requests of all of them.  Memory after the end of a request holds   *)
(* anything, so a message read there may have any type or none.  payload_  *)
(* len is unsigned: its arithmetic is modulo Width.                        *)
(***************************************************************************)
EXTENDS Naturals, Sequences

CONSTANTS Namespaces,   \* network namespaces, one netlink socket each
          Types,        \* types of message in use
          MaxMessages,  \* messages in a request, at most
          MaxHandled,   \* bound on the messages handled for one request
          Width,        \* payload_len wraps at this value (2^32)
          None

VARIABLES
  mutex,        \* holder of xp_netlink_mutex, or None
  request,      \* messages of a namespace's request, with where they start
  nl_pc,        \* where its xp_netlink_rcv is
  offset,       \* local variables of xp_nl_msg_process
  payload_len,
  handled       \* history: the messages handled, with where they were read

nl_vars == <<mutex, request, nl_pc, offset, payload_len, handled>>

HeaderSize == 8   \* sizeof(xp_nl_tlv_msg_t)
TypeSize == 4     \* sizeof(xp_nl_msg_t)

\* Sizes of the message bodies, padding included; UNKNOWN is any type that is
\* none of xp_nl_msg_t.
BodySize ==
  [INTF_ADD |-> 20, INTF_DEL |-> 20, LINK_ADD |-> 8, LINK_DEL |-> 8,
   TX_HDR_SET |-> 32, TRAP_SET |-> 20, CB_FD_SET |-> 8, MIRROR_SET |-> 1,
   UNKNOWN |-> 0]

Size(t) == TypeSize + BodySize[t]

ASSUME TypesAssumption == Types \subseteq DOMAIN BodySize
ASSUME MaxMessagesAssumption == MaxMessages \in Nat
ASSUME WidthAssumption == Width \in Nat /\ Width > 1000
ASSUME NoneAssumption == None \notin Namespaces

Message == [type : Types, at : Nat]

\* Where the message after those of r starts: they follow each other.
EndOf(r) == IF r = <<>> THEN HeaderSize ELSE r[Len(r)].at + Size(r[Len(r)].type)

\* "Len of payload[]".
Length(r) == EndOf(r) - HeaderSize

----------------------------------------------------------------------------

NlInit ==
  /\ mutex = None
  /\ request = [n \in Namespaces |-> <<>>]
  /\ nl_pc = [n \in Namespaces |-> "idle"]
  /\ offset = [n \in Namespaces |-> 0]
  /\ payload_len = [n \in Namespaces |-> 0]
  /\ handled = [n \in Namespaces |-> <<>>]

\* User space adds a message to its next request.
Compose(n, t) ==
  /\ nl_pc[n] = "idle"
  /\ Len(request[n]) < MaxMessages
  /\ request' = [request EXCEPT ![n] = Append(@, [type |-> t, at |-> EndOf(@)])]
  /\ UNCHANGED <<mutex, nl_pc, offset, payload_len, handled>>

\* User space sends the request, even an empty one; xp_netlink_rcv is called.
Send(n) ==
  /\ nl_pc[n] = "idle"
  /\ nl_pc' = [nl_pc EXCEPT ![n] = "lock"]
  /\ UNCHANGED <<mutex, request, offset, payload_len, handled>>

\* Faulty variant: the mutex is not waited for.
Fault_NoMutex(n) ==
  /\ nl_pc[n] = "lock"
  /\ mutex' = n
  /\ offset' = [offset EXCEPT ![n] = HeaderSize]
  /\ payload_len' = [payload_len EXCEPT ![n] = (Length(request[n]) + HeaderSize) % Width]
  /\ nl_pc' = [nl_pc EXCEPT ![n] = "loop"]
  /\ UNCHANGED <<request, handled>>

\* mutex_lock and the start of xp_nl_msg_process: the header is counted.
Lock(n) ==
  /\ nl_pc[n] = "lock"
  /\ mutex = None
  /\ mutex' = n
  /\ offset' = [offset EXCEPT ![n] = HeaderSize]
  /\ payload_len' = [payload_len EXCEPT ![n] = (Length(request[n]) + HeaderSize) % Width]
  /\ nl_pc' = [nl_pc EXCEPT ![n] = "loop"]
  /\ UNCHANGED <<request, handled>>

\* Types the message at an offset may have: that of the message of the
\* request that starts there, and anything elsewhere.
TypesAt(r, off) ==
  IF \E k \in 1 .. Len(r) : r[k].at = off
  THEN {r[k].type : k \in {j \in 1 .. Len(r) : r[j].at = off}}
  ELSE Types

\* Faulty variant: the next message is looked for after the body's size only.
Fault_TypeNotCounted(n) ==
  /\ nl_pc[n] = "loop"
  /\ payload_len[n] # 0
  /\ Len(handled[n]) < MaxHandled
  /\ \E t \in TypesAt(request[n], offset[n]) \ {"UNKNOWN"} :
       /\ handled' = [handled EXCEPT ![n] = Append(@, [type |-> t, at |-> offset[n]])]
       /\ offset' = [offset EXCEPT ![n] = @ + BodySize[t]]
       /\ payload_len' = [payload_len EXCEPT ![n] = (@ + Width - offset'[n]) % Width]
  /\ UNCHANGED <<mutex, request, nl_pc>>

\* Faulty variant: the length stops at zero instead of wrapping.
Fault_Saturates(n) ==
  /\ nl_pc[n] = "loop"
  /\ payload_len[n] # 0
  /\ Len(handled[n]) < MaxHandled
  /\ \E t \in TypesAt(request[n], offset[n]) \ {"UNKNOWN"} :
       /\ handled' = [handled EXCEPT ![n] = Append(@, [type |-> t, at |-> offset[n]])]
       /\ offset' = [offset EXCEPT ![n] = @ + Size(t)]
       /\ payload_len' = [payload_len EXCEPT ![n] = IF @ < offset'[n] THEN 0 ELSE @ - offset'[n]]
  /\ UNCHANGED <<mutex, request, nl_pc>>

\* One message: its handler is called, offset moves past it, and the offset,
\* counted from the start of the request, is subtracted.
Handle(n) ==
  /\ nl_pc[n] = "loop"
  /\ payload_len[n] # 0
  /\ Len(handled[n]) < MaxHandled
  /\ \E t \in TypesAt(request[n], offset[n]) \ {"UNKNOWN"} :
       /\ handled' = [handled EXCEPT ![n] = Append(@, [type |-> t, at |-> offset[n]])]
       /\ offset' = [offset EXCEPT ![n] = @ + Size(t)]
       /\ payload_len' = [payload_len EXCEPT ![n] = (@ + Width - offset'[n]) % Width]
  /\ UNCHANGED <<mutex, request, nl_pc>>

\* default: return -EINVAL.
Invalid(n) ==
  /\ nl_pc[n] = "loop"
  /\ payload_len[n] # 0
  /\ "UNKNOWN" \in TypesAt(request[n], offset[n])
  /\ nl_pc' = [nl_pc EXCEPT ![n] = "unlock"]
  /\ UNCHANGED <<mutex, request, offset, payload_len, handled>>

\* Faulty variant: the handler polls for more when everything was handled.
Fault_PollsForMore(n) ==
  /\ nl_pc[n] = "loop"
  /\ payload_len[n] = 0
  /\ UNCHANGED nl_vars

\* Nothing is left: the loop ends.
EndLoop(n) ==
  /\ nl_pc[n] = "loop"
  /\ payload_len[n] = 0
  /\ nl_pc' = [nl_pc EXCEPT ![n] = "unlock"]
  /\ UNCHANGED <<mutex, request, offset, payload_len, handled>>

\* mutex_unlock.
Unlock(n) ==
  /\ nl_pc[n] = "unlock"
  /\ mutex' = None
  /\ nl_pc' = [nl_pc EXCEPT ![n] = "idle"]
  /\ request' = [request EXCEPT ![n] = <<>>]
  /\ offset' = [offset EXCEPT ![n] = 0]
  /\ payload_len' = [payload_len EXCEPT ![n] = 0]
  /\ handled' = [handled EXCEPT ![n] = <<>>]

Receive(n) == Lock(n) \/ Handle(n) \/ Invalid(n) \/ EndLoop(n) \/ Unlock(n)

NlNext ==
  \E n \in Namespaces :
    \/ \E t \in Types : Compose(n, t)
    \/ Send(n)
    \/ Receive(n)

NlSpec == NlInit /\ [][NlNext]_nl_vars

\* The kernel runs a receive callback to its end, and the mutex is granted to
\* every waiter in the end.
NlFairSpec ==
  NlSpec /\ \A n \in Namespaces : WF_nl_vars(Receive(n)) /\ SF_nl_vars(Lock(n))

----------------------------------------------------------------------------
(* Properties.                                                             *)

\* However many messages a request has, and although payload_len wraps, the
\* k-th message that xp_nl_msg_process handles is the k-th of the request, as
\* far as the request goes, read where it starts.
HandledInOrder ==
  \A n \in Namespaces :
    \A k \in 1 .. Len(handled[n]) : k <= Len(request[n]) => handled[n][k] = request[n][k]

\* No message of a request of up to four is left out before one of unknown
\* type, although payload_len is wrong after the second message: with the sizes
\* that messages have it is not zero too early.  (With five it may be.)
NoneLeftOut ==
  \A n \in Namespaces :
    nl_pc[n] = "unlock" /\ Len(handled[n]) < Len(request[n]) /\ Len(request[n]) <= 4
      => request[n][Len(handled[n]) + 1].type = "UNKNOWN"

\* xp_nl_tlv_msg's payload_len is the "Len of payload[]": the loop of
\* xp_nl_msg_process reads nothing after the last message of the payload.
HandledExactly == \A n \in Namespaces : Len(handled[n]) <= Len(request[n])

\* "Serialize requests from userspace": while the messages of a request are
\* handled no message of another namespace's request is.
Serialised ==
  [][\A n, m \in Namespaces :
       handled'[n] # handled[n] /\ n # m => nl_pc[m] \in {"idle", "lock"}]_nl_vars

\* If user space puts one message in every request, each is answered: the loop
\* ends, and nobody waits for the mutex for ever.
RequestReturns ==
  [](\A n \in Namespaces : nl_pc[n] # "idle" => Len(request[n]) = 1)
    => \A n \in Namespaces : nl_pc[n] = "lock" ~> nl_pc[n] = "idle"

----------------------------------------------------------------------------
(* The inductive invariants.                                               *)

\* A request is processed under the mutex, and only then.
MutexInv ==
  /\ nl_pc \in [Namespaces -> {"idle", "lock", "loop", "unlock"}]
  /\ DOMAIN handled = Namespaces
  /\ \A n \in Namespaces : nl_pc[n] \in {"loop", "unlock"} <=> mutex = n

\* Every variable stays in its range.
NlTypeOK ==
  /\ mutex \in Namespaces \cup {None}
  /\ request \in [Namespaces -> Seq(Message)]
  /\ nl_pc \in [Namespaces -> {"idle", "lock", "loop", "unlock"}]
  /\ offset \in [Namespaces -> Nat]
  /\ payload_len \in [Namespaces -> Nat]
  /\ handled \in [Namespaces -> Seq(Message)]

\* The messages of a request follow each other.
IsRequest(r) ==
  /\ r # <<>> => r[1].at = HeaderSize
  /\ \A j, k \in 1 .. Len(r) : j < k => r[j].at < r[k].at
  /\ \A k \in 1 .. Len(r) - 1 : r[k + 1].at = r[k].at + Size(r[k].type)

\* So far the messages of the request were handled, and the offset is where
\* the next one starts.
OrderInv(n) ==
  /\ IsRequest(request[n])
  /\ \A k \in 1 .. Len(handled[n]) : k <= Len(request[n]) => handled[n][k] = request[n][k]
  /\ nl_pc[n] \in {"idle", "lock"} => handled[n] = <<>>
  /\ nl_pc[n] = "loop" => offset[n] = EndOf(handled[n])

NlInv == NlTypeOK /\ \A n \in Namespaces : OrderInv(n)

=============================================================================
