------------------------------- MODULE RxFifo -------------------------------
(***************************************************************************)
(* What the receive side of the driver promises, per RX queue: a bounded   *)
(* channel that loses, duplicates and reorders nothing.  A packet the DMA  *)
(* engine has put in the channel is handed to the network stack after all  *)
(* the packets put before it.  Packets carry a sequence number of their    *)
(* queue, modulo SeqMod.                                                   *)
(***************************************************************************)
EXTENDS Integers, Sequences

CONSTANTS FifoQueues,   \* the RX queues
          Capacity,     \* how many packets a channel can hold
          FifoMod       \* sequence numbers are 0 .. FifoMod - 1

VARIABLES chan,         \* packets received and not yet handed over
          sent,         \* sequence number of the next packet from the wire
          got           \* sequence number the stack waits for

fifoVars == <<chan, sent, got>>

FifoInit ==
  /\ chan = [q \in FifoQueues |-> <<>>]
  /\ sent = [q \in FifoQueues |-> 0]
  /\ got = [q \in FifoQueues |-> 0]

Put(q) ==
  /\ Len(chan[q]) < Capacity
  /\ chan' = [chan EXCEPT ![q] = Append(@, sent[q])]
  /\ sent' = [sent EXCEPT ![q] = (@ + 1) % FifoMod]
  /\ UNCHANGED got

Get(q) ==
  /\ chan[q] # <<>>
  /\ got' = [got EXCEPT ![q] = (Head(chan[q]) + 1) % FifoMod]
  /\ Head(chan[q]) = got[q]
  /\ chan' = [chan EXCEPT ![q] = Tail(@)]
  /\ UNCHANGED sent

FifoNext == \E q \in FifoQueues : Put(q) \/ Get(q)

FifoSpec == FifoInit /\ [][FifoNext]_fifoVars

=============================================================================
