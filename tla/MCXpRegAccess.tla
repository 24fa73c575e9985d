---------------------------- MODULE MCXpRegAccess ----------------------------
(* Instances of XpRegAccess for TLC. *)
EXTENDS XpRegAccess

Req(d, a, n) == [dir |-> d, addr |-> a, size |-> n]

\* The sizes the header allows, and a block of two chunks.
UserRequests == {Req("w", 0, 8), Req("w", 1, 1), Req("r", 0, 8), Req("r", 8, 4),
                 Req("r", 0, 0), Req("bad", 0, 4), Req("conf", 1, 2), Req("conf", 3, 2)}
KernelRequests == {Req("w", 2, 2), Req("w", 0, 3)}
ProcRequests == {Req("w", 4, 4), Req("r", 4, 4), Req("bad", 0, 0)}

\* A block of three bytes.
ByteRequests == {Req("w", 0, 3)}
\* A block of three chunks.
LongRequests == {Req("w", 0, 12)}
\* A byte beside a register of the device.
NeighbourRequests == {Req("w", 8, 1)}
NoRequests == {}
=============================================================================
