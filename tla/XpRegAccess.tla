----------------------------- MODULE XpRegAccess -----------------------------
(***************************************************************************)
(* Register access of the xpnet driver: xp_dev_reg_read and                *)
(* xp_dev_reg_write under tx_dma_read_lock, reached through the            *)
(* PCIE_REG_CMD ioctl (xp_dev_reg_access), through /proc/xpregaccess, and  *)
(* from the kernel (xp_dev_reg_read_q, xp_dev_reg_write_q and the exported *)
(* xp_pci_drv_read_reg, xp_pci_drv_write_reg); and the reads of the        *)
(* configuration space (xp_pci_conf_get).  xpnet/src/xp_pcie_slave.c.      *)
(*                                                                         *)
(* A register is 4 bytes, least significant byte first.  Byte and word     *)
(* writes load a whole register and store it back.  A buffer (tmp_value)   *)
(* is a function from byte offsets; it holds Junk where nothing was put.   *)
(***************************************************************************)
EXTENDS Integers, FiniteSets

CONSTANTS Ioctls,    \* threads that use the ioctl
          Procs,     \* threads that use the proc file
          Kernels,   \* threads that call the access functions directly
          Requests,  \* requests of user space: records [dir, addr, size]
          KRequests, \* requests of the kernel: the same, size is reg_size
          PRequests, \* commands written to the proc file
          Window,    \* bytes mapped
          HwBytes,   \* bytes that the device changes by itself
          ConfSize,  \* PCI_CONFIG_SPACE_SIZE
          Chunk,     \* XP_MAX_BYTES_FOR_COPY
          IdxMod,    \* number of values of the chunk index
          MaxActive, \* bound: calls in progress at the same time
          MayFault,  \* memory or a copy from or to user space may fail
          Junk, Zero, None

Threads == Ioctls \cup Procs \cup Kernels
Directions == {"w", "r", "conf", "bad"}

ASSUME ChunkAssumption == Chunk \in Nat \ {0} /\ IdxMod \in Nat \ {0}
ASSUME RequestAssumption ==
  \A r \in Requests \cup KRequests \cup PRequests :
    r.dir \in Directions /\ r.addr \in Nat /\ r.size \in Nat
ASSUME WindowAssumption ==
  \A r \in Requests \cup KRequests \cup PRequests :
    r.dir \in {"r", "w"} => r.addr + r.size + 3 <= Window

VARIABLES
  mem,     \* the registers
  lock,    \* holder of tx_dma_read_lock, or None
  pc,      \* where a thread is
  req,     \* its request
  tmp,     \* its kernel buffer (tmp_value)
  idx,     \* its chunk index, 8 bits wide in the code
  left,    \* count_value: bytes still to be copied
  i,       \* index of the element accessed
  value,   \* register loaded by a byte or word write
  out,     \* the bytes user space has received
  rc,      \* what it returns: "ok" or "err"
  status,  \* reg_rw_status, shared by all users of the proc file
  before   \* ghost: the registers when the lock was taken (Empty if it is free)

vars == <<mem, lock, pc, req, tmp, idx, left, i, value, out, rc, status, before>>
local == <<req, tmp, idx, left, i, value, out, rc>>

DWORD_SIZE == 4
WORD_SIZE == 2
BYTE_SIZE == 1
Dword == 0..3

InitByte(a) == <<"init", a>>
DataByte(t, k) == <<t, k>>
HwByte(a) == <<"hw", a>>
ConfByte(a) == <<"conf", a>>
Empty == [k \in {} |-> Junk]

\* How xp_dev_reg_access cuts a request of some size into accesses; the proc
\* file accesses one double word, and the kernel gives the size itself.
AccessOf(t, r) ==
  IF t \in Kernels \/ r.size = WORD_SIZE THEN [reg_size |-> r.size, count |-> 1]
  ELSE IF r.size % DWORD_SIZE = 0
       THEN [reg_size |-> DWORD_SIZE, count |-> r.size \div DWORD_SIZE]
       ELSE [reg_size |-> BYTE_SIZE, count |-> r.size]

reg_size(t) == AccessOf(t, req[t]).reg_size
count(t) == AccessOf(t, req[t]).count
reg_addr(t) == req[t].addr + i[t] * reg_size(t)

Least(a, b) == IF a < b THEN a ELSE b

Goto(t, l) == pc' = [pc EXCEPT ![t] = l]
Finish(t, r) == Goto(t, "ret") /\ rc' = [rc EXCEPT ![t] = r]

----------------------------------------------------------------------------

Init ==
  /\ mem = [a \in 0..Window-1 |-> InitByte(a)]
  /\ lock = None
  /\ pc = [t \in Threads |-> "idle"]
  /\ req = [t \in Threads |-> None]
  /\ tmp = [t \in Threads |-> Empty]
  /\ idx = [t \in Threads |-> 0]
  /\ left = [t \in Threads |-> 0]
  /\ i = [t \in Threads |-> 0]
  /\ value = [t \in Threads |-> Empty]
  /\ out = [t \in Threads |-> Empty]
  /\ rc = [t \in Threads |-> "ok"]
  /\ status = None
  /\ before = Empty

\* A thread enters with a request.
Enter(t, r, l) ==
  /\ pc[t] = "idle"
  /\ Cardinality({u \in Threads : pc[u] # "idle"}) < MaxActive
  /\ req' = [req EXCEPT ![t] = r]
  /\ Goto(t, l)
  /\ UNCHANGED <<mem, lock, idx, left, i, value, out, rc, before>>

----------------------------------------------------------------------------
(* xp_dev_reg_access and xp_pci_conf_get, for the ioctl.                   *)

Ioctl(t, r) ==
  /\ Enter(t, r, "copy_req")
  /\ UNCHANGED <<tmp, status>>

\* The request cannot be copied, or there is no memory.
NoRequest(t) ==
  /\ pc[t] = "copy_req"
  /\ MayFault
  /\ Finish(t, "err")
  /\ UNCHANGED <<mem, lock, req, tmp, idx, left, i, value, out, status, before>>

\* -EINVAL: nothing to access, an unknown direction, or past the end of the
\* configuration space.
Invalid(t) ==
  /\ pc[t] = "copy_req"
  /\ \/ req[t].size = 0
     \/ req[t].dir = "bad"
     \/ req[t].dir = "conf" /\ req[t].addr + req[t].size > ConfSize
  /\ Finish(t, "err")
  /\ UNCHANGED <<mem, lock, req, tmp, idx, left, i, value, out, status, before>>

\* tmp_value is allocated, and not cleared.
Allocate(t) ==
  /\ pc[t] = "copy_req"
  /\ req[t].size # 0
  /\ \/ /\ req[t].dir \in {"w", "r"}
        /\ tmp' = [tmp EXCEPT ![t] = [k \in 0..count(t) * DWORD_SIZE - 1 |-> Junk]]
        /\ left' = [left EXCEPT ![t] = count(t) * reg_size(t)]
        /\ Goto(t, IF req[t].dir = "w" THEN "fill" ELSE "lock")
     \/ /\ req[t].dir = "conf"
        /\ req[t].addr + req[t].size <= ConfSize
        /\ tmp' = [tmp EXCEPT ![t] = [k \in 0..req[t].size - 1 |-> Junk]]
        /\ Goto(t, "conf")
        /\ UNCHANGED left
  /\ UNCHANGED <<mem, lock, req, idx, i, value, out, rc, status, before>>

\* The next chunk of the values to be written is copied from user space.
Fill(t) ==
  LET n == Least(left[t], Chunk)
      off == idx[t] * Chunk
  IN /\ pc[t] = "fill"
     /\ left' = [left EXCEPT ![t] = @ - n]
     /\ tmp' = [tmp EXCEPT ![t] = [k \in DOMAIN @ |->
                  IF k \in off..off+n-1 THEN DataByte(t, k) ELSE @[k]]]
     /\ idx' = [idx EXCEPT ![t] = (@ + 1) % IdxMod]
     /\ Goto(t, IF left'[t] = 0 THEN "lock" ELSE "fill")
     /\ UNCHANGED <<mem, lock, req, i, value, out, rc, status, before>>

FillFault(t) ==
  /\ pc[t] = "fill"
  /\ MayFault
  /\ Finish(t, "err")
  /\ UNCHANGED <<mem, lock, req, tmp, idx, left, i, value, out, status, before>>

\* The next chunk of the values read goes to user space; when that fails the
\* others are copied still.
Drain(t) ==
  LET n == Least(left[t], Chunk)
      off == idx[t] * Chunk
  IN /\ pc[t] = "drain"
     /\ left' = [left EXCEPT ![t] = @ - n]
     /\ \/ /\ out' = [out EXCEPT ![t] =
                [k \in DOMAIN @ \cup (off..off+n-1) |->
                   IF k \in off..off+n-1 THEN tmp[t][k] ELSE @[k]]]
           /\ UNCHANGED rc
        \/ MayFault /\ rc' = [rc EXCEPT ![t] = "err"] /\ UNCHANGED out
     /\ idx' = [idx EXCEPT ![t] = (@ + 1) % IdxMod]
     /\ Goto(t, IF left'[t] = 0 THEN "ret" ELSE "drain")
     /\ UNCHANGED <<mem, lock, req, tmp, i, value, status, before>>

\* xp_pci_conf_get reads byte after byte, then copies them all.
ConfRead(t) ==
  /\ pc[t] = "conf"
  /\ i[t] < req[t].size
  /\ tmp' = [tmp EXCEPT ![t][i[t]] = ConfByte(req[t].addr + i[t])]
  /\ i' = [i EXCEPT ![t] = @ + 1]
  /\ UNCHANGED <<mem, lock, pc, req, idx, left, value, out, rc, status, before>>

ConfCopy(t) ==
  /\ pc[t] = "conf"
  /\ i[t] = req[t].size
  /\ \/ out' = [out EXCEPT ![t] = tmp[t]] /\ Finish(t, "ok")
     \/ MayFault /\ Finish(t, "err") /\ UNCHANGED out
  /\ UNCHANGED <<mem, lock, req, tmp, idx, left, i, value, status, before>>

----------------------------------------------------------------------------
(* xpreg_proc_write and xpreg_seq_show, and callers in the kernel.         *)

\* The value to be written is in the caller's own variables.
OwnBuffer(t, n) == [tmp EXCEPT ![t] = [k \in 0..n-1 |-> DataByte(t, k)]]

\* The status is emptied; it stays so if the command is not understood.
ProcWrite(t, r) ==
  /\ Enter(t, r, IF r.dir = "bad" THEN "nothing" ELSE "lock")
  /\ status' = None
  /\ tmp' = OwnBuffer(t, DWORD_SIZE)

\* The answer is left in reg_rw_status.
ProcStatus(t) ==
  /\ pc[t] = "status"
  /\ status' = [dir |-> req[t].dir, data |-> tmp[t]]
  /\ Goto(t, "show")
  /\ UNCHANGED <<mem, lock, local, before>>

\* The file is read; an empty status is an invalid command.
ProcShow(t) ==
  /\ pc[t] \in {"show", "nothing"}
  /\ \/ status = None /\ Finish(t, "err") /\ UNCHANGED out
     \/ status # None /\ out' = [out EXCEPT ![t] = status.data] /\ Finish(t, "ok")
  /\ UNCHANGED <<mem, lock, req, tmp, idx, left, i, value, status, before>>

KernelAccess(t, r) ==
  /\ Enter(t, r, "lock")
  /\ tmp' = OwnBuffer(t, DWORD_SIZE)
  /\ UNCHANGED status

----------------------------------------------------------------------------
(* xp_dev_reg_read and xp_dev_reg_write.                                   *)

Lock(t) ==
  /\ pc[t] = "lock"
  /\ lock = None
  /\ lock' = t
  /\ before' = mem
  /\ Goto(t, req[t].dir)
  /\ UNCHANGED <<mem, local, status>>

Sizes == {BYTE_SIZE, WORD_SIZE, DWORD_SIZE}

\* One element, into a slot of 4 bytes.
ReadElement(t) ==
  /\ pc[t] = "r"
  /\ reg_size(t) \in Sizes
  /\ i[t] < count(t)
  /\ tmp' = [tmp EXCEPT ![t] = [k \in DOMAIN @ |->
               LET b == k - i[t] * DWORD_SIZE
               IN IF k < i[t] * DWORD_SIZE \/ b \notin Dword THEN @[k]
                  ELSE IF b < reg_size(t) THEN mem[reg_addr(t) + b] ELSE Zero]]
  /\ i' = [i EXCEPT ![t] = @ + 1]
  /\ UNCHANGED <<mem, lock, pc, req, idx, left, value, out, rc, status, before>>

\* A double word is written with one store.
WriteElement(t) ==
  /\ pc[t] = "w"
  /\ reg_size(t) = DWORD_SIZE
  /\ i[t] < count(t)
  /\ mem' = [a \in DOMAIN mem |->
               IF a \in reg_addr(t)..reg_addr(t) + 3
               THEN tmp[t][i[t] * DWORD_SIZE + a - reg_addr(t)] ELSE mem[a]]
  /\ i' = [i EXCEPT ![t] = @ + 1]
  /\ UNCHANGED <<lock, pc, req, tmp, idx, left, value, out, rc, status, before>>

\* A byte or a word is written by loading the four bytes from its address ...
LoadElement(t) ==
  /\ pc[t] = "w"
  /\ reg_size(t) \in {BYTE_SIZE, WORD_SIZE}
  /\ i[t] < count(t)
  /\ value' = [value EXCEPT ![t] = [b \in Dword |-> mem[reg_addr(t) + b]]]
  /\ Goto(t, "store")
  /\ UNCHANGED <<mem, lock, req, tmp, idx, left, i, out, rc, status, before>>

\* Faulty variant: the value is not masked.
Fault_NoMask(t) ==
  /\ pc[t] = "store"
  /\ mem' = [a \in DOMAIN mem |->
               IF a \in reg_addr(t)..reg_addr(t) + 3
               THEN tmp[t][i[t] * DWORD_SIZE + a - reg_addr(t)] ELSE mem[a]]
  /\ i' = [i EXCEPT ![t] = @ + 1]
  /\ Goto(t, "w")
  /\ UNCHANGED <<lock, req, tmp, idx, left, value, out, rc, status, before>>

\* ... and storing them with the low bytes replaced by those of slot i.
StoreElement(t) ==
  /\ pc[t] = "store"
  /\ mem' = [a \in DOMAIN mem |->
               IF a \notin reg_addr(t)..reg_addr(t) + 3 THEN mem[a]
               ELSE LET b == a - reg_addr(t)
                    IN IF b < reg_size(t) THEN tmp[t][i[t] * DWORD_SIZE + b]
                       ELSE value[t][b]]
  /\ i' = [i EXCEPT ![t] = @ + 1]
  /\ Goto(t, "w")
  /\ UNCHANGED <<lock, req, tmp, idx, left, value, out, rc, status, before>>

\* Where a caller goes on; the ioctl copies count slots of 4 bytes.
AfterAccess(t, ok) ==
  /\ rc' = [rc EXCEPT ![t] = IF ok THEN "ok" ELSE "err"]
  /\ Goto(t, IF t \in Procs THEN "status"
             ELSE IF t \in Ioctls /\ req[t].dir = "r" /\ ok THEN "drain" ELSE "ret")
  /\ left' = [left EXCEPT ![t] = count(t) * DWORD_SIZE]
  /\ out' = IF t \in Kernels THEN [out EXCEPT ![t] = tmp[t]] ELSE out

Unlock(t) ==
  /\ pc[t] \in {"r", "w"}
  /\ reg_size(t) \in Sizes
  /\ i[t] = count(t)
  /\ lock' = None
  /\ before' = Empty
  /\ AfterAccess(t, TRUE)
  /\ UNCHANGED <<mem, req, tmp, idx, i, value, status>>

\* Faulty variant: the error return does not release the lock.
Fault_KeepLock(t) ==
  /\ pc[t] \in {"r", "w"}
  /\ reg_size(t) \notin Sizes
  /\ AfterAccess(t, FALSE)
  /\ UNCHANGED <<mem, lock, req, tmp, idx, i, value, status, before>>

\* The size is none of the three.
InvalidSize(t) ==
  /\ pc[t] \in {"r", "w"}
  /\ reg_size(t) \notin Sizes
  /\ lock' = None
  /\ before' = Empty
  /\ AfterAccess(t, FALSE)
  /\ UNCHANGED <<mem, req, tmp, idx, i, value, status>>

\* The buffers are freed, the local variables are gone.
Return(t) ==
  /\ pc[t] = "ret"
  /\ Goto(t, "idle")
  /\ req' = [req EXCEPT ![t] = None]
  /\ tmp' = [tmp EXCEPT ![t] = Empty]
  /\ value' = [value EXCEPT ![t] = Empty]
  /\ out' = [out EXCEPT ![t] = Empty]
  /\ idx' = [idx EXCEPT ![t] = 0]
  /\ left' = [left EXCEPT ![t] = 0]
  /\ i' = [i EXCEPT ![t] = 0]
  /\ rc' = [rc EXCEPT ![t] = "ok"]
  /\ UNCHANGED <<mem, lock, status, before>>

\* The device changes a register of its own.
Hardware(a) ==
  /\ mem' = [mem EXCEPT ![a] = HwByte(a)]
  /\ UNCHANGED <<lock, pc, local, status, before>>

----------------------------------------------------------------------------

Access(t) ==
  \/ ReadElement(t) \/ WriteElement(t) \/ LoadElement(t) \/ StoreElement(t)
  \/ Unlock(t) \/ InvalidSize(t)

Step(t) ==
  \/ NoRequest(t) \/ Invalid(t) \/ Allocate(t) \/ Fill(t) \/ FillFault(t) \/ Drain(t)
  \/ ConfRead(t) \/ ConfCopy(t)
  \/ ProcStatus(t) \/ ProcShow(t)
  \/ Access(t) \/ Return(t)

Next ==
  \/ \E t \in Ioctls, r \in Requests : Ioctl(t, r)
  \/ \E t \in Procs, r \in PRequests : ProcWrite(t, r)
  \/ \E t \in Kernels, r \in KRequests : KernelAccess(t, r)
  \/ \E t \in Threads : Step(t) \/ Lock(t)
  \/ \E a \in HwBytes : Hardware(a)

Spec == Init /\ [][Next]_vars

\* Threads are scheduled, and the spin lock is handed out in turn.
FairSpec ==
  /\ Spec
  /\ \A t \in Threads : WF_vars(Step(t)) /\ SF_vars(Lock(t))

----------------------------------------------------------------------------
(* Properties.                                                             *)

\* The bytes that an access leaves in user space or with its caller, in the
\* order of the registers: user space gets a slot of 4 bytes for each element.
Bytes(t, s) == [k \in 0..req[t].size-1 |->
                  IF req[t].dir = "conf" THEN s[k]
                  ELSE s[(k \div reg_size(t)) * DWORD_SIZE + (k % reg_size(t))]]

\* The registers as the callers may see them: a write takes effect when the
\* lock is released.
Visible ==
  [a \in 0..Window-1 |->
     IF /\ lock # None
        /\ pc[lock] \in {"w", "store"}
        /\ req[lock].dir = "w"
        /\ a \in req[lock].addr..req[lock].addr + req[lock].size - 1
     THEN before[a] ELSE mem[a]]

\* What a thread has achieved: a write is over when the lock is released, a read
\* when the last element is read, and either has failed when it returns so.
Over(t) ==
  IF pc[t] \in {"drain", "status", "show", "ret"}
  THEN IF rc[t] = "ok" THEN "ok" ELSE "fail"
  ELSE IF pc[t] = "r" /\ i[t] = count(t) THEN "ok" ELSE "no"

Result(t) ==
  IF Over(t) = "ok" /\ req[t].dir # "w"
  THEN Bytes(t, IF pc[t] = "ret" THEN out[t] ELSE tmp[t])
  ELSE None

RegSpace == INSTANCE RegSpace WITH
  Requests <- Requests \cup KRequests \cup PRequests,
  mem <- Visible,
  call <- req,
  done <- [t \in Threads |-> Over(t)],
  got <- [t \in Threads |-> Result(t)]

\* Every access through the ioctl, the proc file or the kernel happens at one
\* point in time, reaches exactly the bytes asked for, and a failed write has
\* no effect, whatever the others do and whichever copy fails.
Atomic == RegSpace!Spec

\* Every access returns, the ones with an invalid size too.
AccessReturns == \A t \in Threads : pc[t] # "idle" ~> pc[t] = "idle"

\* Nobody has a lock or a place in the code that it cannot have.
TypeOK ==
  /\ lock \in Threads \cup {None}
  /\ lock # None => pc[lock] \in {"r", "w", "store"}
  /\ \A t \in Threads :
       /\ pc[t] \in {"idle", "copy_req", "fill", "lock", "r", "w", "store", "drain",
                     "conf", "status", "show", "nothing", "ret"}
       /\ rc[t] \in {"ok", "err"}
       /\ idx[t] \in 0..IdxMod-1
       /\ (pc[t] = "idle") <=> (req[t] = None)

=============================================================================
