-------------------------------- MODULE XpIrq --------------------------------
(***************************************************************************)
(* Interrupts and event signals of the xpnet driver: the two MSI handlers, *)
(* xp_irq_handler, xp_irq_mgmt_handler and xp_task_work_handler            *)
(* (xpnet/src/xp_pcie_slave.c).                                            *)
(*                                                                         *)
(* A register word is the set of its bits that are 1.  A summary register  *)
(* has a bit for each source of each block; the last block, MGMT, stands   *)
(* for the DMA queues, which have a bit in the source register and a       *)
(* status register each.  An event becomes a work item, and that a signal  *)
(* to the process registered with REGISTER_PID.                            *)
(*                                                                         *)
(* The device (external) raises bits; it asks for an interrupt as long as  *)
(* a summary register is not zero; writing ones to the source and status   *)
(* registers clears the bits.  User space clears the other blocks.         *)
(*                                                                         *)
(* xp_irq_handler and xp_irq_mgmt_handler each keep what they will signal  *)
(* in a static bit field, intr_info, and the latter its flag has_queue_    *)
(* info too.  If the interrupts go to two processors both MSI handlers may *)
(* be in the same function: the accesses race, and what is read from       *)
(* intr_info may be what either has written, or zero.                      *)
(***************************************************************************)
EXTENDS Integers, FiniteSets, FiniteSetsExt, Sequences

CONSTANTS Vectors,   \* the handlers that got an interrupt: subset of {"high", "low"}
          HpEvents,  \* sets of bits of the high priority summary raised together
          LpEvents,  \* the same of the low priority summary
          Sources,   \* bits of the source register that it raises
          Others,    \* its bits below the first queue that it raises
          Mode,      \* address mode of the device
          Pids,      \* process identifiers; 0 is none of them
          MaxWork,   \* bound: work items waiting when a handler starts
          StatusBits, \* bits of a status register that it raises: subset of 0..2
          MaxRounds, \* bound: what happens from outside if there are two processors
          MayFail    \* kmalloc may fail

ASSUME VectorsAssumption == Vectors \subseteq {"high", "low"}
ASSUME ModeAssumption == Mode \in 0..2
ASSUME SourcesAssumption == Sources \subseteq 0..159
ASSUME OthersAssumption == Others \subseteq 0..7
ASSUME StatusAssumption == StatusBits \subseteq 0..2
ASSUME EventsAssumption == \A e \in HpEvents \cup LpEvents : e \subseteq Nat

VARIABLES
  cpus,       \* processors that the interrupts are delivered to: 1 or 2
  rounds,     \* what has happened from outside, counted if there are two
  summary,    \* the two summary registers, the MGMT bits excepted: sets of bits
  source,     \* the source register, a set of bits
  stat,       \* status register of a queue: subset of 0..2
  pc,         \* where a handler is
  words,      \* reg_value: the words a handler has read
  n,          \* index of the word or the block it is at
  local,      \* locals of xp_irq_mgmt_handler: j and status_reg_addr
  intr_info,  \* the two static variables of this name
  raced,      \* two handlers use one of them at the same time
  w_queue,    \* work items: the pids in them
  app_pid,    \* priv->app_pid
  task,       \* the processes that hold a pid: "app", "other" or "none"
  unreported, \* ghost, on one processor: status bits raised and not in an item yet
  late,       \* ghost: those raised since a handler has read the status
  posted      \* ghost: items posted in this interrupt, and for which block or bit

device == <<rounds, summary, source, stat>>
handler == <<pc, words, n, local>>
static == <<intr_info, raced>>
ghosts == <<unreported, late, posted>>
vars == <<cpus, device, handler, static, w_queue, app_pid, task, ghosts>>

----------------------------------------------------------------------------
(* The tables and the cutting out of a block.                              *)

NUM_HP_INT_REG_BLOCKS == 35
NUM_LP_INT_REG_BLOCKS == 33

xp_hp_reg_bit_width ==
  <<1, 1, 1, 1, 1, 1, 1, 1, 1, 2, 12, 3, 4, 1, 1, 1, 1, 1, 12, 3, 4,
    1, 1, 1, 1, 1, 1, 16, 2, 2, 2, 32, 1, 1, 1>>
xp_hp_reg_start_bit ==
  <<0, 1, 2, 3, 4, 5, 6, 7, 8, 9, 11, 23, 26, 30, 31, 32, 33, 34, 35, 47, 50,
    54, 55, 56, 57, 58, 59, 60, 76, 78, 80, 82, 114, 115, 116>>
xp_hp_reg_end_bit ==
  <<0, 1, 2, 3, 4, 5, 6, 7, 8, 10, 22, 25, 29, 30, 31, 32, 33, 34, 46, 49, 53,
    54, 55, 56, 57, 58, 59, 75, 77, 79, 81, 113, 114, 115, 116>>
xp_lp_reg_bit_width ==
  <<1, 1, 1, 1, 1, 1, 1, 1, 1, 2, 12, 3, 4, 1, 1, 1, 1, 1, 12, 3, 4,
    1, 1, 1, 1, 1, 1, 16, 2, 2, 2, 1, 1>>
xp_lp_reg_start_bit ==
  <<0, 1, 2, 3, 4, 5, 6, 7, 8, 9, 11, 23, 26, 30, 31, 32, 33, 34, 35, 47, 50,
    54, 55, 56, 57, 58, 59, 60, 76, 78, 80, 82, 83>>
xp_lp_reg_end_bit ==
  <<0, 1, 2, 3, 4, 5, 6, 7, 8, 10, 22, 25, 29, 30, 31, 32, 33, 34, 46, 49, 53,
    54, 55, 56, 57, 58, 59, 75, 77, 79, 81, 82, 83>>

Blocks(v) == IF v = "high" THEN NUM_HP_INT_REG_BLOCKS ELSE NUM_LP_INT_REG_BLOCKS
StartBit(v, b) == (IF v = "high" THEN xp_hp_reg_start_bit ELSE xp_lp_reg_start_bit)[b + 1]
EndBit(v, b) == (IF v = "high" THEN xp_hp_reg_end_bit ELSE xp_lp_reg_end_bit)[b + 1]
BitWidth(v, b) == (IF v = "high" THEN xp_hp_reg_bit_width ELSE xp_lp_reg_bit_width)[b + 1]

\* Words read by a handler; the low one declares four and reads three.
Words(v) == IF v = "high" THEN 4 ELSE 3
MgmtBit(v) == IF v = "high" THEN 116 ELSE 83

\* Shifts of a 32-bit word.
Shr(w, k) == {x - k : x \in {y \in w : y >= k}}
Shl(w, k) == {x \in {y + k : y \in w} : x < 32}
xp_reg_mask(width) == 0..width-1

\* Faulty variant: the second word of a block is left out.
Fault_OneWord(reg_value, start, end, width) ==
  Shr(reg_value[start \div 32], start % 32)
    \cap (IF start # end THEN xp_reg_mask(width) ELSE {0})

\* The bits of a block, from one or from two words.
xp_block_number_get(reg_value, start, end, width) ==
  IF start \div 32 = end \div 32
  THEN Shr(reg_value[start \div 32], start % 32)
         \cap (IF start # end THEN xp_reg_mask(width) ELSE {0})
  ELSE (Shr(reg_value[start \div 32], start % 32)
          \cup Shl(reg_value[end \div 32], 32 - (start % 32)))
         \cap xp_reg_mask(width)

BlockValue(v, b) ==
  xp_block_number_get(words[v], StartBit(v, b), EndBit(v, b), BitWidth(v, b))

----------------------------------------------------------------------------
(* Queues and the source register.                                         *)

DMA0_INTR_START_BIT_POS == IF Mode = 0 THEN 8 ELSE 9
TOTAL_RX_QUEUE == 64
TOTAL_TX_QUEUE == 64
HIGH_INTR_SRC_REG_SIZE == 5

\* The queue of a bit of the source register; a bit behind the last queue is
\* taken for TX queue 0, because intr_info was cleared.
QueueOf(bit) ==
  LET rx == DMA0_INTR_START_BIT_POS
      tx == rx + TOTAL_TX_QUEUE
  IN IF bit \in rx..rx + TOTAL_RX_QUEUE - 1 THEN [q_type |-> "rx", q_num |-> bit - rx]
     ELSE IF bit \in tx..tx + TOTAL_TX_QUEUE - 1 THEN [q_type |-> "tx", q_num |-> bit - tx]
     ELSE [q_type |-> "tx", q_num |-> 0]

Queues == {QueueOf(b) : b \in Sources}

\* The bits of word k of the source register that the handler looks at.
SourceWord(k) ==
  {b \in source : b \div 32 = k /\ (k = 0 => b >= DMA0_INTR_START_BIT_POS)}

\* The bit that a handler's i and j stand for (bit_pos).
BitPos(v) == 32 * n[v] + local[v].j

\* A word of a summary register as the device shows it.
SummaryWord(v, k) ==
  {b - 32 * k : b \in {x \in summary[v] \cup (IF source # {} THEN {MgmtBit(v)} ELSE {}) :
                         x \div 32 = k}}

\* si_int of a signal.
BlockInfo(v, b) == [type |-> v, block |-> b]
QueueInfo(q, s) == [queue |-> q, status |-> s]
NoInfo == [type |-> "none"]
AnyInfo == [type |-> "any"]   \* read from intr_info in a race: any of the above
NoWords == [k \in 0..3 |-> {}]
NoLocals == [j |-> 0, addr |-> QueueOf(0)]

----------------------------------------------------------------------------

Statics == {"block", "mgmt"}   \* xp_irq_handler and xp_irq_mgmt_handler

Init ==
  /\ cpus \in 1..2
  /\ rounds = 0
  /\ summary = [v \in {"high", "low"} |-> {}]
  /\ source = {}
  /\ stat = [q \in Queues |-> {}]
  /\ pc = [v \in Vectors |-> "idle"]
  /\ words = [v \in Vectors |-> NoWords]
  /\ n = [v \in Vectors |-> 0]
  /\ local = [v \in Vectors |-> NoLocals]
  /\ intr_info = [f \in Statics |-> NoInfo]
  /\ raced = [f \in Statics |-> FALSE]
  /\ w_queue = <<>>
  /\ app_pid = 0
  /\ task = [p \in Pids |-> "none"]
  /\ unreported = [q \in Queues |-> {}]
  /\ late = [q \in Queues |-> {}]
  /\ posted = [v \in Vectors |-> {}]

Goto(v, l) == pc' = [pc EXCEPT ![v] = l]

----------------------------------------------------------------------------
(* The device and the processes.                                           *)

Events(v) == IF v = "high" THEN HpEvents ELSE LpEvents

\* A step of the device, user space or the interrupt controller.
CountRound ==
  /\ cpus = 2 => rounds < MaxRounds
  /\ rounds' = IF cpus = 2 THEN rounds + 1 ELSE rounds

RaiseBlocks(v, e) ==
  /\ CountRound
  /\ summary' = [summary EXCEPT ![v] = @ \cup e]
  /\ UNCHANGED <<cpus, source, stat, handler, static, w_queue, app_pid, task, ghosts>>

\* A handler has read the status of a queue and not cleared it yet.
BetweenReadAndClear(q) ==
  \E v \in Vectors : pc[v] \in {"post", "clear_status"} /\ local[v].addr = q

RaiseQueue(b, s) ==
  LET q == QueueOf(b)
  IN /\ CountRound
     /\ source' = source \cup {b}
     /\ stat' = [stat EXCEPT ![q] = @ \cup {s}]
     /\ unreported' = IF cpus = 1 THEN [unreported EXCEPT ![q] = @ \cup {s}] ELSE unreported
     /\ late' = IF cpus = 1 /\ BetweenReadAndClear(q) THEN [late EXCEPT ![q] = @ \cup {s}] ELSE late
     /\ UNCHANGED <<cpus, summary, handler, static, w_queue, app_pid, task, posted>>

\* A source of the MGMT block that is no queue.
RaiseOther(b) ==
  /\ CountRound
  /\ source' = source \cup {b}
  /\ UNCHANGED <<cpus, summary, stat, handler, static, w_queue, app_pid, task, ghosts>>

\* User space clears it; the handlers pass it over.
AppClearsOther(b) ==
  /\ CountRound
  /\ source' = source \ {b}
  /\ UNCHANGED <<cpus, summary, stat, handler, static, w_queue, app_pid, task, ghosts>>

\* User space has handled an event of some blocks.
AppClears(v, e) ==
  /\ CountRound
  /\ e \subseteq summary[v]
  /\ summary' = [summary EXCEPT ![v] = @ \ e]
  /\ UNCHANGED <<cpus, source, stat, handler, static, w_queue, app_pid, task, ghosts>>

\* The probe takes the process that loads the driver for the one to signal.
ProbeSetsPid(p) ==
  /\ CountRound
  /\ app_pid = 0
  /\ task[p] = "none"
  /\ app_pid' = p
  /\ task' = [task EXCEPT ![p] = "other"]
  /\ UNCHANGED <<cpus, summary, source, stat, handler, static, w_queue, ghosts>>

\* REGISTER_PID.
RegisterPid(p) ==
  /\ CountRound
  /\ task[p] = "none"
  /\ \A r \in Pids : task[r] # "app"
  /\ task' = [task EXCEPT ![p] = "app"]
  /\ app_pid' = p
  /\ UNCHANGED <<cpus, summary, source, stat, handler, static, w_queue, ghosts>>

\* A process ends; the driver is not told.
AppExits(p) ==
  /\ CountRound
  /\ task[p] # "none"
  /\ task' = [task EXCEPT ![p] = "none"]
  /\ UNCHANGED <<cpus, summary, source, stat, handler, static, w_queue, app_pid, ghosts>>

\* The pid of a process that is gone is given to another one.
PidGivenAgain(p) ==
  /\ CountRound
  /\ task[p] = "none"
  /\ app_pid = p
  /\ task' = [task EXCEPT ![p] = "other"]
  /\ UNCHANGED <<cpus, summary, source, stat, handler, static, w_queue, app_pid, ghosts>>

----------------------------------------------------------------------------
(* xp_msi_irq_handler_high and xp_msi_irq_handler_low.                     *)

Interrupt(v) ==
  /\ pc[v] = "idle"
  /\ cpus = 2 \/ \A u \in Vectors : pc[u] = "idle"
  /\ summary[v] # {} \/ source # {}
  /\ Len(w_queue) < MaxWork
  /\ CountRound
  /\ Goto(v, "read")
  /\ UNCHANGED <<cpus, summary, source, stat, words, n, local, static, w_queue, app_pid, task, ghosts>>

\* The words are read one by one, each under the lock.
ReadSummary(v) ==
  /\ pc[v] = "read"
  /\ n[v] < Words(v)
  /\ words' = [words EXCEPT ![v][n[v]] = SummaryWord(v, n[v])]
  /\ n' = [n EXCEPT ![v] = @ + 1]
  /\ UNCHANGED <<cpus, device, pc, local, static, w_queue, app_pid, task, ghosts>>

\* Where a handler uses the intr_info of each of the two functions.
Uses(f) == IF f = "block" THEN {"blocks", "post_block"} ELSE {"mgmt", "status", "post"}

UsedByOther(v, f) == \E u \in Vectors \ {v} : pc[u] \in Uses(f)

\* A handler enters a function and clears its intr_info.
Enter(v, f) ==
  /\ intr_info' = [intr_info EXCEPT ![f] = NoInfo]
  /\ raced' = [raced EXCEPT ![f] = UsedByOther(v, f)]

\* It sets it; in a race what it holds is not defined.
Put(f, info) == intr_info' = IF raced[f] THEN intr_info ELSE [intr_info EXCEPT ![f] = info]
Seen(f) == IF raced[f] THEN AnyInfo ELSE intr_info[f]

\* The MGMT block is handled alone, and what was read is not used.  The low
\* handler tests a fourth word that it has not read: it may go on with nothing
\* to do.
Decide(v) ==
  LET mgmt == (MgmtBit(v) % 32) \in words[v][Words(v) - 1]
      zero == \A k \in 0..Words(v)-1 : words[v][k] = {}
  IN /\ pc[v] = "read"
     /\ n[v] = Words(v)
     /\ n' = [n EXCEPT ![v] = 0]
     /\ \/ /\ mgmt /\ Goto(v, "mgmt") /\ Enter(v, "mgmt")
           /\ words' = [words EXCEPT ![v] = NoWords]
        \/ ~mgmt /\ zero /\ Goto(v, "done") /\ UNCHANGED <<static, words>>
        \/ ~mgmt /\ (zero => v = "low") /\ Goto(v, "blocks") /\ Enter(v, "block") /\ UNCHANGED words
     /\ UNCHANGED <<cpus, device, local, w_queue, app_pid, task, ghosts>>

\* An item that was posted: for which block or bit, and what it says (si_int).
Posted(b, info) == [for |-> b, info |-> info]

----------------------------------------------------------------------------
(* xp_irq_handler.                                                         *)

\* The blocks from n on with a bit set.
Pending(v) == {b \in n[v]..Blocks(v)-1 : BlockValue(v, b) # {}}

\* The next block with a bit set; the information goes into a static variable.
NextBlock(v) ==
  LET pending == Pending(v)
  IN /\ pc[v] = "blocks"
     /\ pending # {}
     /\ n' = [n EXCEPT ![v] = Min(pending)]
     /\ Put("block", BlockInfo(v, Min(pending)))
     /\ Goto(v, "post_block")
     /\ UNCHANGED <<cpus, device, words, local, raced, w_queue, app_pid, task, ghosts>>

NoBlock(v) ==
  /\ pc[v] = "blocks"
  /\ Pending(v) = {}
  /\ Goto(v, "blocks_done")
  /\ UNCHANGED <<cpus, device, words, n, local, static, w_queue, app_pid, task, ghosts>>

PostBlock(v) ==
  /\ pc[v] = "post_block"
  /\ \/ /\ w_queue' = Append(w_queue, app_pid)
        /\ posted' = [posted EXCEPT ![v] = @ \cup {Posted(n[v], Seen("block"))}]
        /\ n' = [n EXCEPT ![v] = @ + 1]
        /\ Goto(v, "blocks")
     \/ MayFail /\ Goto(v, "failed") /\ UNCHANGED <<w_queue, posted, n>>
  /\ UNCHANGED <<cpus, device, words, local, static, app_pid, task, unreported, late>>

----------------------------------------------------------------------------
(* xp_irq_mgmt_handler.                                                    *)

\* j after word n of the source register is read: kept if the word is zero, and
\* 32 if it has no bit of a queue.
NextJ(v) ==
  IF \A b \in source : b \div 32 # n[v] THEN local[v].j
  ELSE IF SourceWord(n[v]) = {} THEN 32 ELSE Min(SourceWord(n[v])) % 32

\* has_queue_info as it is read.
SeenFlag(v) == IF raced["mgmt"] THEN BOOLEAN ELSE {SourceWord(n[v]) # {}}

\* Word n of the source register is read, and has_queue_info is not set.
SkipSource(v) ==
  /\ pc[v] = "mgmt"
  /\ n[v] < HIGH_INTR_SRC_REG_SIZE
  /\ FALSE \in SeenFlag(v)
  /\ n' = [n EXCEPT ![v] = @ + 1]
  /\ local' = [local EXCEPT ![v].j = NextJ(v)]
  /\ UNCHANGED <<cpus, device, pc, words, static, w_queue, app_pid, task, ghosts>>

NoSource(v) ==
  /\ pc[v] = "mgmt"
  /\ n[v] = HIGH_INTR_SRC_REG_SIZE
  /\ Goto(v, "done")
  /\ UNCHANGED <<cpus, device, words, n, local, static, w_queue, app_pid, task, ghosts>>

\* has_queue_info is set: the lowest bit of the word gives the queue.
FindSource(v) ==
  /\ pc[v] = "mgmt"
  /\ n[v] < HIGH_INTR_SRC_REG_SIZE
  /\ TRUE \in SeenFlag(v)
  /\ local' = [local EXCEPT ![v].j = NextJ(v)]
  /\ Put("mgmt", QueueInfo(QueueOf(32 * n[v] + NextJ(v)), {}))
  /\ Goto(v, "status")
  /\ UNCHANGED <<cpus, device, words, n, raced, w_queue, app_pid, task, ghosts>>

\* q_type and q_num as they are read.
SeenQueue(v) ==
  IF raced["mgmt"] THEN Queues \cup {QueueOf(BitPos(v)), QueueOf(0)}
  ELSE {intr_info["mgmt"].queue}

\* The status register of the queue is read; those of queues the device does
\* not use are zero.
ReadStatus(v) ==
  /\ pc[v] = "status"
  /\ \E q \in SeenQueue(v) :
       /\ local' = [local EXCEPT ![v].addr = q]
       /\ Put("mgmt", QueueInfo(q, IF q \in Queues THEN stat[q] ELSE {}))
       /\ late' = [u \in Queues |-> IF u = q THEN {} ELSE late[u]]
  /\ Goto(v, "post")
  /\ UNCHANGED <<cpus, device, words, n, raced, w_queue, app_pid, task, unreported, posted>>

\* Faulty variant: the registers are cleared although there is no work item.
Fault_ClearAnyway(v) ==
  /\ pc[v] = "post"
  /\ MayFail
  /\ Goto(v, "clear_status")
  /\ UNCHANGED <<cpus, device, words, n, local, static, w_queue, app_pid, task, ghosts>>

\* Without memory nothing is posted and nothing cleared.
NoWork(v) ==
  /\ pc[v] = "post"
  /\ MayFail
  /\ late' = [q \in Queues |-> IF q = local[v].addr THEN {} ELSE late[q]]
  /\ Goto(v, "failed")
  /\ UNCHANGED <<cpus, device, words, n, local, static, w_queue, app_pid, task, unreported, posted>>

PostQueue(v) ==
  LET info == Seen("mgmt")
  IN /\ pc[v] = "post"
     /\ w_queue' = Append(w_queue, app_pid)
     /\ posted' = [posted EXCEPT ![v] = @ \cup {Posted(BitPos(v), info)}]
     /\ unreported' = [q \in Queues |-> IF cpus = 1 /\ q = info.queue
                                         THEN unreported[q] \ (info.status \ late[q])
                                         ELSE unreported[q]]
     /\ Goto(v, "clear_status")
     /\ UNCHANGED <<cpus, device, words, n, local, static, app_pid, task, late>>

\* "Clear all interrupts."
ClearStatus(v) ==
  /\ pc[v] = "clear_status"
  /\ stat' = [q \in Queues |-> IF q = local[v].addr THEN {} ELSE stat[q]]
  /\ unreported' = [q \in Queues |-> IF q = local[v].addr THEN unreported[q] \ late[q]
                                      ELSE unreported[q]]
  /\ late' = [q \in Queues |-> IF q = local[v].addr THEN {} ELSE late[q]]
  /\ Goto(v, "clear_source")
  /\ UNCHANGED <<cpus, rounds, summary, source, words, n, local, static, w_queue, app_pid, task, posted>>

\* Faulty variant: all bits of the word are written back.
Fault_ClearWord(v) ==
  /\ pc[v] = "clear_source"
  /\ source' = {b \in source : b \div 32 # n[v]}
  /\ Goto(v, "done")
  /\ UNCHANGED <<cpus, rounds, summary, stat, words, n, local, static, w_queue, app_pid, task, ghosts>>

\* Faulty variant: zero is written to the bit, which clears nothing.
Fault_ClearNothing(v) ==
  /\ pc[v] = "clear_source"
  /\ Goto(v, "done")
  /\ UNCHANGED <<cpus, device, words, n, local, static, w_queue, app_pid, task, ghosts>>

\* Bits that "1 << j" may have: j = 32 is undefined, and gives one of these.
Shifted(j) == IF j = 32 THEN {{}, {0}} ELSE {{j}}

ClearSource(v) ==
  /\ pc[v] = "clear_source"
  /\ \E bits \in Shifted(local[v].j) : source' = source \ {32 * n[v] + b : b \in bits}
  /\ Goto(v, "done")
  /\ UNCHANGED <<cpus, rounds, summary, stat, words, n, local, static, w_queue, app_pid, task, ghosts>>

\* What the static variables hold is not read again: each function clears its
\* own first.
HandlerReturns(v) ==
  /\ pc[v] \in {"done", "blocks_done", "failed"}
  /\ Goto(v, "idle")
  /\ intr_info' = [f \in Statics |-> IF UsedByOther(v, f) THEN intr_info[f] ELSE NoInfo]
  /\ raced' = [f \in Statics |-> UsedByOther(v, f) /\ raced[f]]
  /\ local' = [local EXCEPT ![v] = NoLocals]
  /\ words' = [words EXCEPT ![v] = NoWords]
  /\ n' = [n EXCEPT ![v] = 0]
  /\ posted' = [posted EXCEPT ![v] = {}]
  /\ UNCHANGED <<cpus, device, w_queue, app_pid, task, unreported, late>>

----------------------------------------------------------------------------
(* xp_task_work_handler.                                                   *)

\* Without a pid the item is not freed; without a process no signal is sent.
RunWork ==
  /\ w_queue # <<>>
  /\ w_queue' = Tail(w_queue)
  /\ UNCHANGED <<cpus, device, handler, static, app_pid, task, ghosts>>

----------------------------------------------------------------------------

Handler(v) ==
  \/ ReadSummary(v) \/ Decide(v) \/ NextBlock(v) \/ NoBlock(v) \/ PostBlock(v)
  \/ SkipSource(v) \/ NoSource(v) \/ FindSource(v) \/ ReadStatus(v)
  \/ NoWork(v) \/ PostQueue(v) \/ ClearStatus(v) \/ ClearSource(v)
  \/ HandlerReturns(v)

Device ==
  \/ \E v \in {"high", "low"} : \E e \in Events(v) : RaiseBlocks(v, e)
  \/ \E b \in Sources, s \in StatusBits : RaiseQueue(b, s)
  \/ \E b \in Others : RaiseOther(b)

UserSpace ==
  \/ \E v \in {"high", "low"} : \E e \in Events(v) : AppClears(v, e)
  \/ \E b \in Others : AppClearsOther(b)
  \/ \E p \in Pids : ProbeSetsPid(p) \/ RegisterPid(p) \/ AppExits(p) \/ PidGivenAgain(p)

Next ==
  \/ Device \/ UserSpace
  \/ \E v \in Vectors : Interrupt(v) \/ Handler(v)
  \/ RunWork

Spec == Init /\ [][Next]_vars

\* Interrupts are delivered, handlers and the work queue run; memory is not
\* short forever.
FairSpec ==
  /\ Spec
  /\ \A v \in Vectors :
       /\ WF_vars(Interrupt(v)) /\ WF_vars(Handler(v))
       /\ SF_vars(PostQueue(v))
  /\ WF_vars(RunWork)

----------------------------------------------------------------------------
(* Properties.                                                             *)

\* The blocks with a bit set in the words that a handler has read.
BlocksSet(v) ==
  {b \in 0..Blocks(v)-1 : \E x \in StartBit(v, b)..EndBit(v, b) : (x % 32) \in words[v][x \div 32]}

\* When xp_irq_handler returns 0 it has posted an item for exactly the blocks
\* with a bit set in the words read, those that lie across two words too; and if
\* the handlers do not run in parallel each item tells its own block.
BlocksExact ==
  \A v \in Vectors :
    pc[v] = "blocks_done" =>
      /\ {x.for : x \in posted[v]} = BlocksSet(v)
      /\ cpus = 1 => \A x \in posted[v] : x.info = BlockInfo(v, x.for)

\* On one processor an event of a queue that is in no work item is still in the
\* status register, unless it came after the handler had read that (ClearStatus
\* gives those up).
StatusKept == cpus = 1 => \A q \in Queues : unreported[q] \subseteq stat[q]

\* "Clear all interrupts." clears only what was reported.
NoEventLost == [][\A q \in Queues : stat[q] \ stat'[q] # {} => late[q] = {}]_vars

\* The handler has posted an item for the bit, which names the queue of the bit.
Told(v, b) ==
  \E x \in posted[v], s \in SUBSET StatusBits : x = Posted(b, QueueInfo(QueueOf(b), s))

ServedStep ==
  \A b \in (source \ source') \ Others :
    \E v \in Vectors : /\ pc[v] = "clear_source"
                       /\ posted[v] # {}
                       /\ cpus = 1 => Told(v, b)

\* The interrupt of a queue goes away only at the end of a call of xp_irq_mgmt_
\* handler that has posted an item, memory permitting; and if the handlers do
\* not run in parallel the item names that queue: the interrupts of the other
\* queues stay pending.
SourceServed == [][ServedStep]_vars

\* The same on two processors.
ServedInParallel ==
  [][\A b \in (source \ source') \ Others : \E v \in Vectors : Told(v, b)]_vars

\* On one processor a queue with a pending interrupt is served, provided that the
\* queues before it fall silent, whatever the sources below the first queue do.
QueueServed ==
  cpus = 1 =>
    \A b \in Sources :
      (<>[](\A c \in source \ Others : c >= b)) => (b \in source ~> b \notin source)

\* On one processor a queue with a pending interrupt is served.
NoStarvation == cpus = 1 => \A b \in Sources : b \in source ~> b \notin source

\* A block whose bit stays set gets a work item.
BlockServed ==
  \A e \in HpEvents :
    (<>[](e \subseteq summary["high"])) => []<>(\E v \in Vectors : pc[v] = "post_block")

\* The worker takes an item and does not free it.
NoLeak == [][Len(w_queue') < Len(w_queue) => Head(w_queue) # 0]_vars

\* Signals go to the process that has registered for them.
OnlyToRegistered ==
  [][Len(w_queue') < Len(w_queue) /\ Head(w_queue) # 0
       => task[Head(w_queue)] # "other"]_vars

Labels == {"idle", "read", "blocks", "post_block", "blocks_done", "mgmt", "status", "post",
           "clear_status", "clear_source", "done", "failed"}
AllQueues == [q_type : {"rx", "tx"}, q_num : 0..63]
Locals == [j : 0..32, addr : AllQueues]
Info == [type : {"high", "low"}, block : Nat]
          \cup [queue : AllQueues, status : SUBSET StatusBits] \cup {NoInfo, AnyInfo}

\* Every variable of the device, the handlers and the work queue stays in its
\* range: a word has 32 bits, a handler looks at registers that exist.
TypeOK ==
  /\ cpus \in 1..2
  /\ rounds \in Nat
  /\ summary \in [{"high", "low"} -> SUBSET Nat]
  /\ source \subseteq Sources \cup Others
  /\ stat \in [Queues -> SUBSET StatusBits]
  /\ pc \in [Vectors -> Labels]
  /\ words \in [Vectors -> [0..3 -> SUBSET (0..31)]]
  /\ n \in [Vectors -> Nat]
  /\ local \in [Vectors -> Locals]
  /\ intr_info \in [Statics -> Info]
  /\ raced \in [Statics -> BOOLEAN]
  /\ w_queue \in Seq(Pids \cup {0})
  /\ app_pid \in Pids \cup {0}
  /\ task \in [Pids -> {"app", "other", "none"}]
  /\ unreported \in [Queues -> SUBSET StatusBits]
  /\ late \in [Queues -> SUBSET StatusBits]
  /\ posted \in [Vectors -> SUBSET [for : Nat, info : Info]]

=============================================================================
