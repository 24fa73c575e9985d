----------------------------- MODULE XpIrqProof -----------------------------
(***************************************************************************)
(* Proofs about XpIrq: which blocks an interrupt is reported for, and what *)
(* becomes of the events of the DMA queues.                                *)
(***************************************************************************)
EXTENDS XpIrq, WellFoundedInduction, TLAPS

----------------------------------------------------------------------------
(* The inductive invariant.                                                *)

\* On one processor one handler runs at a time.
OneAtATime ==
  cpus = 1 => \A u, v \in Vectors : u # v => pc[u] = "idle" \/ pc[v] = "idle"

\* Two handlers in one function race for its static variables; on one processor
\* none do.
RaceInv ==
  /\ \A f \in Statics : \A u, v \in Vectors :
       u # v /\ pc[u] \in Uses(f) /\ pc[v] \in Uses(f) => raced[f]
  /\ cpus = 1 => \A f \in Statics : ~raced[f]

\* Without a race the items posted for blocks tell those blocks.
Own(v) == cpus = 1 => \A x \in posted[v] : x.info = BlockInfo(v, x.for)

For(v) == {x.for : x \in posted[v]}
Found(v, k) == {b \in 0..k-1 : BlockValue(v, b) # {}}

\* In xp_irq_handler: items were posted for the blocks before n that have a bit
\* set.
BlockAt(v) ==
  /\ pc[v] \in {"blocks", "post_block"} => n[v] <= Blocks(v) /\ For(v) = Found(v, n[v]) /\ Own(v)
  /\ pc[v] = "post_block" =>
       /\ n[v] < Blocks(v) /\ BlockValue(v, n[v]) # {}
       /\ ~raced["block"] => intr_info["block"] = BlockInfo(v, n[v])
  /\ pc[v] = "blocks_done" => For(v) = Found(v, Blocks(v)) /\ Own(v)

\* In xp_irq_mgmt_handler: without a race intr_info has the queue of the bit
\* that was found, and its status is the one to be cleared; when something is
\* cleared an item was posted.
QueueAt(v) ==
  /\ pc[v] \in {"status", "post"} /\ ~raced["mgmt"] =>
       /\ local[v].j < 32
       /\ intr_info["mgmt"] \in [queue : {QueueOf(BitPos(v))}, status : SUBSET StatusBits]
  /\ pc[v] = "post" /\ ~raced["mgmt"] => local[v].addr = QueueOf(BitPos(v))
  /\ pc[v] \in {"clear_status", "clear_source"} =>
       /\ posted[v] # {}
       /\ cpus = 1 => local[v].j < 32 /\ Told(v, BitPos(v))

\* Nothing was posted in this interrupt.
NothingAt(v) ==
  pc[v] \in {"idle", "read", "mgmt", "status", "post"} => posted[v] = {}

At(v) == BlockAt(v) /\ QueueAt(v) /\ NothingAt(v)

HandlerInv == TypeOK /\ OneAtATime /\ RaceInv /\ \A v \in Vectors : At(v)

\* On one processor: what a handler has not read of a status is late, and so is
\* what it has not posted.
StatusInv ==
  cpus = 1 =>
    \A v \in Vectors, q \in Queues :
      q = local[v].addr =>
        /\ pc[v] = "post" => unreported[q] \subseteq intr_info["mgmt"].status \cup late[q]
        /\ pc[v] = "clear_status" => unreported[q] \subseteq late[q]

\* The lowest bit of a word that is not zero.
LEMMA MinIsLeast ==
  ASSUME NEW S, S \subseteq Nat, S # {}
  PROVE  Min(S) \in S /\ \A y \in S : Min(S) <= y
<1> DEFINE R == {ss \in Nat \X Nat : ss[1] < ss[2]}
<1>1. PICK x \in S : \A y \in S : ~(<<y, x>> \in R)
  <2>1. IsWellFoundedOn(R, Nat)
    BY NatLessThanWellFounded DEF OpToRel
  <2> HIDE DEF R
  <2> QED
    BY <2>1, WFMin
<1>2. \A y \in S : <<y, x>> \in Nat \X Nat /\ <<y, x>>[1] = y /\ <<y, x>>[2] = x
  OBVIOUS
<1>3. \A y \in S : ~(y < x)
  BY <1>1, <1>2
<1>4. \A y \in S : x <= y
  BY <1>3
<1> QED
  BY <1>4 DEF Min

----------------------------------------------------------------------------
(* Cutting a block out of the words.                                       *)

\* xp_block_number_get is not zero exactly when a bit of the block is set, for
\* any block of at most 32 bits that lies in one word or across two.
LEMMA BlockBits ==
  ASSUME NEW w \in [0..3 -> SUBSET (0..31)], NEW start \in 0..127, NEW end \in 0..127,
         start <= end, end - start < 32
  PROVE  xp_block_number_get(w, start, end, end - start + 1) # {}
           <=> \E x \in start..end : (x % 32) \in w[x \div 32]
<1> DEFINE a == start \div 32
           e == end \div 32
           s == start % 32
<1>1. /\ a \in 0..3 /\ e \in 0..3 /\ s \in 0..31
      /\ start = 32 * a + s /\ end % 32 \in 0..31 /\ end = 32 * e + (end % 32)
      /\ e = a \/ e = a + 1
  OBVIOUS
<1>2. w[a] \subseteq 0..31 /\ w[e] \subseteq 0..31
  BY <1>1
<1>3. CASE e = a
  <2>1. \A x \in start..end : x \div 32 = a /\ x % 32 = x - 32 * a
    BY <1>1, <1>3
  <2>2. xp_block_number_get(w, start, end, end - start + 1)
          = Shr(w[a], s) \cap (IF start # end THEN 0..(end - start + 1) - 1 ELSE {0})
    BY <1>3 DEF xp_block_number_get, xp_reg_mask
  <2>3. (IF start # end THEN 0..(end - start + 1) - 1 ELSE {0}) = 0..(end - start)
    <3>1. CASE start = end
      <4>1. 0..(end - start) = {0}
        BY <3>1
      <4> QED
        BY <3>1, <4>1
    <3>2. CASE start # end
      <4>1. (end - start + 1) - 1 = end - start
        OBVIOUS
      <4> QED
        BY <3>2, <4>1
    <3> QED
      BY <3>1, <3>2
  <2>4. ASSUME NEW y \in Shr(w[a], s), y \in 0..(end - start)
        PROVE  \E x \in start..end : (x % 32) \in w[x \div 32]
    <3>1. y + s \in w[a]
      BY <1>1, <1>2, <2>4 DEF Shr
    <3>2. start + y \in start..end /\ (start + y) - 32 * a = y + s
      BY <1>1, <2>4
    <3> DEFINE x == start + y
    <3>3. x % 32 = y + s /\ x \div 32 = a
      <4>1. x \in start..end /\ x - 32 * a = y + s
        BY <3>2
      <4> HIDE DEF a, e, s, x
      <4> QED
        BY <2>1, <4>1
    <3>4. ((start + y) % 32) \in w[(start + y) \div 32]
      BY <3>1, <3>3, Zenon
    <3> QED
      BY <3>2, <3>4
  <2>5. ASSUME NEW x \in start..end, (x % 32) \in w[x \div 32]
        PROVE  (x - 32 * a) - s \in Shr(w[a], s) \cap 0..(end - start)
    <3>1. x - 32 * a \in w[a] /\ x - 32 * a >= s
      BY <1>1, <2>1, <2>5
    <3> QED
      BY <1>1, <3>1 DEF Shr
  <2> QED
    BY <2>2, <2>3, <2>4, <2>5
<1>4. CASE e = a + 1
  <2>1. \A x \in start..end : /\ x < 32 * e => x \div 32 = a /\ x % 32 = x - 32 * a
                              /\ x >= 32 * e => x \div 32 = e /\ x % 32 = x - 32 * e
    BY <1>1, <1>4
  <2>2. xp_block_number_get(w, start, end, end - start + 1)
          = (Shr(w[a], s) \cup Shl(w[e], 32 - s)) \cap 0..(end - start + 1) - 1
    BY <1>1, <1>4 DEF xp_block_number_get, xp_reg_mask
  <2>3. ASSUME NEW y \in Shr(w[a], s), y \in 0..(end - start + 1) - 1
        PROVE  \E x \in start..end : (x % 32) \in w[x \div 32]
    <3>1. y + s \in w[a] /\ y + s <= 31
      BY <1>1, <1>2, <2>3 DEF Shr
    <3>2. start + y \in start..end /\ (start + y) - 32 * a = y + s /\ start + y < 32 * e
      BY <1>1, <1>4, <2>3, <3>1
    <3> DEFINE x == start + y
    <3>3. x % 32 = y + s /\ x \div 32 = a
      <4>1. x \in start..end /\ x - 32 * a = y + s /\ x < 32 * e
        BY <3>2
      <4> HIDE DEF a, e, s, x
      <4> QED
        BY <2>1, <4>1
    <3>4. ((start + y) % 32) \in w[(start + y) \div 32]
      BY <3>1, <3>3, Zenon
    <3> QED
      BY <3>2, <3>4
  <2>4. ASSUME NEW y \in Shl(w[e], 32 - s), y \in 0..(end - start + 1) - 1
        PROVE  \E x \in start..end : (x % 32) \in w[x \div 32]
    <3>1. PICK z \in w[e] : y = z + (32 - s)
      BY <2>4 DEF Shl
    <3>2. start + y \in start..end /\ (start + y) - 32 * e = z /\ start + y >= 32 * e
      BY <1>1, <1>2, <1>4, <2>4, <3>1
    <3> DEFINE x == start + y
    <3>3. x % 32 = z /\ x \div 32 = e
      <4>1. x \in start..end /\ x - 32 * e = z /\ x >= 32 * e
        BY <3>2
      <4> HIDE DEF a, e, s, x
      <4> QED
        BY <2>1, <4>1
    <3>4. ((start + y) % 32) \in w[(start + y) \div 32]
      BY <3>1, <3>3, Zenon
    <3> QED
      BY <3>2, <3>4
  <2>5. ASSUME NEW x \in start..end, (x % 32) \in w[x \div 32]
        PROVE  x - start \in (Shr(w[a], s) \cup Shl(w[e], 32 - s)) \cap 0..(end - start + 1) - 1
    <3>1. CASE x < 32 * e
      <4>1. x - 32 * a \in w[a] /\ x - 32 * a >= s /\ x - start = (x - 32 * a) - s
        BY <1>1, <2>1, <2>5, <3>1
      <4> QED
        BY <4>1 DEF Shr
    <3>2. CASE x >= 32 * e
      <4>1. x - 32 * e \in w[e] /\ x - start = (x - 32 * e) + (32 - s)
        BY <1>1, <1>4, <2>1, <2>5, <3>2
      <4>2. x - start < 32
        OBVIOUS
      <4> QED
        BY <4>1, <4>2 DEF Shl
    <3> QED
      BY <3>1, <3>2
  <2> QED
    BY <2>2, <2>3, <2>4, <2>5
<1> QED
  BY <1>1, <1>3, <1>4

\* The tables of the driver agree with each other: every block has the width
\* its bits say, and fits the words the handler reads.
LEMMA TablesAgree ==
  ASSUME NEW v \in {"high", "low"}, NEW b \in 0..Blocks(v)-1
  PROVE  /\ StartBit(v, b) \in 0..127 /\ EndBit(v, b) \in 0..127
         /\ StartBit(v, b) <= EndBit(v, b)
         /\ BitWidth(v, b) = EndBit(v, b) - StartBit(v, b) + 1
         /\ BitWidth(v, b) <= 32
<1>1. CASE v = "high"
  <2>1. b \in {0, 1, 2, 3, 4, 5, 6, 7, 8, 9, 10, 11, 12, 13, 14, 15, 16, 17, 18, 19, 20,
               21, 22, 23, 24, 25, 26, 27, 28, 29, 30, 31, 32, 33, 34}
    BY <1>1 DEF Blocks, NUM_HP_INT_REG_BLOCKS
  <2> QED
    BY <1>1, <2>1 DEF StartBit, EndBit, BitWidth, xp_hp_reg_start_bit, xp_hp_reg_end_bit,
                      xp_hp_reg_bit_width
<1>2. CASE v = "low"
  <2>1. b \in {0, 1, 2, 3, 4, 5, 6, 7, 8, 9, 10, 11, 12, 13, 14, 15, 16, 17, 18, 19, 20,
               21, 22, 23, 24, 25, 26, 27, 28, 29, 30, 31, 32}
    BY <1>2 DEF Blocks, NUM_LP_INT_REG_BLOCKS
  <2> QED
    BY <1>2, <2>1 DEF StartBit, EndBit, BitWidth, xp_lp_reg_start_bit, xp_lp_reg_end_bit,
                      xp_lp_reg_bit_width
<1> QED
  BY <1>1, <1>2

----------------------------------------------------------------------------
(* Registers and queues.                                                   *)

\* A bit of the source register always gives a queue number below 64.
LEMMA QueueType == \A bit \in Nat : QueueOf(bit) \in AllQueues
<1> SUFFICES ASSUME NEW bit \in Nat PROVE QueueOf(bit) \in AllQueues
  OBVIOUS
<1>1. DMA0_INTR_START_BIT_POS \in {8, 9}
  BY DEF DMA0_INTR_START_BIT_POS
<1> QED
  BY <1>1 DEF QueueOf, AllQueues, TOTAL_RX_QUEUE, TOTAL_TX_QUEUE

LEMMA QueuesAreQueues == Queues \subseteq AllQueues
BY QueueType, SourcesAssumption DEF Queues

\* What the handler finds in a word of the source register is a queue's bit,
\* never one of the sources below the first queue.
LEMMA SourceFound ==
  ASSUME source \subseteq Sources \cup Others, NEW k \in Nat, SourceWord(k) # {}
  PROVE  /\ Min(SourceWord(k)) \in source /\ Min(SourceWord(k)) \in Nat
         /\ QueueOf(Min(SourceWord(k))) \in Queues
<1>1. SourceWord(k) \subseteq source /\ source \subseteq Nat
  BY SourcesAssumption, OthersAssumption DEF SourceWord
<1> DEFINE m == Min(SourceWord(k))
<1>2. m \in SourceWord(k)
  BY <1>1, MinIsLeast
<1>3. m \in source /\ m \in Nat /\ (k = 0 => m >= DMA0_INTR_START_BIT_POS) /\ m \div 32 = k
  BY <1>1, <1>2 DEF SourceWord
<1>4. m \notin Others
  <2>1. DMA0_INTR_START_BIT_POS \in {8, 9}
    BY DEF DMA0_INTR_START_BIT_POS
  <2> SUFFICES ASSUME m \in Others PROVE FALSE
    OBVIOUS
  <2> HIDE DEF m
  <2>2. m \in 0..7
    BY OthersAssumption
  <2>3. m \div 32 = 0
    BY <2>2
  <2> QED
    BY <1>3, <2>1, <2>2, <2>3
<1> QED
  BY <1>3, <1>4 DEF Queues

\* A word of a summary register has 32 bits.
LEMMA SummaryWordType ==
  ASSUME TypeOK, NEW v \in {"high", "low"}, NEW k \in Nat
  PROVE  SummaryWord(v, k) \subseteq 0..31
<1>1. summary[v] \subseteq Nat /\ MgmtBit(v) \in Nat
  BY DEF TypeOK, MgmtBit
<1>2. \A x \in Nat : x \div 32 = k => x - 32 * k \in 0..31
  OBVIOUS
<1> QED
  BY <1>1, <1>2 DEF SummaryWord

----------------------------------------------------------------------------
(* What a step of one handler leaves alone.                                *)

\* A step of v leaves the locals of the other handlers alone.
Alone(v) ==
  /\ cpus' = cpus
  /\ \A u \in Vectors \ {v} :
       /\ pc'[u] = pc[u] /\ n'[u] = n[u] /\ words'[u] = words[u]
       /\ local'[u] = local[u] /\ posted'[u] = posted[u]

\* What another handler has in a static variable stays there, unless they race.
StaticKept(v) ==
  \A f \in Statics, u \in Vectors \ {v} :
    pc[u] \in Uses(f) /\ ~raced'[f] => ~raced[f] /\ intr_info'[f] = intr_info[f]

\* Such a step leaves what is known of another handler as it is.
LEMMA Framed ==
  ASSUME NEW v, NEW u \in Vectors \ {v}, At(u), Alone(v), StaticKept(v)
  PROVE  At(u)'
<1>1. /\ pc'[u] = pc[u] /\ n'[u] = n[u] /\ words'[u] = words[u] /\ cpus' = cpus
      /\ local'[u] = local[u] /\ posted'[u] = posted[u]
  BY DEF Alone
<1>2. /\ \A b : BlockValue(u, b)' = BlockValue(u, b)
      /\ BitPos(u)' = BitPos(u)
  BY <1>1 DEF BlockValue, BitPos
<1>3. /\ Own(u)' <=> Own(u)
      /\ For(u)' = For(u)
      /\ \A k : Found(u, k)' = Found(u, k)
      /\ \A b : Told(u, b)' <=> Told(u, b)
  BY <1>1, <1>2 DEF Own, For, Found, Told
<1>4. pc[u] = "post_block" /\ ~raced'["block"] =>
        ~raced["block"] /\ intr_info'["block"] = intr_info["block"]
  BY DEF StaticKept, Statics, Uses
<1>5. pc[u] \in {"status", "post"} /\ ~raced'["mgmt"] =>
        ~raced["mgmt"] /\ intr_info'["mgmt"] = intr_info["mgmt"]
  BY DEF StaticKept, Statics, Uses
<1>6. BlockAt(u)'
  BY <1>1, <1>2, <1>3, <1>4 DEF At, BlockAt
<1>7. QueueAt(u)'
  BY <1>1, <1>2, <1>3, <1>5 DEF At, QueueAt
<1> QED
  BY <1>1, <1>6, <1>7 DEF At, NothingAt

\* A handler that is in a function uses its variables.
LEMMA UseKept ==
  ASSUME HandlerInv, NEW v \in Vectors, Alone(v), raced' = raced,
         \A f \in Statics : pc'[v] \in Uses(f) => pc[v] \in Uses(f),
         \A f \in Statics : pc[v] \in Uses(f) \/ raced[f] \/ intr_info'[f] = intr_info[f]
  PROVE  StaticKept(v) /\ RaceInv'
<1>1. RaceInv
  BY DEF HandlerInv
<1>2. StaticKept(v)
  BY <1>1 DEF StaticKept, RaceInv
<1>3. ASSUME NEW f \in Statics, NEW u \in Vectors, NEW w \in Vectors,
             u # w, pc'[u] \in Uses(f), pc'[w] \in Uses(f)
      PROVE  raced'[f]
  BY <1>1, <1>3 DEF RaceInv, Alone
<1>4. \A f : Uses(f)' = Uses(f)
  BY DEF Uses
<1>5. cpus' = 1 => \A f \in Statics : ~raced'[f]
  BY <1>1 DEF RaceInv, Alone
<1> QED
  BY <1>2, <1>3, <1>4, <1>5 DEF RaceInv

\* A handler enters a function.
LEMMA EnterKept ==
  ASSUME HandlerInv, NEW v \in Vectors, NEW g \in Statics, Alone(v), Enter(v, g),
         pc[v] = "read", pc'[v] \in Uses(g)
  PROVE  StaticKept(v) /\ RaceInv'
<1>1. /\ RaceInv /\ OneAtATime /\ raced \in [Statics -> BOOLEAN]
      /\ intr_info \in [Statics -> Info]
  BY DEF HandlerInv, TypeOK
<1>2. /\ \A f \in Statics \ {g} : raced'[f] = raced[f] /\ intr_info'[f] = intr_info[f]
      /\ raced'[g] = UsedByOther(v, g)
  BY <1>1 DEF Enter
<1>3. StaticKept(v)
  BY <1>2 DEF StaticKept, UsedByOther
<1>4. \A f \in Statics \ {g} : pc'[v] \notin Uses(f)
  BY DEF Statics, Uses
<1>5. ASSUME NEW f \in Statics, NEW u \in Vectors, NEW w \in Vectors,
             u # w, pc'[u] \in Uses(f), pc'[w] \in Uses(f)
      PROVE  raced'[f]
  <2>1. CASE u # v /\ w # v
    <3>1. pc[u] \in Uses(f)
      BY <1>5, <2>1 DEF Alone
    <3>2. pc[w] \in Uses(f)
      BY <1>5, <2>1 DEF Alone
    <3>3. f = g => UsedByOther(v, g)
      BY <2>1, <3>1 DEF UsedByOther
    <3> QED
      BY <1>1, <1>2, <1>5, <3>1, <3>2, <3>3 DEF RaceInv
  <2>2. CASE u = v \/ w = v
    <3>1. f = g
      BY <1>4, <1>5, <2>2
    <3>2. UsedByOther(v, g)
      BY <1>5, <2>2, <3>1 DEF UsedByOther, Alone
    <3> QED
      BY <1>2, <3>1, <3>2
  <2> QED
    BY <2>1, <2>2
<1>6. cpus' = 1 => \A f \in Statics : ~raced'[f]
  <2> SUFFICES ASSUME cpus = 1 PROVE \A f \in Statics : ~raced'[f]
    BY DEF Alone
  <2>1. \A u \in Vectors \ {v} : pc[u] = "idle"
    BY <1>1 DEF OneAtATime
  <2>2. ~UsedByOther(v, g)
    BY <2>1 DEF UsedByOther, Uses
  <2> QED
    BY <1>1, <1>2, <2>2 DEF RaceInv
<1>7. \A f : Uses(f)' = Uses(f)
  BY DEF Uses
<1> QED
  BY <1>3, <1>5, <1>6, <1>7 DEF RaceInv

\* A handler that was not idle goes on: the other one stays idle if there is one
\* processor.
LEMMA StillOne ==
  ASSUME HandlerInv, NEW v \in Vectors, Alone(v), pc[v] # "idle"
  PROVE  OneAtATime'
BY DEF HandlerInv, OneAtATime, Alone

\* The parts of the invariant after a step of a handler.
LEMMA Assemble ==
  ASSUME HandlerInv, NEW v \in Vectors, Alone(v), StaticKept(v), TypeOK', OneAtATime', RaceInv',
         At(v)'
  PROVE  HandlerInv'
BY Framed DEF HandlerInv

----------------------------------------------------------------------------
(* The device, user space and the worker.                                  *)

\* Steps that leave the handlers alone.
LEMMA HandlersKept ==
  ASSUME HandlerInv, UNCHANGED <<cpus, handler, static, posted>>, TypeOK'
  PROVE  HandlerInv'
<1>1. ASSUME NEW u \in Vectors PROVE At(u)'
  <2>1. At(u)
    BY DEF HandlerInv
  <2>2. Alone("none") /\ StaticKept("none")
    BY DEF Alone, StaticKept, handler, static
  <2>3. u \in Vectors \ {"none"}
    BY VectorsAssumption
  <2> QED
    BY <2>1, <2>2, <2>3, Framed
<1>2. OneAtATime' /\ RaceInv'
  BY DEF HandlerInv, OneAtATime, RaceInv, handler, static, Uses
<1> QED
  BY <1>1, <1>2 DEF HandlerInv

\* The device raises bits.
LEMMA DeviceStep ==
  ASSUME HandlerInv, Device
  PROVE  HandlerInv'
<1>t. TypeOK
  BY DEF HandlerInv
<1>c. CountRound => rounds' \in Nat
  BY <1>t DEF CountRound, TypeOK
<1>1. ASSUME NEW v \in {"high", "low"}, NEW e \in Events(v), RaiseBlocks(v, e)
      PROVE  HandlerInv'
  <2>1. e \subseteq Nat
    BY EventsAssumption DEF Events
  <2>2. summary' \in [{"high", "low"} -> SUBSET Nat] /\ rounds' \in Nat
    BY <1>1, <1>c, <1>t, <2>1 DEF RaiseBlocks, TypeOK
  <2>3. UNCHANGED <<cpus, source, stat, handler, static, w_queue, app_pid, task, ghosts>>
    BY <1>1 DEF RaiseBlocks
  <2>4. TypeOK'
    BY <1>t, <2>2, <2>3 DEF TypeOK, handler, static, ghosts
  <2> QED
    BY <2>3, <2>4, HandlersKept DEF ghosts
<1>2. ASSUME NEW b \in Sources, NEW s \in StatusBits, RaiseQueue(b, s)
      PROVE  HandlerInv'
  <2>1. UNCHANGED <<cpus, summary, handler, static, w_queue, app_pid, task, posted>>
    BY <1>2 DEF RaiseQueue
  <2>2. /\ source' \subseteq Sources \cup Others
        /\ rounds' \in Nat
        /\ stat' \in [Queues -> SUBSET StatusBits]
        /\ unreported' \in [Queues -> SUBSET StatusBits]
        /\ late' \in [Queues -> SUBSET StatusBits]
    BY <1>2, <1>c, <1>t DEF RaiseQueue, TypeOK
  <2>3. TypeOK'
    BY <1>t, <2>1, <2>2 DEF TypeOK, handler, static
  <2> QED
    BY <2>1, <2>3, HandlersKept
<1>3. ASSUME NEW b \in Others, RaiseOther(b)
      PROVE  HandlerInv'
  <2>1. /\ UNCHANGED <<cpus, summary, stat, handler, static, w_queue, app_pid, task, ghosts>>
        /\ source' \subseteq Sources \cup Others /\ rounds' \in Nat
    BY <1>3, <1>c, <1>t DEF RaiseOther, TypeOK
  <2>2. TypeOK'
    BY <1>t, <2>1 DEF TypeOK, handler, static, ghosts
  <2> QED
    BY <2>1, <2>2, HandlersKept DEF ghosts
<1> QED
  BY <1>1, <1>2, <1>3 DEF Device

\* Processes come and go and clear what they have handled.
LEMMA UserStep ==
  ASSUME HandlerInv, UserSpace
  PROVE  HandlerInv'
<1>t. TypeOK
  BY DEF HandlerInv
<1>c. CountRound => rounds' \in Nat
  BY <1>t DEF CountRound, TypeOK
<1>1. /\ UNCHANGED <<cpus, stat, handler, static, w_queue, ghosts>>
      /\ rounds' \in Nat
      /\ summary' \in [{"high", "low"} -> SUBSET Nat]
      /\ source' \subseteq source
      /\ app_pid' \in Pids \cup {0}
      /\ task' \in [Pids -> {"app", "other", "none"}]
  <2>1. ASSUME NEW v \in {"high", "low"}, NEW e \in Events(v), AppClears(v, e)
        PROVE  <1>1!:
    BY <2>1, <1>c, <1>t DEF AppClears, TypeOK
  <2>2. ASSUME NEW b \in Others, AppClearsOther(b)
        PROVE  <1>1!:
    BY <2>2, <1>c, <1>t DEF AppClearsOther, TypeOK
  <2>3. ASSUME NEW p \in Pids,
               ProbeSetsPid(p) \/ RegisterPid(p) \/ AppExits(p) \/ PidGivenAgain(p)
        PROVE  <1>1!:
    BY <2>3, <1>c, <1>t DEF ProbeSetsPid, RegisterPid, AppExits, PidGivenAgain, TypeOK
  <2> QED
    BY <2>1, <2>2, <2>3 DEF UserSpace
<1>2. TypeOK'
  BY <1>t, <1>1 DEF TypeOK, handler, static, ghosts
<1> QED
  BY <1>1, <1>2, HandlersKept DEF ghosts

\* The worker takes an item.
LEMMA WorkStep ==
  ASSUME HandlerInv, RunWork
  PROVE  HandlerInv'
<1>1. UNCHANGED <<cpus, device, handler, static, app_pid, task, ghosts>>
      /\ w_queue' = Tail(w_queue) /\ w_queue # <<>>
  BY DEF RunWork
<1>2. w_queue' \in Seq(Pids \cup {0})
  BY <1>1 DEF HandlerInv, TypeOK
<1>3. TypeOK'
  BY <1>1, <1>2 DEF HandlerInv, TypeOK, device, handler, static, ghosts
<1> QED
  BY <1>1, <1>3, HandlersKept DEF ghosts

----------------------------------------------------------------------------
(* Steps of a handler.                                                     *)

\* An interrupt is delivered.
LEMMA InterruptStep ==
  ASSUME HandlerInv, NEW v \in Vectors, Interrupt(v)
  PROVE  HandlerInv'
<1>t. TypeOK
  BY DEF HandlerInv
<1>1. /\ UNCHANGED <<cpus, summary, source, stat, words, n, local, static, w_queue, app_pid,
                     task, ghosts>>
      /\ pc' = [pc EXCEPT ![v] = "read"] /\ pc[v] = "idle"
      /\ cpus = 2 \/ \A u \in Vectors : pc[u] = "idle"
      /\ rounds' \in Nat
  BY <1>t DEF Interrupt, Goto, CountRound, TypeOK
<1>2. pc' \in [Vectors -> Labels] /\ pc'[v] = "read"
      /\ \A u \in Vectors \ {v} : pc'[u] = pc[u]
  BY <1>t, <1>1 DEF TypeOK, Labels
<1>3. TypeOK'
  BY <1>t, <1>1, <1>2 DEF TypeOK, static, ghosts
<1>4. Alone(v)
  BY <1>1, <1>2 DEF Alone, ghosts
<1>5. StaticKept(v) /\ RaceInv'
  BY <1>1, <1>2, <1>4, UseKept DEF static, Uses
<1>6. OneAtATime'
  BY <1>1, <1>2 DEF OneAtATime
<1>7. At(v)'
  BY <1>1, <1>2 DEF HandlerInv, At, BlockAt, QueueAt, NothingAt, ghosts
<1> QED
  BY <1>3, <1>4, <1>5, <1>6, <1>7, Assemble

\* The handler reads a word of its summary register.
LEMMA ReadSummaryStep ==
  ASSUME HandlerInv, NEW v \in Vectors, ReadSummary(v)
  PROVE  HandlerInv'
<1>t. TypeOK
  BY DEF HandlerInv
<1>1. /\ UNCHANGED <<cpus, device, pc, local, static, w_queue, app_pid, task, ghosts>>
      /\ n' = [n EXCEPT ![v] = @ + 1] /\ pc[v] = "read" /\ n[v] < Words(v)
  BY DEF ReadSummary
<1>2. n[v] \in 0..3 /\ SummaryWord(v, n[v]) \subseteq 0..31 /\ n' \in [Vectors -> Nat]
  <2>1. v \in {"high", "low"} /\ n[v] \in Nat
    BY <1>t, VectorsAssumption DEF TypeOK
  <2>2. n[v] \in 0..3
    BY <1>1, <2>1 DEF Words
  <2>3. SummaryWord(v, n[v]) \subseteq 0..31
    BY <1>t, <2>1, SummaryWordType
  <2>4. n' \in [Vectors -> Nat]
    BY <1>t, <1>1 DEF TypeOK
  <2> QED
    BY <2>2, <2>3, <2>4
<1> DEFINE w == [words[v] EXCEPT ![n[v]] = SummaryWord(v, n[v])]
<1>3. words' = [words EXCEPT ![v] = w] /\ w \in [0..3 -> SUBSET (0..31)]
  BY <1>t, <1>2 DEF ReadSummary, TypeOK
<1> HIDE DEF w
<1>4. words' \in [Vectors -> [0..3 -> SUBSET (0..31)]]
      /\ \A u \in Vectors \ {v} : words'[u] = words[u] /\ n'[u] = n[u]
  BY <1>t, <1>1, <1>3 DEF TypeOK
<1>5. TypeOK'
  BY <1>t, <1>1, <1>2, <1>4 DEF TypeOK, device, static, ghosts
<1>6. Alone(v)
  BY <1>1, <1>4 DEF Alone, ghosts
<1>7. StaticKept(v) /\ RaceInv'
  BY <1>1, <1>6, UseKept DEF static
<1>8. OneAtATime'
  BY <1>1, <1>6, StillOne
<1>9. At(v)'
  BY <1>1 DEF HandlerInv, At, BlockAt, QueueAt, NothingAt, ghosts
<1> QED
  BY <1>5, <1>6, <1>7, <1>8, <1>9, Assemble

\* The handler takes one of its three ways.
LEMMA DecideStep ==
  ASSUME HandlerInv, NEW v \in Vectors, Decide(v)
  PROVE  HandlerInv'
<1>t. TypeOK
  BY DEF HandlerInv
<1>1. /\ UNCHANGED <<cpus, device, local, w_queue, app_pid, task, ghosts>>
      /\ pc[v] = "read" /\ n' = [n EXCEPT ![v] = 0]
      /\ words' = words \/ words' = [words EXCEPT ![v] = NoWords]
      /\ \/ pc' = [pc EXCEPT ![v] = "done"] /\ UNCHANGED static
         \/ pc' = [pc EXCEPT ![v] = "mgmt"] /\ Enter(v, "mgmt")
         \/ pc' = [pc EXCEPT ![v] = "blocks"] /\ Enter(v, "block")
  BY DEF Decide, Goto
<1>2. NoWords \in [0..3 -> SUBSET (0..31)]
  BY DEF NoWords
<1>3. /\ n' \in [Vectors -> Nat] /\ n'[v] = 0
      /\ words' \in [Vectors -> [0..3 -> SUBSET (0..31)]]
      /\ \A u \in Vectors \ {v} : n'[u] = n[u] /\ words'[u] = words[u] /\ pc'[u] = pc[u]
      /\ pc' \in [Vectors -> Labels] /\ pc'[v] \in {"done", "mgmt", "blocks"}
  BY <1>t, <1>1, <1>2 DEF TypeOK, Labels
<1>4. /\ intr_info' \in [Statics -> Info] /\ raced' \in [Statics -> BOOLEAN]
  BY <1>t, <1>1 DEF TypeOK, Enter, Info, static, UsedByOther
<1>5. TypeOK'
  BY <1>t, <1>1, <1>3, <1>4 DEF TypeOK, device, ghosts
<1>6. Alone(v)
  BY <1>1, <1>3 DEF Alone, ghosts
<1>7. StaticKept(v) /\ RaceInv'
  <2>1. CASE UNCHANGED static /\ pc'[v] = "done"
    BY <1>6, <2>1, UseKept DEF static, Uses
  <2>2. CASE Enter(v, "mgmt") /\ pc'[v] = "mgmt"
    BY <1>1, <1>6, <2>2, EnterKept DEF Statics, Uses
  <2>3. CASE Enter(v, "block") /\ pc'[v] = "blocks"
    BY <1>1, <1>6, <2>3, EnterKept DEF Statics, Uses
  <2> QED
    BY <1>t, <1>1, <2>1, <2>2, <2>3 DEF TypeOK
<1>8. OneAtATime'
  BY <1>1, <1>6, StillOne
<1>9. At(v)'
  <2>1. posted[v] = {} /\ posted'[v] = {}
    BY <1>1 DEF HandlerInv, At, NothingAt, ghosts
  <2>2. For(v)' = {} /\ Found(v, n[v])' = {} /\ Own(v)'
    BY <1>3, <2>1 DEF For, Found, Own
  <2>3. Blocks(v)' \in Nat
    BY DEF Blocks, NUM_HP_INT_REG_BLOCKS, NUM_LP_INT_REG_BLOCKS
  <2> QED
    BY <1>3, <2>1, <2>2, <2>3 DEF At, BlockAt, QueueAt, NothingAt
<1> QED
  BY <1>5, <1>6, <1>7, <1>8, <1>9, Assemble

\* What every block step knows.
LEMMA BlocksNat == \A v : Blocks(v) \in Nat
BY DEF Blocks, NUM_HP_INT_REG_BLOCKS, NUM_LP_INT_REG_BLOCKS

\* The next block with a bit set is found: between it and the last one there is
\* none.
LEMMA NextBlockStep ==
  ASSUME HandlerInv, NEW v \in Vectors, NextBlock(v)
  PROVE  HandlerInv'
<1>t. TypeOK
  BY DEF HandlerInv
<1> DEFINE m == Min(Pending(v))
<1>1. /\ UNCHANGED <<cpus, device, words, local, raced, w_queue, app_pid, task, ghosts>>
      /\ pc[v] = "blocks" /\ pc' = [pc EXCEPT ![v] = "post_block"]
      /\ n' = [n EXCEPT ![v] = m] /\ Put("block", BlockInfo(v, m)) /\ Pending(v) # {}
  BY DEF NextBlock, Goto
<1>2. /\ m \in n[v]..Blocks(v)-1 /\ BlockValue(v, m) # {}
      /\ \A b \in n[v]..Blocks(v)-1 : BlockValue(v, b) # {} => m <= b
  <2>1. n[v] \in Nat /\ Blocks(v) \in Nat
    BY <1>t, BlocksNat DEF TypeOK
  <2>2. Pending(v) \subseteq Nat
    BY <2>1 DEF Pending
  <2>3. m \in Pending(v) /\ \A b \in Pending(v) : m <= b
    BY <1>1, <2>2, MinIsLeast
  <2> QED
    BY <2>3 DEF Pending
<1> HIDE DEF m
<1>3. m \in Nat /\ n[v] \in Nat /\ m < Blocks(v) /\ n[v] <= m
  BY <1>t, <1>2, BlocksNat DEF TypeOK
<1>4. BlockInfo(v, m) \in Info
  BY <1>3, VectorsAssumption DEF BlockInfo, Info
<1>5. /\ n' \in [Vectors -> Nat] /\ n'[v] = m
      /\ pc' \in [Vectors -> Labels] /\ pc'[v] = "post_block"
      /\ \A u \in Vectors \ {v} : n'[u] = n[u] /\ pc'[u] = pc[u]
      /\ intr_info' \in [Statics -> Info]
      /\ ~raced["block"] => intr_info'["block"] = BlockInfo(v, m)
      /\ intr_info'["mgmt"] = intr_info["mgmt"]
  BY <1>t, <1>1, <1>3, <1>4 DEF TypeOK, Labels, Put, Statics
<1>6. TypeOK'
  BY <1>t, <1>1, <1>5 DEF TypeOK, device, ghosts
<1>7. Alone(v)
  BY <1>1, <1>5 DEF Alone, ghosts
<1>8. StaticKept(v) /\ RaceInv'
  BY <1>1, <1>5, <1>7, UseKept DEF Uses, Statics
<1>9. OneAtATime'
  BY <1>1, <1>7, StillOne
<1>10. At(v)'
  <2>1. For(v) = Found(v, n[v]) /\ Own(v)
    BY <1>1 DEF HandlerInv, At, BlockAt
  <2>2. /\ \A b : BlockValue(v, b)' = BlockValue(v, b)
        /\ For(v)' = For(v) /\ (Own(v)' <=> Own(v))
    BY <1>1 DEF BlockValue, For, Own, ghosts
  <2>3. \A b \in 0..m-1 : BlockValue(v, b) # {} => b \in 0..n[v]-1
    BY <1>2, <1>3, BlocksNat
  <2>4. Found(v, n[v])' = Found(v, n[v])
    <3>1. Found(v, n[v])' = {b \in 0..m-1 : BlockValue(v, b) # {}}
      BY <1>5, <2>2 DEF Found
    <3>2. \A b \in 0..n[v]-1 : b \in 0..m-1
      BY <1>3
    <3> QED
      BY <2>3, <3>1, <3>2 DEF Found
  <2>5. BlockValue(v, n[v])' # {}
    BY <1>2, <1>5, <2>2
  <2>6. BlockInfo(v, n[v])' = BlockInfo(v, m) /\ Blocks(v)' = Blocks(v)
    BY <1>5 DEF BlockInfo, Blocks
  <2>7. BlockAt(v)'
    BY <1>1, <1>3, <1>5, <2>1, <2>2, <2>4, <2>5, <2>6, BlocksNat DEF BlockAt
  <2> QED
    BY <1>5, <2>7 DEF At, QueueAt, NothingAt
<1> QED
  BY <1>6, <1>7, <1>8, <1>9, <1>10, Assemble

\* No block is left.
LEMMA NoBlockStep ==
  ASSUME HandlerInv, NEW v \in Vectors, NoBlock(v)
  PROVE  HandlerInv'
<1>t. TypeOK
  BY DEF HandlerInv
<1>1. /\ UNCHANGED <<cpus, device, words, n, local, static, w_queue, app_pid, task, ghosts>>
      /\ pc[v] = "blocks" /\ pc' = [pc EXCEPT ![v] = "blocks_done"] /\ Pending(v) = {}
  BY DEF NoBlock, Goto
<1>2. /\ pc' \in [Vectors -> Labels] /\ pc'[v] = "blocks_done"
      /\ \A u \in Vectors \ {v} : pc'[u] = pc[u]
  BY <1>t, <1>1 DEF TypeOK, Labels
<1>3. TypeOK'
  BY <1>t, <1>1, <1>2 DEF TypeOK, device, static, ghosts
<1>4. Alone(v)
  BY <1>1, <1>2 DEF Alone, ghosts
<1>5. StaticKept(v) /\ RaceInv'
  BY <1>1, <1>2, <1>4, UseKept DEF Uses, Statics, static
<1>6. OneAtATime'
  BY <1>1, <1>4, StillOne
<1>7. At(v)'
  <2>1. For(v) = Found(v, n[v]) /\ Own(v) /\ n[v] <= Blocks(v)
    BY <1>1 DEF HandlerInv, At, BlockAt
  <2>2. /\ \A b : BlockValue(v, b)' = BlockValue(v, b)
        /\ For(v)' = For(v) /\ (Own(v)' <=> Own(v)) /\ Blocks(v)' = Blocks(v)
    BY <1>1 DEF BlockValue, For, Own, ghosts, Blocks
  <2>3. n[v] \in Nat /\ Blocks(v) \in Nat
    BY <1>t, BlocksNat DEF TypeOK
  <2>4. \A b \in n[v]..Blocks(v)-1 : BlockValue(v, b) = {}
    BY <1>1 DEF Pending
  <2>5. Found(v, Blocks(v)) = Found(v, n[v])
    <3>1. \A b \in 0..Blocks(v)-1 : b \in n[v]..Blocks(v)-1 \/ b \in 0..n[v]-1
      BY <2>3
    <3>2. \A b \in 0..n[v]-1 : b \in 0..Blocks(v)-1
      BY <2>1, <2>3
    <3> QED
      BY <2>4, <3>1, <3>2 DEF Found
  <2>6. Found(v, Blocks(v))' = Found(v, Blocks(v))
    BY <2>2 DEF Found
  <2> QED
    BY <1>2, <2>1, <2>2, <2>5, <2>6 DEF At, BlockAt, QueueAt, NothingAt
<1> QED
  BY <1>3, <1>4, <1>5, <1>6, <1>7, Assemble

\* An item is posted for the block, or there is no memory.
LEMMA PostBlockStep ==
  ASSUME HandlerInv, NEW v \in Vectors, PostBlock(v)
  PROVE  HandlerInv'
<1>t. TypeOK
  BY DEF HandlerInv
<1> DEFINE x == Posted(n[v], Seen("block"))
<1>1. /\ UNCHANGED <<cpus, device, words, local, static, app_pid, task, unreported, late>>
      /\ pc[v] = "post_block"
      /\ \/ /\ w_queue' = Append(w_queue, app_pid)
            /\ posted' = [posted EXCEPT ![v] = @ \cup {x}]
            /\ n' = [n EXCEPT ![v] = @ + 1]
            /\ pc' = [pc EXCEPT ![v] = "blocks"]
         \/ pc' = [pc EXCEPT ![v] = "failed"] /\ UNCHANGED <<w_queue, posted, n>>
  BY DEF PostBlock, Goto
<1>2. x \in [for : Nat, info : Info] /\ x.for = n[v] /\ x.info = Seen("block")
  BY <1>t DEF TypeOK, Posted, Seen, Info, Statics
<1> HIDE DEF x
<1>3. /\ n' \in [Vectors -> Nat] /\ pc' \in [Vectors -> Labels]
      /\ posted' \in [Vectors -> SUBSET [for : Nat, info : Info]]
      /\ \A u \in Vectors \ {v} : n'[u] = n[u] /\ pc'[u] = pc[u] /\ posted'[u] = posted[u]
      /\ pc'[v] \in {"blocks", "failed"}
      /\ pc'[v] = "blocks" => n'[v] = n[v] + 1 /\ posted'[v] = posted[v] \cup {x}
  <2> DEFINE Items == [for : Nat, info : Info]
  <2>1. posted \in [Vectors -> SUBSET Items] /\ n \in [Vectors -> Nat] /\ pc \in [Vectors -> Labels]
        /\ x \in Items
    BY <1>t, <1>2 DEF TypeOK
  <2> HIDE DEF Items
  <2>2. CASE pc' = [pc EXCEPT ![v] = "failed"] /\ UNCHANGED <<posted, n>>
    <3>1. pc' \in [Vectors -> Labels] /\ pc'[v] = "failed"
          /\ \A u \in Vectors \ {v} : pc'[u] = pc[u]
      BY <2>1, <2>2 DEF Labels
    <3> QED
      BY <2>1, <2>2, <3>1 DEF Items
  <2>3. CASE /\ posted' = [posted EXCEPT ![v] = @ \cup {x}]
             /\ n' = [n EXCEPT ![v] = @ + 1]
             /\ pc' = [pc EXCEPT ![v] = "blocks"]
    <3>1. pc' \in [Vectors -> Labels] /\ pc'[v] = "blocks"
          /\ \A u \in Vectors \ {v} : pc'[u] = pc[u]
      BY <2>1, <2>3 DEF Labels
    <3>2. posted' \in [Vectors -> SUBSET Items] /\ posted'[v] = posted[v] \cup {x}
          /\ \A u \in Vectors \ {v} : posted'[u] = posted[u]
      BY <2>1, <2>3
    <3>3. n' \in [Vectors -> Nat] /\ n'[v] = n[v] + 1
          /\ \A u \in Vectors \ {v} : n'[u] = n[u]
      BY <2>1, <2>3
    <3> QED
      BY <3>1, <3>2, <3>3 DEF Items
  <2> QED
    BY <1>1, <2>2, <2>3
<1>4. w_queue' \in Seq(Pids \cup {0})
  <2>1. w_queue \in Seq(Pids \cup {0}) /\ app_pid \in Pids \cup {0}
    BY <1>t DEF TypeOK
  <2> QED
    BY <1>1, <2>1
<1>5. TypeOK'
  BY <1>t, <1>1, <1>3, <1>4 DEF TypeOK, device, static
<1>6. Alone(v)
  BY <1>1, <1>3 DEF Alone
<1>7. StaticKept(v) /\ RaceInv'
  BY <1>1, <1>3, <1>6, UseKept DEF Uses, Statics, static
<1>8. OneAtATime'
  BY <1>1, <1>6, StillOne
<1>9. At(v)'
  <2>1. CASE pc'[v] = "failed"
    BY <2>1 DEF At, BlockAt, QueueAt, NothingAt
  <2>2. CASE pc'[v] = "blocks"
    <3>1. /\ For(v) = Found(v, n[v]) /\ Own(v) /\ n[v] < Blocks(v) /\ BlockValue(v, n[v]) # {}
          /\ ~raced["block"] => intr_info["block"] = BlockInfo(v, n[v])
      BY <1>1 DEF HandlerInv, At, BlockAt
    <3>2. \A b : BlockValue(v, b)' = BlockValue(v, b)
      BY <1>1 DEF BlockValue
    <3>3. n[v] \in Nat /\ Blocks(v) \in Nat /\ Blocks(v)' = Blocks(v)
      BY <1>t, BlocksNat DEF TypeOK, Blocks
    <3>4. For(v)' = For(v) \cup {n[v]}
      BY <1>2, <1>3, <2>2 DEF For
    <3>5. Found(v, n[v])' = Found(v, n[v]) \cup {n[v]}
      <4>1. Found(v, n[v])' = {b \in 0..(n[v] + 1)-1 : BlockValue(v, b) # {}}
        BY <1>3, <2>2, <3>2 DEF Found
      <4>2. \A b : b \in 0..(n[v] + 1)-1 <=> (b \in 0..n[v]-1 \/ b = n[v])
        BY <3>3
      <4> QED
        BY <3>1, <4>1, <4>2 DEF Found
    <3>6. Own(v)'
      <4> SUFFICES ASSUME cpus = 1 PROVE \A y \in posted'[v] : y.info = BlockInfo(v, y.for)
        BY <1>1 DEF Own, BlockInfo
      <4>1. ~raced["block"]
        BY DEF HandlerInv, RaceInv, Statics
      <4>2. x.info = BlockInfo(v, x.for)
        BY <1>2, <3>1, <4>1 DEF Seen
      <4> QED
        BY <1>3, <2>2, <3>1, <4>2 DEF Own
    <3> QED
      BY <1>3, <2>2, <3>1, <3>3, <3>4, <3>5, <3>6 DEF At, BlockAt, QueueAt, NothingAt
  <2> QED
    BY <1>3, <2>1, <2>2
<1> QED
  BY <1>5, <1>6, <1>7, <1>8, <1>9, Assemble

\* j stays a bit of a word, or 32; it is below 32 if the word has a bit of a queue.
LEMMA NextJType ==
  ASSUME TypeOK, NEW v \in Vectors
  PROVE  NextJ(v) \in 0..32 /\ (SourceWord(n[v]) # {} => NextJ(v) < 32)
<1>1. local[v].j \in 0..32 /\ n[v] \in Nat
  BY DEF TypeOK, Locals
<1>2. SourceWord(n[v]) # {} =>
        Min(SourceWord(n[v])) \in Nat /\ ~(\A b \in source : b \div 32 # n[v])
  <2>1. SourceWord(n[v]) # {} => \E b \in source : b \div 32 = n[v]
    BY DEF SourceWord
  <2> QED
    BY <1>1, <2>1, SourceFound DEF TypeOK
<1>3. SourceWord(n[v]) # {} => Min(SourceWord(n[v])) % 32 \in 0..31
  BY <1>2
<1> QED
  BY <1>1, <1>2, <1>3 DEF NextJ

\* The handler goes on to the next word of the source register, or finds none.
LEMMA SkipSourceStep ==
  ASSUME HandlerInv, NEW v \in Vectors, SkipSource(v) \/ NoSource(v)
  PROVE  HandlerInv'
<1>t. TypeOK
  BY DEF HandlerInv
<1>1. /\ UNCHANGED <<cpus, device, words, static, w_queue, app_pid, task, ghosts>>
      /\ pc[v] = "mgmt"
      /\ \/ UNCHANGED pc /\ n' = [n EXCEPT ![v] = @ + 1] /\ local' = [local EXCEPT ![v].j = NextJ(v)]
         \/ pc' = [pc EXCEPT ![v] = "done"] /\ UNCHANGED <<n, local>>
  BY DEF SkipSource, NoSource, Goto
<1>2. NextJ(v) \in 0..32
  BY <1>t, NextJType
<1>3. /\ n' \in [Vectors -> Nat] /\ pc' \in [Vectors -> Labels] /\ local' \in [Vectors -> Locals]
      /\ \A u \in Vectors \ {v} : n'[u] = n[u] /\ pc'[u] = pc[u] /\ local'[u] = local[u]
      /\ pc'[v] \in {"mgmt", "done"}
  <2>0. n \in [Vectors -> Nat] /\ pc \in [Vectors -> Labels] /\ local \in [Vectors -> Locals]
    BY <1>t DEF TypeOK
  <2>1. CASE pc' = [pc EXCEPT ![v] = "done"] /\ UNCHANGED <<n, local>>
    BY <2>0, <2>1 DEF Labels
  <2>2. CASE UNCHANGED pc /\ n' = [n EXCEPT ![v] = @ + 1]
             /\ local' = [local EXCEPT ![v].j = NextJ(v)]
    <3>1. n' \in [Vectors -> Nat] /\ \A u \in Vectors \ {v} : n'[u] = n[u]
      BY <2>0, <2>2
    <3>2. local' \in [Vectors -> Locals] /\ \A u \in Vectors \ {v} : local'[u] = local[u]
      BY <1>2, <2>0, <2>2 DEF Locals
    <3> QED
      BY <1>1, <2>0, <2>2, <3>1, <3>2
  <2> QED
    BY <1>1, <2>1, <2>2
<1>5. TypeOK'
  BY <1>t, <1>1, <1>3 DEF TypeOK, device, static, ghosts
<1>6. Alone(v)
  BY <1>1, <1>3 DEF Alone, ghosts
<1>7. StaticKept(v) /\ RaceInv'
  BY <1>1, <1>3, <1>6, UseKept DEF Uses, Statics, static
<1>8. OneAtATime'
  BY <1>1, <1>6, StillOne
<1>9. At(v)'
  BY <1>1, <1>3 DEF HandlerInv, At, BlockAt, QueueAt, NothingAt, ghosts
<1> QED
  BY <1>5, <1>6, <1>7, <1>8, <1>9, Assemble

\* The queue of the lowest bit goes into intr_info.
LEMMA FindSourceStep ==
  ASSUME HandlerInv, NEW v \in Vectors, FindSource(v)
  PROVE  HandlerInv'
<1>t. TypeOK
  BY DEF HandlerInv
<1> DEFINE q == QueueOf(32 * n[v] + NextJ(v))
<1>1. /\ UNCHANGED <<cpus, device, words, n, raced, w_queue, app_pid, task, ghosts>>
      /\ pc[v] = "mgmt" /\ TRUE \in SeenFlag(v)
      /\ pc' = [pc EXCEPT ![v] = "status"]
      /\ local' = [local EXCEPT ![v].j = NextJ(v)]
      /\ Put("mgmt", QueueInfo(q, {}))
  BY DEF FindSource, Goto
<1>2. NextJ(v) \in 0..32 /\ (~raced["mgmt"] => NextJ(v) < 32)
  <2>1. ~raced["mgmt"] => SourceWord(n[v]) # {}
    BY <1>1 DEF SeenFlag
  <2> QED
    BY <1>t, <2>1, NextJType
<1>3. q \in AllQueues /\ q = QueueOf(BitPos(v))'
  <2>0. n[v] \in Nat
    BY <1>t DEF TypeOK
  <2>1. 32 * n[v] + NextJ(v) \in Nat
    BY <1>2, <2>0
  <2>2. BitPos(v)' = 32 * n[v] + NextJ(v)
    BY <1>t, <1>1 DEF BitPos, TypeOK, Locals
  <2>3. QueueOf(BitPos(v))' = QueueOf(BitPos(v)')
    BY DEF QueueOf, DMA0_INTR_START_BIT_POS
  <2> QED
    BY <2>1, <2>2, <2>3, QueueType
<1> HIDE DEF q
<1>4. QueueInfo(q, {}) \in Info /\ QueueInfo(q, {}) \in [queue : {q}, status : SUBSET StatusBits]
  BY <1>3 DEF QueueInfo, Info
<1>5. /\ pc' \in [Vectors -> Labels] /\ pc'[v] = "status"
      /\ local' \in [Vectors -> Locals] /\ local'[v].j = NextJ(v)
      /\ \A u \in Vectors \ {v} : pc'[u] = pc[u] /\ local'[u] = local[u]
      /\ intr_info' \in [Statics -> Info]
      /\ ~raced["mgmt"] => intr_info'["mgmt"] = QueueInfo(q, {})
      /\ intr_info'["block"] = intr_info["block"]
  BY <1>t, <1>1, <1>2, <1>4 DEF TypeOK, Labels, Put, Statics, Locals
<1>6. TypeOK'
  BY <1>t, <1>1, <1>5 DEF TypeOK, device, ghosts
<1>7. Alone(v)
  BY <1>1, <1>5 DEF Alone, ghosts
<1>8. StaticKept(v) /\ RaceInv'
  BY <1>1, <1>5, <1>7, UseKept DEF Uses, Statics
<1>9. OneAtATime'
  BY <1>1, <1>7, StillOne
<1>10. At(v)'
  <2>1. posted'[v] = {}
    BY <1>1 DEF HandlerInv, At, NothingAt, ghosts
  <2> QED
    BY <1>1, <1>2, <1>3, <1>4, <1>5, <2>1 DEF At, BlockAt, QueueAt, NothingAt
<1> QED
  BY <1>6, <1>7, <1>8, <1>9, <1>10, Assemble

\* The status register of the queue is read.
LEMMA ReadStatusStep ==
  ASSUME HandlerInv, NEW v \in Vectors, ReadStatus(v)
  PROVE  /\ HandlerInv'
         /\ ~raced["mgmt"] =>
              LET q == QueueOf(BitPos(v))
              IN /\ local'[v].addr = q
                 /\ q \in Queues => intr_info'["mgmt"].status = stat[q]
<1>t. TypeOK
  BY DEF HandlerInv
<1> DEFINE status(q) == IF q \in Queues THEN stat[q] ELSE {}
<1>1. /\ UNCHANGED <<cpus, device, words, n, raced, w_queue, app_pid, task, unreported, posted>>
      /\ pc[v] = "status"
      /\ pc' = [pc EXCEPT ![v] = "post"]
  BY DEF ReadStatus, Goto
<1>2. PICK q \in SeenQueue(v) :
        /\ local' = [local EXCEPT ![v].addr = q]
        /\ Put("mgmt", QueueInfo(q, status(q)))
        /\ late' = [u \in Queues |-> IF u = q THEN {} ELSE late[u]]
  BY DEF ReadStatus
<1>3. BitPos(v) \in Nat /\ local[v].j \in 0..32
  <2>1. n[v] \in Nat /\ local[v].j \in 0..32
    BY <1>t DEF TypeOK, Locals
  <2> QED
    BY <2>1 DEF BitPos
<1>4. ~raced["mgmt"] => /\ q = QueueOf(BitPos(v)) /\ local[v].j < 32
  BY <1>1, <1>2 DEF HandlerInv, At, QueueAt, SeenQueue
<1>5. q \in AllQueues
  BY <1>2, <1>3, <1>4, QueueType, QueuesAreQueues DEF SeenQueue
<1>6. status(q) \subseteq StatusBits
  BY <1>t DEF TypeOK
<1>7. /\ QueueInfo(q, status(q)) \in Info
      /\ QueueInfo(q, status(q)) \in [queue : {q}, status : SUBSET StatusBits]
      /\ QueueInfo(q, status(q)).status = status(q)
  BY <1>5, <1>6 DEF QueueInfo, Info
<1>8. ~raced["mgmt"] /\ QueueOf(BitPos(v)) \in Queues => status(q) = stat[QueueOf(BitPos(v))]
  BY <1>4
<1> HIDE DEF status
<1>9. /\ local' \in [Vectors -> Locals] /\ local'[v].addr = q /\ local'[v].j = local[v].j
      /\ \A u \in Vectors \ {v} : local'[u] = local[u]
  BY <1>t, <1>2, <1>5 DEF TypeOK, Locals
<1>10. /\ pc' \in [Vectors -> Labels] /\ pc'[v] = "post"
       /\ \A u \in Vectors \ {v} : pc'[u] = pc[u]
  BY <1>t, <1>1 DEF TypeOK, Labels
<1>11. /\ intr_info' \in [Statics -> Info]
       /\ ~raced["mgmt"] => intr_info'["mgmt"] = QueueInfo(q, status(q))
       /\ intr_info'["block"] = intr_info["block"]
  BY <1>t, <1>2, <1>7 DEF TypeOK, Put, Statics
<1>12. late' \in [Queues -> SUBSET StatusBits]
  BY <1>t, <1>2 DEF TypeOK
<1>13. TypeOK'
  BY <1>t, <1>1, <1>9, <1>10, <1>11, <1>12 DEF TypeOK, device
<1>14. Alone(v)
  BY <1>1, <1>9, <1>10 DEF Alone
<1>15. StaticKept(v) /\ RaceInv'
  BY <1>1, <1>10, <1>11, <1>14, UseKept DEF Uses, Statics
<1>16. OneAtATime'
  BY <1>1, <1>14, StillOne
<1>17. At(v)'
  <2>1. posted'[v] = {}
    BY <1>1 DEF HandlerInv, At, NothingAt
  <2>2. QueueOf(BitPos(v))' = QueueOf(BitPos(v))
    BY <1>1, <1>9 DEF QueueOf, DMA0_INTR_START_BIT_POS, BitPos
  <2> QED
    BY <1>1, <1>4, <1>7, <1>9, <1>10, <1>11, <2>1, <2>2 DEF At, BlockAt, QueueAt, NothingAt
<1> QED
  BY <1>4, <1>7, <1>8, <1>9, <1>11, <1>13, <1>14, <1>15, <1>16, <1>17, Assemble

\* Without memory the handler gives up.
LEMMA NoWorkStep ==
  ASSUME HandlerInv, NEW v \in Vectors, NoWork(v)
  PROVE  HandlerInv'
<1>t. TypeOK
  BY DEF HandlerInv
<1>1. /\ UNCHANGED <<cpus, device, words, n, local, static, w_queue, app_pid, task, unreported,
                     posted>>
      /\ pc[v] = "post" /\ pc' = [pc EXCEPT ![v] = "failed"]
      /\ late' = [q \in Queues |-> IF q = local[v].addr THEN {} ELSE late[q]]
  BY DEF NoWork, Goto
<1>2. /\ pc' \in [Vectors -> Labels] /\ pc'[v] = "failed"
      /\ \A u \in Vectors \ {v} : pc'[u] = pc[u]
      /\ late' \in [Queues -> SUBSET StatusBits]
  BY <1>t, <1>1 DEF TypeOK, Labels
<1>3. TypeOK'
  BY <1>t, <1>1, <1>2 DEF TypeOK, device, static
<1>4. Alone(v)
  BY <1>1, <1>2 DEF Alone
<1>5. StaticKept(v) /\ RaceInv'
  BY <1>1, <1>2, <1>4, UseKept DEF Uses, Statics, static
<1>6. OneAtATime'
  BY <1>1, <1>4, StillOne
<1>7. At(v)'
  BY <1>2 DEF At, BlockAt, QueueAt, NothingAt
<1> QED
  BY <1>3, <1>4, <1>5, <1>6, <1>7, Assemble

\* The item of the queue is posted.
LEMMA PostQueueStep ==
  ASSUME HandlerInv, NEW v \in Vectors, PostQueue(v)
  PROVE  HandlerInv'
<1>t. TypeOK
  BY DEF HandlerInv
<1> DEFINE x == Posted(BitPos(v), Seen("mgmt"))
<1>1. /\ UNCHANGED <<cpus, device, words, n, local, static, app_pid, task, late>>
      /\ pc[v] = "post" /\ pc' = [pc EXCEPT ![v] = "clear_status"]
      /\ w_queue' = Append(w_queue, app_pid)
      /\ posted' = [posted EXCEPT ![v] = @ \cup {x}]
  BY DEF PostQueue, Goto
<1>2. unreported' \in [Queues -> SUBSET StatusBits]
  <2>1. unreported \in [Queues -> SUBSET StatusBits]
    BY <1>t DEF TypeOK
  <2> DEFINE removed(q) == Seen("mgmt").status \ late[q]
             touched(q) == cpus = 1 /\ q = Seen("mgmt").queue
  <2>2. unreported' = [q \in Queues |-> IF touched(q) THEN unreported[q] \ removed(q)
                                        ELSE unreported[q]]
    BY DEF PostQueue
  <2> HIDE DEF removed, touched
  <2> QED
    BY <2>1, <2>2
<1>3. BitPos(v) \in Nat
  <2>1. n[v] \in Nat /\ local[v].j \in 0..32
    BY <1>t DEF TypeOK, Locals
  <2> QED
    BY <2>1 DEF BitPos
<1>4. x \in [for : Nat, info : Info]
  BY <1>t, <1>3 DEF TypeOK, Posted, Seen, Info, Statics
<1>5. cpus = 1 => /\ local[v].j < 32
                  /\ \E s \in SUBSET StatusBits : x = Posted(BitPos(v), QueueInfo(QueueOf(BitPos(v)), s))
  <2> SUFFICES ASSUME cpus = 1 PROVE <1>5!2
    OBVIOUS
  <2>1. ~raced["mgmt"]
    BY DEF HandlerInv, RaceInv, Statics
  <2>2. /\ local[v].j < 32
        /\ intr_info["mgmt"] \in [queue : {QueueOf(BitPos(v))}, status : SUBSET StatusBits]
    BY <1>1, <2>1 DEF HandlerInv, At, QueueAt
  <2>3. PICK s \in SUBSET StatusBits : intr_info["mgmt"] = QueueInfo(QueueOf(BitPos(v)), s)
    BY <2>2 DEF QueueInfo
  <2> QED
    BY <2>1, <2>2, <2>3 DEF Seen
<1> HIDE DEF x
<1>6. /\ pc' \in [Vectors -> Labels] /\ pc'[v] = "clear_status"
      /\ \A u \in Vectors \ {v} : pc'[u] = pc[u]
  BY <1>t, <1>1 DEF TypeOK, Labels
<1>7. /\ posted' \in [Vectors -> SUBSET [for : Nat, info : Info]]
      /\ \A u \in Vectors \ {v} : posted'[u] = posted[u]
      /\ x \in posted'[v]
  <2> DEFINE Items == [for : Nat, info : Info]
  <2>1. posted \in [Vectors -> SUBSET Items] /\ x \in Items
    BY <1>t, <1>4 DEF TypeOK
  <2> HIDE DEF Items
  <2>2. posted' \in [Vectors -> SUBSET Items] /\ x \in posted'[v]
        /\ \A u \in Vectors \ {v} : posted'[u] = posted[u]
    BY <1>1, <2>1
  <2> QED
    BY <2>2 DEF Items
<1>8. w_queue' \in Seq(Pids \cup {0})
  <2>1. w_queue \in Seq(Pids \cup {0}) /\ app_pid \in Pids \cup {0}
    BY <1>t DEF TypeOK
  <2> QED
    BY <1>1, <2>1
<1>9. TypeOK'
  BY <1>t, <1>1, <1>2, <1>6, <1>7, <1>8 DEF TypeOK, device, static
<1>10. Alone(v)
  BY <1>1, <1>6, <1>7 DEF Alone
<1>11. StaticKept(v) /\ RaceInv'
  BY <1>1, <1>6, <1>10, UseKept DEF Uses, Statics, static
<1>12. OneAtATime'
  BY <1>1, <1>10, StillOne
<1>13. At(v)'
  <2>1. BitPos(v)' = BitPos(v)
    BY <1>1 DEF BitPos
  <2>2. cpus = 1 => Told(v, BitPos(v))'
    BY <1>5, <1>7, <2>1 DEF Told, Posted, QueueInfo, QueueOf, DMA0_INTR_START_BIT_POS
  <2> QED
    BY <1>1, <1>5, <1>6, <1>7, <2>2 DEF At, BlockAt, QueueAt, NothingAt
<1> QED
  BY <1>9, <1>10, <1>11, <1>12, <1>13, Assemble

\* The status register is cleared.
LEMMA ClearStatusStep ==
  ASSUME HandlerInv, NEW v \in Vectors, ClearStatus(v)
  PROVE  HandlerInv'
<1>t. TypeOK
  BY DEF HandlerInv
<1>1. /\ UNCHANGED <<cpus, rounds, summary, source, words, n, local, static, w_queue, app_pid,
                     task, posted>>
      /\ pc[v] = "clear_status" /\ pc' = [pc EXCEPT ![v] = "clear_source"]
  BY DEF ClearStatus, Goto
<1>2. /\ stat' \in [Queues -> SUBSET StatusBits] /\ late' \in [Queues -> SUBSET StatusBits]
      /\ unreported' \in [Queues -> SUBSET StatusBits]
  BY <1>t DEF TypeOK, ClearStatus
<1>3. /\ pc' \in [Vectors -> Labels] /\ pc'[v] = "clear_source"
      /\ \A u \in Vectors \ {v} : pc'[u] = pc[u]
  BY <1>t, <1>1 DEF TypeOK, Labels
<1>4. TypeOK'
  BY <1>t, <1>1, <1>2, <1>3 DEF TypeOK, static
<1>5. Alone(v)
  BY <1>1, <1>3 DEF Alone
<1>6. StaticKept(v) /\ RaceInv'
  BY <1>1, <1>3, <1>5, UseKept DEF Uses, Statics, static
<1>7. OneAtATime'
  BY <1>1, <1>5, StillOne
<1>8. At(v)'
  <2>1. posted[v] # {} /\ (cpus = 1 => local[v].j < 32 /\ Told(v, BitPos(v)))
    BY <1>1 DEF HandlerInv, At, QueueAt
  <2>2. Told(v, BitPos(v))' <=> Told(v, BitPos(v))
    BY <1>1 DEF Told, BitPos, Posted, QueueInfo, QueueOf, DMA0_INTR_START_BIT_POS
  <2> QED
    BY <1>1, <1>3, <2>1, <2>2 DEF At, BlockAt, QueueAt, NothingAt
<1> QED
  BY <1>4, <1>5, <1>6, <1>7, <1>8, Assemble

\* The bit of the source register is cleared.
LEMMA ClearSourceStep ==
  ASSUME HandlerInv, NEW v \in Vectors, ClearSource(v)
  PROVE  HandlerInv'
<1>t. TypeOK
  BY DEF HandlerInv
<1>1. /\ UNCHANGED <<cpus, rounds, summary, stat, words, n, local, static, w_queue, app_pid,
                     task, ghosts>>
      /\ pc[v] = "clear_source" /\ pc' = [pc EXCEPT ![v] = "done"]
      /\ source' \subseteq source
  BY DEF ClearSource, Goto
<1>2. /\ pc' \in [Vectors -> Labels] /\ pc'[v] = "done"
      /\ \A u \in Vectors \ {v} : pc'[u] = pc[u]
  BY <1>t, <1>1 DEF TypeOK, Labels
<1>3. TypeOK'
  BY <1>t, <1>1, <1>2 DEF TypeOK, static, ghosts
<1>4. Alone(v)
  BY <1>1, <1>2 DEF Alone, ghosts
<1>5. StaticKept(v) /\ RaceInv'
  BY <1>1, <1>2, <1>4, UseKept DEF Uses, Statics, static
<1>6. OneAtATime'
  BY <1>1, <1>4, StillOne
<1>7. At(v)'
  BY <1>2 DEF At, BlockAt, QueueAt, NothingAt
<1> QED
  BY <1>3, <1>4, <1>5, <1>6, <1>7, Assemble

\* The handler returns.
LEMMA ReturnStep ==
  ASSUME HandlerInv, NEW v \in Vectors, HandlerReturns(v)
  PROVE  HandlerInv'
<1>t. TypeOK
  BY DEF HandlerInv
<1>1. /\ UNCHANGED <<cpus, device, w_queue, app_pid, task, unreported, late>>
      /\ pc[v] \in {"done", "blocks_done", "failed"} /\ pc' = [pc EXCEPT ![v] = "idle"]
      /\ intr_info' = [f \in Statics |-> IF UsedByOther(v, f) THEN intr_info[f] ELSE NoInfo]
      /\ raced' = [f \in Statics |-> UsedByOther(v, f) /\ raced[f]]
      /\ local' = [local EXCEPT ![v] = NoLocals]
      /\ words' = [words EXCEPT ![v] = NoWords]
      /\ n' = [n EXCEPT ![v] = 0]
      /\ posted' = [posted EXCEPT ![v] = {}]
  BY DEF HandlerReturns, Goto
<1>2. NoWords \in [0..3 -> SUBSET (0..31)] /\ NoLocals \in Locals /\ NoInfo \in Info
  BY QueueType DEF NoWords, NoLocals, Locals, Info
<1>3. /\ pc' \in [Vectors -> Labels] /\ n' \in [Vectors -> Nat] /\ pc'[v] = "idle"
      /\ \A u \in Vectors \ {v} : pc'[u] = pc[u] /\ n'[u] = n[u]
  BY <1>t, <1>1 DEF TypeOK, Labels
<1>4. /\ local' \in [Vectors -> Locals] /\ words' \in [Vectors -> [0..3 -> SUBSET (0..31)]]
      /\ \A u \in Vectors \ {v} : local'[u] = local[u] /\ words'[u] = words[u]
  BY <1>t, <1>1, <1>2 DEF TypeOK
<1>5. /\ posted' \in [Vectors -> SUBSET [for : Nat, info : Info]] /\ posted'[v] = {}
      /\ \A u \in Vectors \ {v} : posted'[u] = posted[u]
  BY <1>t, <1>1 DEF TypeOK
<1>6. /\ intr_info' \in [Statics -> Info] /\ raced' \in [Statics -> BOOLEAN]
  BY <1>t, <1>1, <1>2 DEF TypeOK
<1>7. TypeOK'
  BY <1>t, <1>1, <1>3, <1>4, <1>5, <1>6 DEF TypeOK, device
<1>8. Alone(v)
  BY <1>1, <1>3, <1>4, <1>5 DEF Alone
<1>9. \A f \in Statics, u \in Vectors \ {v} :
        pc[u] \in Uses(f) => raced'[f] = raced[f] /\ intr_info'[f] = intr_info[f]
  BY <1>t, <1>1 DEF UsedByOther, TypeOK
<1>10. StaticKept(v)
  BY <1>9 DEF StaticKept
<1>11. RaceInv'
  <2>1. RaceInv
    BY DEF HandlerInv
  <2>2. \A f : Uses(f)' = Uses(f) /\ pc'[v] \notin Uses(f)
    BY <1>3 DEF Uses
  <2>3. ASSUME NEW f \in Statics, NEW u \in Vectors, NEW w \in Vectors,
               u # w, pc'[u] \in Uses(f), pc'[w] \in Uses(f)
        PROVE  raced'[f]
    <3>1. u # v /\ w # v
      BY <2>2, <2>3
    <3>2. pc[u] \in Uses(f) /\ pc[w] \in Uses(f)
      BY <1>3, <2>3, <3>1
    <3> QED
      BY <1>9, <2>1, <2>3, <3>1, <3>2 DEF RaceInv
  <2>4. cpus' = 1 => \A f \in Statics : ~raced'[f]
    BY <1>1, <2>1 DEF RaceInv
  <2> QED
    BY <2>2, <2>3, <2>4 DEF RaceInv
<1>12. OneAtATime'
  BY <1>1, <1>8, StillOne
<1>13. At(v)'
  BY <1>3, <1>5 DEF At, BlockAt, QueueAt, NothingAt
<1> QED
  BY <1>7, <1>8, <1>10, <1>11, <1>12, <1>13, Assemble

\* The invariant of the handlers, whether or not they run in parallel.
THEOREM HandlerInvariance == Spec => []HandlerInv
<1>1. Init => HandlerInv
  <2> SUFFICES ASSUME Init PROVE HandlerInv
    OBVIOUS
  <2>1. NoWords \in [0..3 -> SUBSET (0..31)] /\ NoLocals \in Locals /\ NoInfo \in Info
    BY QueueType DEF NoWords, NoLocals, Locals, Info
  <2>2. TypeOK
    BY <2>1 DEF Init, TypeOK, Labels
  <2>3. OneAtATime /\ RaceInv
    BY DEF Init, OneAtATime, RaceInv, Uses
  <2>4. \A v \in Vectors : At(v)
    BY DEF Init, At, BlockAt, QueueAt, NothingAt
  <2> QED
    BY <2>2, <2>3, <2>4 DEF HandlerInv
<1>2. HandlerInv /\ [Next]_vars => HandlerInv'
  <2> SUFFICES ASSUME HandlerInv, [Next]_vars PROVE HandlerInv'
    OBVIOUS
  <2>1. CASE Device
    BY <2>1, DeviceStep
  <2>2. CASE UserSpace
    BY <2>2, UserStep
  <2>3. ASSUME NEW v \in Vectors, Interrupt(v) \/ Handler(v)
        PROVE  HandlerInv'
    BY <2>3, InterruptStep, ReadSummaryStep, DecideStep, NextBlockStep, NoBlockStep,
       PostBlockStep, SkipSourceStep, FindSourceStep, ReadStatusStep, NoWorkStep, PostQueueStep,
       ClearStatusStep, ClearSourceStep, ReturnStep DEF Handler
  <2>4. CASE RunWork
    BY <2>4, WorkStep
  <2>5. CASE UNCHANGED vars
    <3>1. UNCHANGED <<cpus, handler, static, posted>> /\ TypeOK'
      BY <2>5 DEF vars, HandlerInv, TypeOK, device, handler, static, ghosts
    <3> QED
      BY <3>1, HandlersKept
  <2> QED
    BY <2>1, <2>2, <2>3, <2>4, <2>5 DEF Next
<1> QED
  BY <1>1, <1>2, PTL DEF Spec

\* When xp_irq_handler returns 0 it has posted an item for exactly the blocks with
\* a bit set in the words it has read, also those that lie across two words and
\* also if the other handler runs in parallel; on one processor every item tells
\* its own block.
THEOREM BlocksReported == Spec => []BlocksExact
<1>1. HandlerInv => BlocksExact
  <2> SUFFICES ASSUME HandlerInv, NEW v \in Vectors, pc[v] = "blocks_done"
               PROVE  /\ For(v) = BlocksSet(v)
                      /\ cpus = 1 => \A x \in posted[v] : x.info = BlockInfo(v, x.for)
    BY DEF BlocksExact, For
  <2>1. For(v) = Found(v, Blocks(v)) /\ Own(v)
    BY DEF HandlerInv, At, BlockAt
  <2>2. v \in {"high", "low"} /\ words[v] \in [0..3 -> SUBSET (0..31)]
    BY VectorsAssumption DEF HandlerInv, TypeOK
  <2>3. ASSUME NEW b \in 0..Blocks(v)-1
        PROVE  BlockValue(v, b) # {}
                 <=> \E x \in StartBit(v, b)..EndBit(v, b) : (x % 32) \in words[v][x \div 32]
    <3> DEFINE s == StartBit(v, b)
               e == EndBit(v, b)
    <3>1. /\ s \in 0..127 /\ e \in 0..127 /\ s <= e
          /\ BitWidth(v, b) = e - s + 1 /\ BitWidth(v, b) <= 32
      BY <2>2, TablesAgree
    <3> HIDE DEF s, e
    <3>2. e - s < 32
      BY <3>1
    <3>3. xp_block_number_get(words[v], s, e, e - s + 1) # {}
            <=> \E x \in s..e : (x % 32) \in words[v][x \div 32]
      BY <2>2, <3>1, <3>2, BlockBits
    <3> QED
      BY <3>1, <3>3 DEF s, e, BlockValue
  <2>4. Found(v, Blocks(v)) = BlocksSet(v)
    BY <2>3 DEF Found, BlocksSet
  <2> QED
    BY <2>1, <2>4 DEF Own
<1> QED
  BY <1>1, HandlerInvariance, PTL

\* The interrupt of a queue goes away only after an item was posted, also if the
\* handlers run in parallel; on one processor the item names that queue.
THEOREM OthersStayPending == Spec => SourceServed
<1>1. HandlerInv /\ [Next]_vars => [ServedStep]_vars
  <2> SUFFICES ASSUME HandlerInv, Next PROVE ServedStep
    OBVIOUS
  <2>1. ASSUME NEW v \in Vectors, ClearSource(v)
        PROVE  ServedStep
    <3>1. /\ pc[v] = "clear_source" /\ posted[v] # {}
          /\ cpus = 1 => local[v].j < 32 /\ Told(v, BitPos(v))
      BY <2>1 DEF ClearSource, HandlerInv, At, QueueAt
    <3>2. ASSUME cpus = 1, NEW b \in source \ source'
          PROVE  b = BitPos(v)
      <4>1. local[v].j # 32
        BY <3>1, <3>2 DEF HandlerInv, TypeOK, Locals
      <4>2. source' = source \ {32 * n[v] + c : c \in {local[v].j}}
        BY <2>1, <4>1 DEF ClearSource, Shifted
      <4> QED
        BY <3>2, <4>2 DEF BitPos
    <3> QED
      BY <3>1, <3>2 DEF ServedStep
  <2>2. ASSUME NEW b \in Others, AppClearsOther(b) PROVE ServedStep
    BY <2>2 DEF AppClearsOther, ServedStep
  <2>3. ASSUME source \subseteq source' PROVE ServedStep
    BY <2>3 DEF ServedStep
  <2>4. ASSUME NEW v \in Vectors, Interrupt(v) \/ Handler(v), ~ClearSource(v)
        PROVE  source' = source
    BY <2>4 DEF Interrupt, Handler, ReadSummary, Decide, NextBlock, NoBlock, PostBlock,
       SkipSource, NoSource, FindSource, ReadStatus, NoWork, PostQueue, ClearStatus,
       HandlerReturns, device
  <2>5. Device \/ RunWork => source \subseteq source'
    BY DEF Device, RaiseBlocks, RaiseQueue, RaiseOther, RunWork, device
  <2>6. ASSUME NEW v \in {"high", "low"}, NEW e \in Events(v), AppClears(v, e)
        PROVE  source' = source
    BY <2>6 DEF AppClears
  <2>7. ASSUME NEW p \in Pids,
               ProbeSetsPid(p) \/ RegisterPid(p) \/ AppExits(p) \/ PidGivenAgain(p)
        PROVE  source' = source
    BY <2>7 DEF ProbeSetsPid, RegisterPid, AppExits, PidGivenAgain
  <2> QED
    BY <2>1, <2>2, <2>3, <2>4, <2>5, <2>6, <2>7 DEF Next, UserSpace
<1> QED
  BY <1>1, HandlerInvariance, PTL DEF Spec, SourceServed

----------------------------------------------------------------------------
(* The status registers of the queues.                                     *)

EventInv == StatusInv /\ StatusKept

\* On one processor: the handlers other than the one that runs are idle.
LEMMA OnlyOne ==
  ASSUME HandlerInv, cpus = 1, NEW v \in Vectors, pc[v] # "idle"
  PROVE  \A u \in Vectors \ {v} : pc[u] = "idle"
BY DEF HandlerInv, OneAtATime

\* Steps that touch neither the registers of the queues nor what the handlers
\* know of them.
LEMMA QuietEvents ==
  ASSUME EventInv, UNCHANGED <<cpus, stat, unreported, late, pc, local, intr_info>>
  PROVE  EventInv'
BY DEF EventInv, StatusInv, StatusKept

\* An event of a queue whose status was read already is noted as late.
LEMMA RaiseEvents ==
  ASSUME HandlerInv, EventInv, NEW b \in Sources, NEW s \in StatusBits, RaiseQueue(b, s)
  PROVE  EventInv'
<1> SUFFICES ASSUME cpus = 1 PROVE EventInv'
  BY DEF RaiseQueue, EventInv, StatusInv, StatusKept
<1> DEFINE q == QueueOf(b)
<1>1. /\ cpus' = cpus /\ pc' = pc /\ local' = local /\ intr_info' = intr_info
      /\ stat' = [stat EXCEPT ![q] = @ \cup {s}]
      /\ unreported' = [unreported EXCEPT ![q] = @ \cup {s}]
      /\ late' = IF BetweenReadAndClear(q) THEN [late EXCEPT ![q] = @ \cup {s}] ELSE late
  BY DEF RaiseQueue, handler, static
<1>2. /\ q \in Queues /\ stat \in [Queues -> SUBSET StatusBits]
      /\ unreported \in [Queues -> SUBSET StatusBits] /\ late \in [Queues -> SUBSET StatusBits]
  BY DEF Queues, HandlerInv, TypeOK
<1> HIDE DEF q
<1>3. StatusKept'
  BY <1>1, <1>2 DEF EventInv, StatusKept
<1>4. ASSUME NEW v \in Vectors, pc[v] \in {"post", "clear_status"}, NEW r \in Queues,
             r = local[v].addr
      PROVE  /\ late[r] \subseteq late'[r]
             /\ unreported'[r] \subseteq unreported[r] \cup late'[r]
  <2>1. r = q => BetweenReadAndClear(q)
    BY <1>4 DEF BetweenReadAndClear
  <2>2. CASE r = q
    BY <1>1, <1>2, <2>1, <2>2
  <2>3. CASE r # q
    BY <1>1, <1>2, <1>4, <2>3
  <2> QED
    BY <2>2, <2>3
<1>5. StatusInv'
  BY <1>1, <1>4 DEF EventInv, StatusInv
<1> QED
  BY <1>3, <1>5 DEF EventInv

\* Steps of a handler after which it has read no status, or cleared it.
LEMMA PlainEvents ==
  ASSUME HandlerInv, EventInv, NEW v \in Vectors, Alone(v), pc[v] # "idle",
         pc'[v] \notin {"post", "clear_status"}, StatusKept'
  PROVE  EventInv'
<1> SUFFICES ASSUME cpus = 1 PROVE EventInv'
  BY DEF Alone, EventInv, StatusInv
<1>1. \A u \in Vectors \ {v} : pc'[u] = "idle"
  BY OnlyOne DEF Alone
<1>2. StatusInv'
  BY <1>1 DEF StatusInv
<1> QED
  BY <1>2 DEF EventInv

\* A handler reads the status of the queue it has found.
LEMMA ReadEvents ==
  ASSUME HandlerInv, EventInv, NEW v \in Vectors, ReadStatus(v)
  PROVE  EventInv'
<1>1. /\ UNCHANGED <<cpus, stat, unreported>> /\ pc[v] = "status"
      /\ pc' = [pc EXCEPT ![v] = "post"]
  BY DEF ReadStatus, Goto, device
<1> SUFFICES ASSUME cpus = 1 PROVE EventInv'
  BY <1>1 DEF EventInv, StatusInv, StatusKept
<1> DEFINE q == QueueOf(BitPos(v))
<1>2. local'[v].addr = q /\ (q \in Queues => intr_info'["mgmt"].status = stat[q])
  <2>1. ~raced["mgmt"]
    BY DEF HandlerInv, RaceInv, Statics
  <2> QED
    BY <2>1, ReadStatusStep
<1> HIDE DEF q
<1>3. pc'[v] = "post" /\ \A u \in Vectors \ {v} : pc'[u] = "idle"
  BY <1>1, OnlyOne DEF HandlerInv, TypeOK
<1>4. StatusKept /\ StatusKept'
  BY <1>1 DEF EventInv, StatusKept
<1>5. q \in Queues => unreported'[q] \subseteq intr_info'["mgmt"].status
  BY <1>1, <1>2, <1>4 DEF StatusKept
<1>6. StatusInv'
  BY <1>2, <1>3, <1>5 DEF StatusInv
<1> QED
  BY <1>4, <1>6 DEF EventInv

\* It posts the item: what is not late is reported.
LEMMA PostEvents ==
  ASSUME HandlerInv, EventInv, NEW v \in Vectors, PostQueue(v)
  PROVE  EventInv'
<1>1. /\ UNCHANGED <<cpus, stat, late, local>> /\ pc[v] = "post"
      /\ pc' = [pc EXCEPT ![v] = "clear_status"]
  BY DEF PostQueue, Goto, device
<1> SUFFICES ASSUME cpus = 1 PROVE EventInv'
  BY <1>1 DEF EventInv, StatusInv, StatusKept
<1> DEFINE a == local[v].addr
           s == intr_info["mgmt"].status
<1>2. ~raced["mgmt"] /\ intr_info["mgmt"].queue = a
  <2>1. ~raced["mgmt"]
    BY DEF HandlerInv, RaceInv, Statics
  <2>2. /\ intr_info["mgmt"] \in [queue : {QueueOf(BitPos(v))}, status : SUBSET StatusBits]
        /\ a = QueueOf(BitPos(v))
    BY <1>1, <2>1 DEF HandlerInv, At, QueueAt
  <2> QED
    BY <2>1, <2>2
<1>3. unreported' = [q \in Queues |-> IF q = a THEN unreported[q] \ (s \ late[q])
                                      ELSE unreported[q]]
  BY <1>2 DEF PostQueue, Seen
<1>4. a \in Queues => unreported[a] \subseteq s \cup late[a]
  BY <1>1 DEF EventInv, StatusInv
<1>5. pc'[v] = "clear_status" /\ \A u \in Vectors \ {v} : pc'[u] = "idle"
  BY <1>1, OnlyOne DEF HandlerInv, TypeOK
<1>6. local'[v].addr = a
  BY <1>1
<1> HIDE DEF a, s
<1>7. /\ a \in Queues => unreported'[a] \subseteq late[a]
      /\ \A q \in Queues : unreported'[q] \subseteq unreported[q]
  BY <1>3, <1>4
<1>8. StatusKept'
  BY <1>1, <1>7 DEF EventInv, StatusKept
<1>9. StatusInv'
  BY <1>1, <1>5, <1>6, <1>7 DEF StatusInv
<1> QED
  BY <1>8, <1>9 DEF EventInv

\* It clears the status: what is not reported was late.
LEMMA ClearEvents ==
  ASSUME HandlerInv, EventInv, NEW v \in Vectors, ClearStatus(v)
  PROVE  EventInv'
<1>1. /\ cpus' = cpus /\ pc[v] = "clear_status" /\ pc' = [pc EXCEPT ![v] = "clear_source"]
      /\ UNCHANGED <<words, n, local, posted>>
  BY DEF ClearStatus, Goto
<1>2. pc'[v] = "clear_source" /\ Alone(v)
  BY <1>1 DEF HandlerInv, TypeOK, Alone
<1>3. StatusKept'
  <2> SUFFICES ASSUME cpus = 1, NEW q \in Queues PROVE unreported'[q] \subseteq stat'[q]
    BY <1>1 DEF StatusKept
  <2>1. q = local[v].addr => unreported[q] \subseteq late[q]
    BY <1>1 DEF EventInv, StatusInv
  <2>2. unreported[q] \subseteq stat[q]
    BY DEF EventInv, StatusKept
  <2> QED
    BY <2>1, <2>2 DEF ClearStatus
<1> QED
  BY <1>1, <1>2, <1>3, PlainEvents

\* Every other step of a handler.
LEMMA OtherEvents ==
  ASSUME HandlerInv, EventInv, NEW v \in Vectors,
         \/ ReadSummary(v) \/ Decide(v) \/ NextBlock(v) \/ NoBlock(v) \/ PostBlock(v)
         \/ SkipSource(v) \/ NoSource(v) \/ FindSource(v) \/ NoWork(v) \/ ClearSource(v)
         \/ HandlerReturns(v)
  PROVE  EventInv'
<1>1. UNCHANGED <<cpus, stat, unreported>> /\ pc[v] \notin {"idle", "clear_status"}
  BY DEF ReadSummary, Decide, NextBlock, NoBlock, PostBlock, SkipSource, NoSource, FindSource,
     NoWork, ClearSource, HandlerReturns, device, ghosts
<1>2. StatusKept'
  BY <1>1 DEF EventInv, StatusKept
<1>3. pc \in [Vectors -> Labels]
  BY DEF HandlerInv, TypeOK
<1>4. /\ pc'[v] \notin {"post", "clear_status"}
      /\ \A u \in Vectors \ {v} : pc'[u] = pc[u]
  BY <1>3 DEF ReadSummary, Decide, NextBlock, NoBlock, PostBlock, SkipSource, NoSource,
     FindSource, NoWork, ClearSource, HandlerReturns, Goto
<1> SUFFICES ASSUME cpus = 1 PROVE EventInv'
  BY <1>1, <1>2 DEF EventInv, StatusInv
<1>5. \A u \in Vectors \ {v} : pc'[u] = "idle"
  BY <1>1, <1>4, OnlyOne
<1>6. StatusInv'
  BY <1>4, <1>5 DEF StatusInv
<1> QED
  BY <1>2, <1>6 DEF EventInv

\* A handler starts when no other one runs.
LEMMA InterruptEvents ==
  ASSUME HandlerInv, EventInv, NEW v \in Vectors, Interrupt(v)
  PROVE  EventInv'
<1>1. /\ UNCHANGED <<cpus, stat, unreported>>
      /\ cpus = 2 \/ \A u \in Vectors : pc[u] = "idle"
      /\ pc' = [pc EXCEPT ![v] = "read"]
  BY DEF Interrupt, Goto, ghosts
<1>2. StatusKept'
  BY <1>1 DEF EventInv, StatusKept
<1>3. cpus = 1 => \A u \in Vectors : pc'[u] \in {"read", "idle"}
  BY <1>1 DEF HandlerInv, TypeOK
<1>4. StatusInv'
  BY <1>1, <1>3 DEF StatusInv
<1> QED
  BY <1>2, <1>4 DEF EventInv

\* On one processor an event of a queue stays in its status register until it is
\* in a work item, out of memory included; the only exception is an event between
\* the read of the register and its clearing.
THEOREM EventsAreKept == Spec => []StatusKept
<1>1. Init => EventInv
  BY DEF Init, EventInv, StatusInv, StatusKept
<1>2. HandlerInv /\ EventInv /\ [Next]_vars => EventInv'
  <2> SUFFICES ASSUME HandlerInv, EventInv, [Next]_vars PROVE EventInv'
    OBVIOUS
  <2>1. ASSUME NEW v \in {"high", "low"}, NEW e \in Events(v), RaiseBlocks(v, e) \/ AppClears(v, e)
        PROVE  EventInv'
    BY <2>1, QuietEvents DEF RaiseBlocks, AppClears, handler, static, ghosts
  <2>2. ASSUME NEW b \in Sources, NEW s \in StatusBits, RaiseQueue(b, s)
        PROVE  EventInv'
    BY <2>2, RaiseEvents
  <2>3. ASSUME NEW b \in Others, RaiseOther(b) \/ AppClearsOther(b)
        PROVE  EventInv'
    BY <2>3, QuietEvents DEF RaiseOther, AppClearsOther, handler, static, ghosts
  <2>4. ASSUME NEW p \in Pids,
               ProbeSetsPid(p) \/ RegisterPid(p) \/ AppExits(p) \/ PidGivenAgain(p)
        PROVE  EventInv'
    BY <2>4, QuietEvents
    DEF ProbeSetsPid, RegisterPid, AppExits, PidGivenAgain, handler, static, ghosts
  <2>5. ASSUME NEW v \in Vectors, Interrupt(v) \/ Handler(v)
        PROVE  EventInv'
    BY <2>5, InterruptEvents, ReadEvents, PostEvents, ClearEvents, OtherEvents DEF Handler
  <2>6. CASE RunWork \/ UNCHANGED vars
    BY <2>6, QuietEvents DEF RunWork, vars, device, handler, static, ghosts
  <2> QED
    BY <2>1, <2>2, <2>3, <2>4, <2>5, <2>6 DEF Next, Device, UserSpace
<1>3. EventInv => StatusKept
  BY DEF EventInv
<1> QED
  BY <1>1, <1>2, <1>3, HandlerInvariance, PTL DEF Spec

=============================================================================
