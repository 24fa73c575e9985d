--------------------------- MODULE XpDmaMemProof ---------------------------
(***************************************************************************)
(* Proofs about XpDmaMem for one caller at a time: whatever fails, the     *)
(* list of areas, what is allocated and what user space holds agree; no    *)
(* area is given back twice; the offset user space was told finds its own  *)
(* area; and a cleanup gives everything back that has an entry.            *)
(***************************************************************************)
EXTENDS XpDmaMem, TLAPS

\* The calls do not overlap.  Nothing in the code ensures it: section 6 of the
\* README shows what happens otherwise.
OneCaller == \A c, u \in Callers : c = u

\* Each area is in the list once.
Once(s) == \A j, k \in 1 .. Len(s) : s[j].paddr = s[k].paddr => j = k

----------------------------------------------------------------------------
(* The operations on the list.                                             *)

LEMMA Appended ==
  ASSUME NEW s \in Seq(Entry), NEW e \in Entry
  PROVE  /\ Append(s, e) \in Seq(Entry)
         /\ Members(Append(s, e)) = Members(s) \cup {e}
         /\ Once(s) /\ e.paddr \notin PaddrsOf(s) => Once(Append(s, e))
<1> DEFINE t == Append(s, e)
<1>1. /\ t \in Seq(Entry) /\ Len(t) = Len(s) + 1 /\ Len(s) \in Nat
      /\ \A n \in 1 .. Len(s) : t[n] = s[n]
      /\ t[Len(s) + 1] = e
  OBVIOUS
<1> HIDE DEF t
<1>2. Members(t) = Members(s) \cup {e}
  BY <1>1 DEF Members
<1>3. ASSUME Once(s), e.paddr \notin PaddrsOf(s) PROVE Once(t)
  <2>1. \A n \in 1 .. Len(s) : s[n].paddr # e.paddr
    BY <1>3 DEF PaddrsOf, Members
  <2> SUFFICES ASSUME NEW j \in 1 .. Len(t), NEW k \in 1 .. Len(t), t[j].paddr = t[k].paddr
               PROVE  j = k
    BY DEF Once
  <2>2. CASE j \in 1 .. Len(s) /\ k \in 1 .. Len(s)
    BY <1>1, <1>3, <2>2 DEF Once
  <2>3. CASE j = Len(s) + 1 \/ k = Len(s) + 1
    BY <1>1, <2>1, <2>3
  <2> QED
    BY <1>1, <2>2, <2>3
<1> QED
  BY <1>1, <1>2, <1>3 DEF t

LEMMA Removed ==
  ASSUME NEW s \in Seq(Entry), Once(s), NEW e \in Members(s)
  PROVE  LET t == Without(s, CHOOSE k \in 1 .. Len(s) : s[k] = e)
         IN /\ t \in Seq(Entry)
            /\ Members(t) = Members(s) \ {e}
            /\ Once(t)
            /\ \A x \in Members(t) : x.paddr # e.paddr
<1> DEFINE k == CHOOSE m \in 1 .. Len(s) : s[m] = e
           t == Without(s, k)
<1>1. k \in 1 .. Len(s) /\ s[k] = e
  BY DEF Members
<1> HIDE DEF k
<1>2. Len(s) \in Nat /\ Len(s) - 1 \in Nat /\ \A m \in 1 .. Len(s) : s[m] \in Entry
  BY <1>1
<1>3. t \in [1 .. Len(s) - 1 -> Entry]
  BY <1>1, <1>2 DEF Without
<1>4. t \in Seq(Entry) /\ Len(t) = Len(s) - 1
  BY <1>2, <1>3
<1>5. \A m \in 1 .. Len(t) : t[m] = IF m < k THEN s[m] ELSE s[m + 1]
  BY <1>4 DEF Without
<1>6. \A m \in 1 .. Len(s) : s[m] = e => m = k
  BY <1>1 DEF Once
<1> HIDE DEF t
<1>7. Members(t) = Members(s) \ {e}
  <2>1. ASSUME NEW m \in 1 .. Len(t) PROVE t[m] \in Members(s) \ {e}
    <3>1. CASE m < k
      BY <1>1, <1>2, <1>4, <1>5, <1>6, <3>1 DEF Members
    <3>2. CASE ~(m < k)
      <4>1. m + 1 \in 1 .. Len(s) /\ m + 1 # k /\ t[m] = s[m + 1]
        BY <1>1, <1>2, <1>4, <1>5, <3>2
      <4> QED
        BY <4>1, <1>6 DEF Members
    <3> QED
      BY <3>1, <3>2
  <2>2. ASSUME NEW x \in Members(s), x # e PROVE \E m \in 1 .. Len(t) : t[m] = x
    <3>1. PICK j \in 1 .. Len(s) : s[j] = x
      BY DEF Members
    <3>2. CASE j < k
      <4>1. j \in 1 .. Len(t) /\ t[j] = x
        BY <1>1, <1>2, <1>4, <1>5, <3>1, <3>2
      <4> QED
        BY <4>1
    <3>3. CASE ~(j < k)
      <4>1. j # k
        BY <2>2, <3>1, <1>1
      <4>2. j - 1 \in 1 .. Len(t) /\ ~(j - 1 < k) /\ j - 1 + 1 = j
        BY <1>1, <1>2, <1>4, <3>3, <4>1
      <4>3. t[j - 1] = x
        BY <1>5, <3>1, <4>2
      <4> QED
        BY <4>2, <4>3
    <3> QED
      BY <3>2, <3>3
  <2> QED
    BY <2>1, <2>2 DEF Members
<1>8. Once(t)
  <2> SUFFICES ASSUME NEW i \in 1 .. Len(t), NEW j \in 1 .. Len(t), t[i].paddr = t[j].paddr
               PROVE  i = j
    BY DEF Once
  <2> DEFINE f(m) == IF m < k THEN m ELSE m + 1
  <2>1. f(i) \in 1 .. Len(s) /\ f(j) \in 1 .. Len(s) /\ t[i] = s[f(i)] /\ t[j] = s[f(j)]
    BY <1>2, <1>4, <1>5
  <2>2. f(i) = f(j)
    BY <2>1 DEF Once
  <2> QED
    BY <1>1, <1>2, <1>4, <2>2
<1>9. \A x \in Members(t) : x.paddr # e.paddr
  <2> SUFFICES ASSUME NEW x \in Members(s), x # e PROVE x.paddr # e.paddr
    BY <1>7
  <2>1. PICK j \in 1 .. Len(s) : s[j] = x
    BY DEF Members
  <2> QED
    BY <1>1, <2>1 DEF Once
<1> QED
  BY <1>4, <1>7, <1>8, <1>9 DEF t, k

LEMMA MembersType == ASSUME NEW s \in Seq(Entry) PROVE Members(s) \subseteq Entry
BY DEF Members

----------------------------------------------------------------------------
(* The inductive invariant.                                                *)

LEMMA InvInit == Init => DmaInv
<1> SUFFICES ASSUME Init PROVE DmaInv
  OBVIOUS
<1>1. list = <<>> /\ Len(list) = 0 /\ Members(list) = {} /\ allocated = {} /\ held = {}
  BY DEF Init, Members
<1>2. TypeOK
  <2>1. list \in Seq(Entry)
    BY <1>1
  <2>2. /\ pc \in [Callers -> {"idle", "kmalloc", "copy", "walk", "del", "map"}]
        /\ entry \in [Callers -> Entry \cup {None}]
        /\ want \in [Callers -> Areas \cup {All, None}]
    BY DEF Init
  <2>3. mem_index \in 0 .. MaxIndex
    BY MaxIndexAssumption DEF Init
  <2>4. mask \in BOOLEAN /\ allocated = {} /\ held = {} /\ lost = {} /\ mapped = None
    BY DEF Init
  <2> QED
    BY <2>1, <2>2, <2>3, <2>4 DEF TypeOK
<1>3. \A c \in Callers : CallerInv(c)
  BY DEF Init, CallerInv
<1> QED
  BY <1>1, <1>2, <1>3 DEF Init, DmaInv, ListConsistent, ListIsAllocated, HeldIsListed, AllListed

LEMMA InvAllocArea ==
  ASSUME OneCaller, DmaInv, NEW c \in Callers, NEW a \in Areas, NEW n \in Pages, AllocArea(c, a, n) PROVE DmaInv'
<1> USE MaxIndexAssumption, AllAssumption DEF OneCaller
<1>0. TypeOK /\ list' = list /\ Members(list') = Members(list) /\ PaddrsOf(list') = PaddrsOf(list)
  BY DEF DmaInv, AllocArea, PaddrsOf, Members
<1>1. TypeOK'
  BY <1>0 DEF TypeOK, DmaInv, CallerInv, AllocArea, Ready, Goto, Entry
<1>2. ListConsistent'
  BY <1>0 DEF TypeOK, DmaInv, CallerInv, ListConsistent, ListIsAllocated, HeldIsListed, BeingFreed, Entry,
        AllocArea, Ready, Goto
<1>3. (\A x \in Members(list) : x.offset <= mem_index)'
  BY <1>0, MembersType DEF TypeOK, DmaInv, Entry, CallerInv, AllocArea, Wanted, Members
<1>4. (\A x, y \in held : x.offset = y.offset => x = y)'
  BY <1>0 DEF TypeOK, DmaInv, Entry, CallerInv, ListConsistent, HeldIsListed, AllocArea
<1>5. (\A u \in Callers : CallerInv(u))'
  BY <1>0 DEF TypeOK, DmaInv, Entry, CallerInv, ListConsistent, ListIsAllocated, HeldIsListed, BeingFreed,
        PaddrsOf, AllocArea, Ready, Goto
<1>6. AllListed'
  BY <1>0 DEF TypeOK, DmaInv, AllListed, CallerInv, AllocArea, Ready, Goto
<1> QED
  BY <1>1, <1>2, <1>3, <1>4, <1>5, <1>6 DEF DmaInv

LEMMA InvAllocNoEntry ==
  ASSUME OneCaller, DmaInv, NEW c \in Callers, AllocNoEntry(c) PROVE DmaInv'
<1> USE MaxIndexAssumption, AllAssumption DEF OneCaller
<1>0. TypeOK /\ list' = list /\ Members(list') = Members(list) /\ PaddrsOf(list') = PaddrsOf(list)
  BY DEF DmaInv, AllocNoEntry, PaddrsOf, Members
<1>1. TypeOK'
  BY <1>0 DEF TypeOK, DmaInv, CallerInv, AllocNoEntry, Ready, Goto, Entry
<1>2. ListConsistent'
  BY <1>0 DEF TypeOK, DmaInv, CallerInv, ListConsistent, ListIsAllocated, HeldIsListed, BeingFreed, Entry,
        AllocNoEntry, Ready, Goto
<1>3. (\A x \in Members(list) : x.offset <= mem_index)'
  BY <1>0, MembersType DEF TypeOK, DmaInv, Entry, CallerInv, AllocNoEntry, Wanted, Members
<1>4. (\A x, y \in held : x.offset = y.offset => x = y)'
  BY <1>0 DEF TypeOK, DmaInv, Entry, CallerInv, ListConsistent, HeldIsListed, AllocNoEntry
<1>5. (\A u \in Callers : CallerInv(u))'
  BY <1>0 DEF TypeOK, DmaInv, Entry, CallerInv, ListConsistent, ListIsAllocated, HeldIsListed, BeingFreed,
        PaddrsOf, AllocNoEntry, Ready, Goto
<1>6. AllListed'
  BY <1>0 DEF TypeOK, DmaInv, AllListed, CallerInv, AllocNoEntry, Ready, Goto
<1> QED
  BY <1>1, <1>2, <1>3, <1>4, <1>5, <1>6 DEF DmaInv

LEMMA InvAllocReturn ==
  ASSUME OneCaller, DmaInv, NEW c \in Callers, AllocReturn(c) PROVE DmaInv'
<1> USE MaxIndexAssumption, AllAssumption DEF OneCaller
<1>0. TypeOK /\ list' = list /\ Members(list') = Members(list) /\ PaddrsOf(list') = PaddrsOf(list)
  BY DEF DmaInv, AllocReturn, PaddrsOf, Members
<1>1. TypeOK'
  BY <1>0 DEF TypeOK, DmaInv, CallerInv, AllocReturn, Ready, Goto, Entry
<1>2. ListConsistent'
  BY <1>0 DEF TypeOK, DmaInv, CallerInv, ListConsistent, ListIsAllocated, HeldIsListed, BeingFreed, Entry,
        AllocReturn, Ready, Goto
<1>3. (\A x \in Members(list) : x.offset <= mem_index)'
  <2>1. mem_index \in Nat /\ mem_index' = mem_index + 1
    BY <1>0 DEF TypeOK, AllocReturn
  <2>2. \A x \in Members(list) : x.offset \in Nat /\ x.offset <= mem_index
    <3>1. Members(list) \subseteq Entry
      BY <1>0, MembersType DEF TypeOK
    <3> QED
      BY <3>1 DEF Entry, DmaInv
  <2>3. \A x \in Members(list) : x.offset <= mem_index + 1
    BY <2>1, <2>2
  <2> QED
    BY <1>0, <2>1, <2>3
<1>4. (\A x, y \in held : x.offset = y.offset => x = y)'
  BY <1>0 DEF TypeOK, DmaInv, Entry, CallerInv, ListConsistent, HeldIsListed, AllocReturn
<1>5. (\A u \in Callers : CallerInv(u))'
  BY <1>0 DEF TypeOK, DmaInv, Entry, CallerInv, ListConsistent, ListIsAllocated, HeldIsListed, BeingFreed,
        PaddrsOf, AllocReturn, Ready, Goto
<1>6. AllListed'
  BY <1>0 DEF TypeOK, DmaInv, AllListed, CallerInv, AllocReturn, Ready, Goto
<1> QED
  BY <1>1, <1>2, <1>3, <1>4, <1>5, <1>6 DEF DmaInv

LEMMA InvAllocNoCopy ==
  ASSUME OneCaller, DmaInv, NEW c \in Callers, AllocNoCopy(c) PROVE DmaInv'
<1> USE MaxIndexAssumption, AllAssumption DEF OneCaller
<1>0. TypeOK /\ list' = list /\ Members(list') = Members(list) /\ PaddrsOf(list') = PaddrsOf(list)
  BY DEF DmaInv, AllocNoCopy, PaddrsOf, Members
<1>1. TypeOK'
  BY <1>0 DEF TypeOK, DmaInv, CallerInv, AllocNoCopy, Ready, Goto, Entry
<1>2. ListConsistent'
  BY <1>0 DEF TypeOK, DmaInv, CallerInv, ListConsistent, ListIsAllocated, HeldIsListed, BeingFreed, Entry,
        AllocNoCopy, Ready, Goto
<1>3. (\A x \in Members(list) : x.offset <= mem_index)'
  BY <1>0, MembersType DEF TypeOK, DmaInv, Entry, CallerInv, AllocNoCopy, Wanted, Members
<1>4. (\A x, y \in held : x.offset = y.offset => x = y)'
  BY <1>0 DEF TypeOK, DmaInv, Entry, CallerInv, ListConsistent, HeldIsListed, AllocNoCopy
<1>5. (\A u \in Callers : CallerInv(u))'
  BY <1>0 DEF TypeOK, DmaInv, Entry, CallerInv, ListConsistent, ListIsAllocated, HeldIsListed, BeingFreed,
        PaddrsOf, AllocNoCopy, Ready, Goto
<1>6. AllListed'
  BY <1>0 DEF TypeOK, DmaInv, AllListed, CallerInv, AllocNoCopy, Ready, Goto
<1> QED
  BY <1>1, <1>2, <1>3, <1>4, <1>5, <1>6 DEF DmaInv

LEMMA InvFreeStart ==
  ASSUME OneCaller, DmaInv, NEW c \in Callers, NEW a \in Areas, FreeStart(c, a) PROVE DmaInv'
<1> USE MaxIndexAssumption, AllAssumption DEF OneCaller
<1>0. TypeOK /\ list' = list /\ Members(list') = Members(list) /\ PaddrsOf(list') = PaddrsOf(list)
  BY DEF DmaInv, FreeStart, PaddrsOf, Members
<1>1. TypeOK'
  BY <1>0 DEF TypeOK, DmaInv, CallerInv, FreeStart, Ready, Goto, Entry
<1>2. ListConsistent'
  BY <1>0 DEF TypeOK, DmaInv, CallerInv, ListConsistent, ListIsAllocated, HeldIsListed, BeingFreed, Entry,
        FreeStart, Ready, Goto
<1>3. (\A x \in Members(list) : x.offset <= mem_index)'
  BY <1>0, MembersType DEF TypeOK, DmaInv, Entry, CallerInv, FreeStart, Wanted, Members
<1>4. (\A x, y \in held : x.offset = y.offset => x = y)'
  BY <1>0 DEF TypeOK, DmaInv, Entry, CallerInv, ListConsistent, HeldIsListed, FreeStart
<1>5. (\A u \in Callers : CallerInv(u))'
  BY <1>0 DEF TypeOK, DmaInv, Entry, CallerInv, ListConsistent, ListIsAllocated, HeldIsListed, BeingFreed,
        PaddrsOf, FreeStart, Ready, Goto
<1>6. AllListed'
  BY <1>0 DEF TypeOK, DmaInv, AllListed, CallerInv, FreeStart, Ready, Goto
<1> QED
  BY <1>1, <1>2, <1>3, <1>4, <1>5, <1>6 DEF DmaInv

LEMMA InvCleanupStart ==
  ASSUME OneCaller, DmaInv, NEW c \in Callers, CleanupStart(c) PROVE DmaInv'
<1> USE MaxIndexAssumption, AllAssumption DEF OneCaller
<1>0. TypeOK /\ list' = list /\ Members(list') = Members(list) /\ PaddrsOf(list') = PaddrsOf(list)
  BY DEF DmaInv, CleanupStart, PaddrsOf, Members
<1>1. TypeOK'
  BY <1>0 DEF TypeOK, DmaInv, CallerInv, CleanupStart, Ready, Goto, Entry
<1>2. ListConsistent'
  BY <1>0 DEF TypeOK, DmaInv, CallerInv, ListConsistent, ListIsAllocated, HeldIsListed, BeingFreed, Entry,
        CleanupStart, Ready, Goto
<1>3. (\A x \in Members(list) : x.offset <= mem_index)'
  BY <1>0, MembersType DEF TypeOK, DmaInv, Entry, CallerInv, CleanupStart, Wanted, Members
<1>4. (\A x, y \in held : x.offset = y.offset => x = y)'
  BY <1>0 DEF TypeOK, DmaInv, Entry, CallerInv, ListConsistent, HeldIsListed, CleanupStart
<1>5. (\A u \in Callers : CallerInv(u))'
  BY <1>0 DEF TypeOK, DmaInv, Entry, CallerInv, ListConsistent, ListIsAllocated, HeldIsListed, BeingFreed,
        PaddrsOf, CleanupStart, Ready, Goto
<1>6. AllListed'
  BY <1>0 DEF TypeOK, DmaInv, AllListed, CallerInv, CleanupStart, Ready, Goto
<1> QED
  BY <1>1, <1>2, <1>3, <1>4, <1>5, <1>6 DEF DmaInv

LEMMA InvWalkEnd ==
  ASSUME OneCaller, DmaInv, NEW c \in Callers, WalkEnd(c) PROVE DmaInv'
<1> USE MaxIndexAssumption, AllAssumption DEF OneCaller
<1>0. TypeOK /\ list' = list /\ Members(list') = Members(list) /\ PaddrsOf(list') = PaddrsOf(list)
  BY DEF DmaInv, WalkEnd, PaddrsOf, Members
<1>1. TypeOK'
  BY <1>0 DEF TypeOK, DmaInv, CallerInv, WalkEnd, Ready, Goto, Entry
<1>2. ListConsistent'
  BY <1>0 DEF TypeOK, DmaInv, CallerInv, ListConsistent, ListIsAllocated, HeldIsListed, BeingFreed, Entry,
        WalkEnd, Ready, Goto
<1>3. (\A x \in Members(list) : x.offset <= mem_index)'
  BY <1>0, MembersType DEF TypeOK, DmaInv, Entry, CallerInv, WalkEnd, Wanted, Members
<1>4. (\A x, y \in held : x.offset = y.offset => x = y)'
  BY <1>0 DEF TypeOK, DmaInv, Entry, CallerInv, ListConsistent, HeldIsListed, WalkEnd
<1>5. (\A u \in Callers : CallerInv(u))'
  BY <1>0 DEF TypeOK, DmaInv, Entry, CallerInv, ListConsistent, ListIsAllocated, HeldIsListed, BeingFreed,
        PaddrsOf, WalkEnd, Ready, Goto
<1>6. AllListed'
  BY <1>0 DEF TypeOK, DmaInv, AllListed, CallerInv, WalkEnd, Ready, Goto
<1> QED
  BY <1>1, <1>2, <1>3, <1>4, <1>5, <1>6 DEF DmaInv

LEMMA InvRemap ==
  ASSUME OneCaller, DmaInv, NEW c \in Callers, Remap(c) PROVE DmaInv'
<1> USE MaxIndexAssumption, AllAssumption DEF OneCaller
<1>0. TypeOK /\ list' = list /\ Members(list') = Members(list) /\ PaddrsOf(list') = PaddrsOf(list)
  BY DEF DmaInv, Remap, PaddrsOf, Members
<1>1. TypeOK'
  BY <1>0 DEF TypeOK, DmaInv, CallerInv, Remap, Ready, Goto, Entry
<1>2. ListConsistent'
  BY <1>0 DEF TypeOK, DmaInv, CallerInv, ListConsistent, ListIsAllocated, HeldIsListed, BeingFreed, Entry,
        Remap, Ready, Goto
<1>3. (\A x \in Members(list) : x.offset <= mem_index)'
  BY <1>0, MembersType DEF TypeOK, DmaInv, Entry, CallerInv, Remap, Wanted, Members
<1>4. (\A x, y \in held : x.offset = y.offset => x = y)'
  BY <1>0 DEF TypeOK, DmaInv, Entry, CallerInv, ListConsistent, HeldIsListed, Remap
<1>5. (\A u \in Callers : CallerInv(u))'
  BY <1>0 DEF TypeOK, DmaInv, Entry, CallerInv, ListConsistent, ListIsAllocated, HeldIsListed, BeingFreed,
        PaddrsOf, Remap, Ready, Goto
<1>6. AllListed'
  BY <1>0 DEF TypeOK, DmaInv, AllListed, CallerInv, Remap, Ready, Goto
<1> QED
  BY <1>1, <1>2, <1>3, <1>4, <1>5, <1>6 DEF DmaInv

LEMMA InvAllocAdd ==
  ASSUME OneCaller, DmaInv, NEW c \in Callers, AllocAdd(c) PROVE DmaInv'
<1> USE MaxIndexAssumption, AllAssumption DEF OneCaller
<1> DEFINE e == [entry[c] EXCEPT !.offset = mem_index]
<1>0. TypeOK /\ pc[c] = "kmalloc" /\ entry[c] \in Entry /\ mem_index < MaxIndex
      /\ entry[c].paddr \in allocated \ PaddrsOf(list)
  BY DEF DmaInv, CallerInv, AllocAdd
<1>1. /\ entry' = [entry EXCEPT ![c] = e] /\ list' = Append(list, e)
      /\ pc' = [pc EXCEPT ![c] = "copy"]
      /\ UNCHANGED <<mask, mem_index, allocated, want, held, lost, mapped>>
  <2>1. entry' = [entry EXCEPT ![c] = e] /\ entry'[c] = e
    BY <1>0 DEF AllocAdd, TypeOK
  <2> QED
    BY <2>1 DEF AllocAdd, Goto
<1>2. e \in Entry /\ e.paddr = entry[c].paddr /\ e.offset = mem_index
  BY <1>0 DEF TypeOK, Entry
<1> HIDE DEF e
<1>3. /\ Once(list) /\ \A x \in Members(list) : x.paddr \in allocated /\ x.offset <= mem_index
      /\ \A x \in held : x \in Members(list) /\ x.offset < mem_index /\ x.paddr \in allocated
  BY <1>0 DEF DmaInv, ListConsistent, ListIsAllocated, HeldIsListed, BeingFreed, Once
<1>4. list' \in Seq(Entry) /\ Members(list') = Members(list) \cup {e} /\ Once(list')
  BY <1>0, <1>1, <1>2, <1>3, Appended DEF TypeOK
<1>5. PaddrsOf(list') = PaddrsOf(list) \cup {e.paddr}
  BY <1>4 DEF PaddrsOf
<1>6. TypeOK'
  BY <1>0, <1>1, <1>2, <1>4 DEF TypeOK
<1>7. ListConsistent' /\ (\A x \in Members(list) : x.offset <= mem_index)'
  <2>1. mem_index <= mem_index
    BY <1>0 DEF TypeOK
  <2> QED
    BY <1>0, <1>1, <1>2, <1>3, <1>4, <2>1 DEF ListConsistent, ListIsAllocated, HeldIsListed, Once
<1>8. (\A u \in Callers : CallerInv(u))'
  <2>1. pc'[c] = "copy" /\ entry'[c] = e
    BY <1>0, <1>1 DEF TypeOK
  <2>2. CallerInv(c)'
    BY <1>0, <1>1, <1>2, <1>4, <2>1 DEF CallerInv
  <2> QED
    BY <2>2
<1>9. AllListed'
  <2> SUFFICES ASSUME NEW a \in allocated PROVE a \in PaddrsOf(list') \cup lost
    BY <1>1 DEF AllListed
  <2>1. \/ a \in PaddrsOf(list) \cup lost
        \/ \E u \in Callers : pc[u] = "kmalloc" /\ entry[u].paddr = a
    BY DEF DmaInv, AllListed
  <2> QED
    BY <2>1, <1>2, <1>5
<1>10. (\A x, y \in held : x.offset = y.offset => x = y)'
  BY <1>1 DEF DmaInv
<1> QED
  BY <1>6, <1>7, <1>8, <1>9, <1>10 DEF DmaInv

LEMMA InvDmaFree ==
  ASSUME OneCaller, DmaInv, NEW c \in Callers, DmaFree(c) PROVE DmaInv'
<1> USE MaxIndexAssumption, AllAssumption DEF OneCaller
<1>0. TypeOK /\ pc[c] = "walk" /\ want[c] # None
  BY DEF DmaInv, CallerInv, DmaFree
<1>1. PICK k \in 1 .. Len(list) :
        /\ want[c] \in {All, list[k].paddr}
        /\ allocated' = allocated \ {list[k].paddr}
        /\ entry' = [entry EXCEPT ![c] = list[k]]
  BY DEF DmaFree, Wanted
<1>2. pc' = [pc EXCEPT ![c] = "del"] /\ UNCHANGED <<mask, list, mem_index, want, held, lost, mapped>>
  BY DEF DmaFree, Goto
<1> DEFINE e == list[k]
<1>3. e \in Members(list) /\ e \in Entry
  BY <1>0 DEF Members, TypeOK
<1>4. pc'[c] = "del" /\ entry'[c] = e /\ \A u \in Callers : pc[u] = "walk"
  BY <1>0, <1>1, <1>2 DEF TypeOK
<1>5. /\ \A x \in Members(list) : x.paddr \in allocated /\ (x.paddr = e.paddr => x = e)
      /\ \A x \in held : x \in Members(list) /\ x.offset < mem_index /\ x.paddr \in allocated
      /\ \A x \in held : want[c] \notin {All, x.paddr}
  BY <1>0, <1>4 DEF DmaInv, ListConsistent, ListIsAllocated, HeldIsListed, BeingFreed, CallerInv, Members
<1>6. Members(list') = Members(list) /\ PaddrsOf(list') = PaddrsOf(list)
  BY <1>2
<1>7. TypeOK'
  BY <1>0, <1>1, <1>2, <1>3 DEF TypeOK
<1>8. ListConsistent'
  <2>1. \A x \in Members(list) : x.paddr \in allocated' \/ x = e
    BY <1>1, <1>5
  <2>2. BeingFreed(e)'
    BY <1>2, <1>4 DEF BeingFreed
  <2>3. ListIsAllocated'
    BY <1>2, <1>6, <2>1, <2>2 DEF DmaInv, ListConsistent, ListIsAllocated
  <2>4. HeldIsListed'
    BY <1>1, <1>2, <1>5, <1>6 DEF HeldIsListed
  <2> QED
    BY <2>3, <2>4 DEF ListConsistent
<1>9. CallerInv(c)'
  BY <1>0, <1>1, <1>2, <1>3, <1>4, <1>5, <1>6 DEF CallerInv
<1>10. AllListed'
  BY <1>1, <1>2, <1>4, <1>6 DEF DmaInv, AllListed
<1>11. (\A x \in Members(list) : x.offset <= mem_index)' /\ (\A x, y \in held : x.offset = y.offset => x = y)'
  BY <1>2, <1>6 DEF DmaInv
<1> QED
  BY <1>7, <1>8, <1>9, <1>10, <1>11 DEF DmaInv

LEMMA InvListDel ==
  ASSUME OneCaller, DmaInv, NEW c \in Callers, ListDel(c) PROVE DmaInv'
<1> USE MaxIndexAssumption, AllAssumption DEF OneCaller
<1> DEFINE e == entry[c]
<1>0. /\ TypeOK /\ pc[c] = "del" /\ e \in Members(list) /\ e.paddr \notin allocated
      /\ want[c] \in {All, e.paddr} /\ want[c] # None
  BY DEF DmaInv, CallerInv, ListDel
<1>1. /\ list' = Without(list, CHOOSE k \in 1 .. Len(list) : list[k] = e)
      /\ entry' = [entry EXCEPT ![c] = None] /\ pc' = [pc EXCEPT ![c] = "walk"]
      /\ UNCHANGED <<mask, mem_index, allocated, want, held, lost, mapped>>
  BY <1>0 DEF ListDel, Goto
<1>2. Once(list) /\ list \in Seq(Entry)
  BY <1>0 DEF DmaInv, ListConsistent, ListIsAllocated, Once, TypeOK
<1>3. /\ list' \in Seq(Entry) /\ Members(list') = Members(list) \ {e} /\ Once(list')
      /\ \A x \in Members(list') : x.paddr # e.paddr
  BY <1>0, <1>1, <1>2, Removed
<1>4. pc'[c] = "walk" /\ pc[c] = "del" /\ \A u \in Callers : pc[u] = "del" /\ entry[u] = e
  BY <1>0, <1>1 DEF TypeOK
<1>5. /\ \A x \in Members(list) : x.paddr \in allocated \/ x = e
      /\ \A x \in held : x \in Members(list) /\ x.offset < mem_index /\ x.paddr \in allocated
      /\ \A x \in held : want[c] \notin {All, x.paddr}
  BY <1>0, <1>4 DEF DmaInv, ListConsistent, ListIsAllocated, HeldIsListed, BeingFreed, CallerInv
<1>6. TypeOK'
  BY <1>0, <1>1, <1>3 DEF TypeOK
<1>7. ListConsistent'
  <2>1. ListIsAllocated'
    BY <1>1, <1>3, <1>5 DEF ListIsAllocated, Once
  <2>2. HeldIsListed'
    BY <1>0, <1>1, <1>3, <1>5 DEF HeldIsListed
  <2> QED
    BY <2>1, <2>2 DEF ListConsistent
<1>8. CallerInv(c)'
  BY <1>0, <1>1, <1>4, <1>5 DEF CallerInv
<1>9. AllListed'
  <2> SUFFICES ASSUME NEW a \in allocated PROVE a \in PaddrsOf(list') \cup lost
    BY <1>1 DEF AllListed
  <2>1. a \in PaddrsOf(list) \cup lost /\ a # e.paddr
    BY <1>0, <1>4 DEF DmaInv, AllListed
  <2> QED
    BY <2>1, <1>3 DEF PaddrsOf
<1>10. (\A x \in Members(list) : x.offset <= mem_index)' /\ (\A x, y \in held : x.offset = y.offset => x = y)'
  BY <1>1, <1>3 DEF DmaInv
<1> QED
  BY <1>6, <1>7, <1>8, <1>9, <1>10 DEF DmaInv

LEMMA InvMapFind ==
  ASSUME OneCaller, DmaInv, NEW c \in Callers, NEW off \in 0 .. MaxIndex, NEW n \in Pages,
         MapFind(c, off, n)
  PROVE  DmaInv'
<1> USE MaxIndexAssumption, AllAssumption DEF OneCaller
<1>0. TypeOK /\ pc[c] = "idle"
  BY DEF DmaInv, MapFind
<1>1. PICK k \in 1 .. Len(list) :
        /\ list[k].offset = off
        /\ entry' = [entry EXCEPT ![c] = [offset |-> off, paddr |-> list[k].paddr, len |-> n]]
  BY DEF MapFind
<1>2. /\ pc' = [pc EXCEPT ![c] = "map"] /\ mapped' = None
      /\ UNCHANGED <<mask, list, mem_index, allocated, want, held, lost>>
  BY DEF MapFind, Goto
<1>3. list[k] \in Members(list) /\ list[k] \in Entry
  BY <1>0 DEF Members, TypeOK
<1>4. [offset |-> off, paddr |-> list[k].paddr, len |-> n] \in Entry
  BY <1>3 DEF Entry
<1>5. /\ pc'[c] = "map" /\ \A u \in Callers : pc[u] = "idle"
      /\ entry'[c] = [offset |-> off, paddr |-> list[k].paddr, len |-> n]
  BY <1>0, <1>1, <1>2 DEF TypeOK
<1>6. Members(list') = Members(list) /\ PaddrsOf(list') = PaddrsOf(list)
  BY <1>2
<1>7. \A x \in Members(list) : x.paddr \in allocated
  BY <1>5 DEF DmaInv, ListConsistent, ListIsAllocated, BeingFreed
<1>8. TypeOK'
  BY <1>0, <1>1, <1>2, <1>4 DEF TypeOK
<1>9. ListConsistent'
  BY <1>2, <1>6, <1>7 DEF DmaInv, ListConsistent, ListIsAllocated, HeldIsListed
<1>10. CallerInv(c)'
  BY <1>1, <1>2, <1>3, <1>4, <1>5, <1>6, <1>7 DEF CallerInv
<1>11. AllListed'
  BY <1>2, <1>5, <1>6 DEF DmaInv, AllListed
<1>12. (\A x \in Members(list) : x.offset <= mem_index)' /\ (\A x, y \in held : x.offset = y.offset => x = y)'
  BY <1>2, <1>6 DEF DmaInv
<1> QED
  BY <1>8, <1>9, <1>10, <1>11, <1>12 DEF DmaInv

LEMMA InvUnchanged ==
  ASSUME DmaInv, mask' \in BOOLEAN,
         UNCHANGED <<list, mem_index, allocated, pc, entry, want, held, lost, mapped>>
  PROVE  DmaInv'
<1>1. TypeOK'
  BY DEF DmaInv, TypeOK
<1>2. ListConsistent' /\ AllListed'
  BY DEF DmaInv, ListConsistent, ListIsAllocated, HeldIsListed, BeingFreed, AllListed
<1>3. (\A c \in Callers : CallerInv(c))'
  BY DEF DmaInv, CallerInv
<1> QED
  BY <1>1, <1>2, <1>3 DEF DmaInv

LEMMA InvNext == OneCaller /\ DmaInv /\ [Next]_vars => DmaInv'
<1> SUFFICES ASSUME OneCaller, DmaInv, [Next]_vars PROVE DmaInv'
  OBVIOUS
<1>1. CASE SetMask \/ UNCHANGED vars
  BY <1>1, InvUnchanged DEF SetMask, vars, DmaInv, TypeOK
<1> QED
  BY <1>1, InvAllocArea, InvAllocNoEntry, InvAllocAdd, InvAllocReturn, InvAllocNoCopy, InvFreeStart,
     InvCleanupStart, InvDmaFree, InvListDel, InvWalkEnd, InvMapFind, InvRemap DEF Next

----------------------------------------------------------------------------
(* The theorems.                                                           *)

\* The list, the index and the caller stay in their ranges, and the invariant
\* holds, whatever fails.
THEOREM Invariance == ASSUME OneCaller PROVE Spec => []DmaInv
BY InvInit, InvNext, PTL DEF Spec

\* With one caller at a time, and whichever of its calls fails, every area in
\* xp_mem_list_head is allocated and in the list once, but for the one that
\* xp_dma_mem_free or xp_dma_mem_cleanup is about to unlink, and an area user
\* space was told of and has not given back is listed under an offset that
\* xp_dma_mmap accepts.
THEOREM ListStaysConsistent == ASSUME OneCaller PROVE Spec => []ListConsistent
<1>1. DmaInv => ListConsistent
  BY DEF DmaInv
<1> QED
  BY <1>1, Invariance, PTL

\* With one caller at a time no area is given to dma_free_coherent twice.
THEOREM NothingIsFreedTwice == ASSUME OneCaller PROVE Spec => FreedOnce
<1>1. DmaInv /\ [Next]_vars =>
        \A c \in Callers : pc[c] = "walk" /\ pc'[c] = "del" => entry'[c].paddr \in allocated
  <2> SUFFICES ASSUME DmaInv, [Next]_vars, NEW c \in Callers, pc[c] = "walk", pc'[c] = "del"
               PROVE  entry'[c].paddr \in allocated
    OBVIOUS
  <2>0. TypeOK /\ \A u \in Callers : u = c
    BY DEF DmaInv, OneCaller
  <2>1. DmaFree(c)
    BY <2>0 DEF Next, SetMask, AllocArea, AllocNoEntry, AllocAdd, AllocReturn, AllocNoCopy, FreeStart,
           CleanupStart, ListDel, WalkEnd, MapFind, Remap, Ready, Goto, TypeOK, vars
  <2>2. PICK k \in 1 .. Len(list) : entry' = [entry EXCEPT ![c] = list[k]]
    BY <2>1 DEF DmaFree, Wanted
  <2>3. list[k] \in Members(list) /\ ~BeingFreed(list[k])
    BY <2>0 DEF Members, BeingFreed
  <2>4. entry'[c] = list[k]
    BY <2>0, <2>2 DEF TypeOK
  <2> QED
    BY <2>3, <2>4 DEF DmaInv, ListConsistent, ListIsAllocated
<1> QED
  BY <1>1, Invariance, PTL DEF Spec, FreedOnce

\* With one caller at a time, and as long as user space was told of every area
\* in the list, an mmap with the offset told for an area maps that area, whatever
\* was freed, cleaned up or failed before.  (Two callers may be told the same
\* offset: section 6 of the README.)
THEOREM MapsTheOwnArea == ASSUME OneCaller PROVE Spec => MapsOwnArea
<1>1. DmaInv /\ [Next]_vars =>
        (mapped' \notin {mapped, None} /\ Members(list) \subseteq held =>
           \A x \in held : x.offset = mapped'.offset => x.paddr = mapped'.paddr)
  <2> SUFFICES ASSUME DmaInv, [Next]_vars, mapped' \notin {mapped, None}, Members(list) \subseteq held,
                      NEW x \in held, x.offset = mapped'.offset
               PROVE  x.paddr = mapped'.paddr
    OBVIOUS
  <2>1. PICK c \in Callers : Remap(c)
    BY DEF Next, SetMask, AllocArea, AllocNoEntry, AllocAdd, AllocReturn, AllocNoCopy, FreeStart,
           CleanupStart, DmaFree, ListDel, WalkEnd, MapFind, vars
  <2>2. PICK y \in Members(list) : y.offset = mapped'.offset /\ y.paddr = mapped'.paddr
    BY <2>1 DEF Remap, DmaInv, CallerInv
  <2>3. x = y
    BY <2>2 DEF DmaInv
  <2> QED
    BY <2>2, <2>3
<1> QED
  BY <1>1, Invariance, PTL DEF Spec, MapsOwnArea

\* With one caller at a time xp_dma_mem_cleanup gives every area back to the
\* kernel except those whose list entry could not be allocated.
THEOREM CleanupGivesAllBack == ASSUME OneCaller PROVE Spec => CleanupGivesBack
<1>1. DmaInv /\ [Next]_vars =>
        \A c \in Callers :
          pc[c] = "walk" /\ want[c] = All /\ pc'[c] = "idle" => allocated' \subseteq lost
  <2> SUFFICES ASSUME DmaInv, [Next]_vars, NEW c \in Callers,
                      pc[c] = "walk", want[c] = All, pc'[c] = "idle"
               PROVE  allocated' \subseteq lost
    OBVIOUS
  <2>0. TypeOK /\ \A u \in Callers : u = c
    BY DEF DmaInv, OneCaller
  <2>1. WalkEnd(c)
    BY <2>0 DEF Next, SetMask, AllocArea, AllocNoEntry, AllocAdd, AllocReturn, AllocNoCopy, FreeStart,
           CleanupStart, DmaFree, ListDel, MapFind, Remap, Ready, Goto, TypeOK, vars
  <2>2. allocated' = allocated /\ \A k \in 1 .. Len(list) : FALSE
    BY <2>1 DEF WalkEnd, Wanted
  <2>3. PaddrsOf(list) = {}
    BY <2>2 DEF PaddrsOf, Members
  <2> QED
    BY <2>0, <2>2, <2>3 DEF DmaInv, AllListed
<1> QED
  BY <1>1, Invariance, PTL DEF Spec, CleanupGivesBack

=============================================================================
