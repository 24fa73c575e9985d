------------------------------ MODULE XpDmaMem ------------------------------
(***************************************************************************)
(* The DMA memory device of the driver (xpnet/src/xp_pcie_slave.c,         *)
(* /dev/xpdmamem): user space allocates physically contiguous memory by    *)
(* ioctl, is told an offset for it, and maps it by that offset.            *)
(*                                                                         *)
(* The areas are kept in the list xp_mem_list_head, which no lock guards:  *)
(* every ioctl is a sequence of steps between which other callers may run. *)
(* (That two concurrent list operations may damage the links of the list   *)
(* itself is not modelled.)  User space keeps what it was told (held)      *)
(* until it frees the area or cleans up.                                   *)
(***************************************************************************)
EXTENDS Naturals, Sequences

CONSTANTS Callers,   \* threads of user space
          Areas,     \* areas dma_alloc_coherent may return (by paddr)
          Pages,     \* sizes in pages
          MaxIndex,  \* bound on the number of allocations
          Faults,    \* subset of {"copy", "kmalloc"}: what may fail
          All,       \* what a cleanup frees
          None

ASSUME PagesAssumption == Pages \subseteq Nat \ {0}
ASSUME MaxIndexAssumption == MaxIndex \in Nat
ASSUME FaultsAssumption == Faults \subseteq {"copy", "kmalloc"}
ASSUME AllAssumption == All \notin Areas /\ None \notin Areas /\ All # None

VARIABLES
  mask,       \* coherent_dma_mask is set
  list,       \* xp_mem_list_head
  mem_index,  \* priv->mem_index
  allocated,  \* areas that dma_alloc_coherent has given out
  pc,         \* where a caller is
  entry,      \* the entry, or the area, that its call works on
  want,       \* what its call frees: a paddr, All or None
  held,       \* history: what user space was told and did not give back
  lost,       \* history: areas whose entry could not be allocated
  mapped      \* history: the last mapping, as offset, area and pages

vars == <<mask, list, mem_index, allocated, pc, entry, want, held, lost, mapped>>

Entry == [offset : 0 .. MaxIndex, paddr : Areas, len : Pages]
Members(s) == {s[n] : n \in 1 .. Len(s)}
PaddrsOf(s) == {x.paddr : x \in Members(s)}

----------------------------------------------------------------------------

Init ==
  /\ mask = FALSE
  /\ list = <<>>
  /\ mem_index = 0
  /\ allocated = {}
  /\ pc = [c \in Callers |-> "idle"]
  /\ entry = [c \in Callers |-> None]
  /\ want = [c \in Callers |-> None]
  /\ held = {}
  /\ lost = {}
  /\ mapped = None

\* The probe of the first device copies its DMA mask; until then every ioctl
\* fails.
SetMask ==
  /\ ~mask
  /\ mask' = TRUE
  /\ UNCHANGED <<list, mem_index, allocated, pc, entry, want, held, lost, mapped>>

Ready(c) == mask /\ pc[c] = "idle"
Goto(c, l) == pc' = [pc EXCEPT ![c] = l]

----------------------------------------------------------------------------
(* PHY_MEM_ALLOC: xp_dma_mem_access.                                       *)

\* dma_alloc_coherent.
AllocArea(c, a, n) ==
  /\ Ready(c)
  /\ mem_index < MaxIndex
  /\ a \notin allocated
  /\ allocated' = allocated \cup {a}
  /\ entry' = [entry EXCEPT ![c] = [offset |-> 0, paddr |-> a, len |-> n]]
  /\ Goto(c, "kmalloc")
  /\ UNCHANGED <<mask, list, mem_index, want, held, lost, mapped>>

\* "Linked list kmalloc fail.": the area is neither listed nor freed.
AllocNoEntry(c) ==
  /\ pc[c] = "kmalloc"
  /\ "kmalloc" \in Faults
  /\ lost' = lost \cup {entry[c].paddr}
  /\ entry' = [entry EXCEPT ![c] = None]
  /\ Goto(c, "idle")
  /\ UNCHANGED <<mask, list, mem_index, allocated, want, held, mapped>>

\* kmalloc succeeds: the entry takes the index and goes to the end of the list.
AllocAdd(c) ==
  /\ pc[c] = "kmalloc"
  /\ entry' = [entry EXCEPT ![c].offset = mem_index]
  /\ list' = Append(list, entry'[c])
  /\ Goto(c, "copy")
  /\ UNCHANGED <<mask, mem_index, allocated, want, held, lost, mapped>>

\* copy_to_user succeeds: user space knows the area, and the index moves on.
AllocReturn(c) ==
  /\ pc[c] = "copy"
  /\ mem_index' = mem_index + 1
  /\ held' = held \cup {entry[c]}
  /\ entry' = [entry EXCEPT ![c] = None]
  /\ Goto(c, "idle")
  /\ UNCHANGED <<mask, list, allocated, want, lost, mapped>>

\* copy_to_user fails: the entry stays in the list and is not counted.
AllocNoCopy(c) ==
  /\ pc[c] = "copy"
  /\ "copy" \in Faults
  /\ entry' = [entry EXCEPT ![c] = None]
  /\ Goto(c, "idle")
  /\ UNCHANGED <<mask, list, mem_index, allocated, want, held, lost, mapped>>

----------------------------------------------------------------------------
(* PHY_MEM_FREE and PHY_MEM_CLEANUP: both walk the list.                   *)

\* xp_dma_mem_free: user space gives an area back.
FreeStart(c, a) ==
  /\ Ready(c)
  /\ want' = [want EXCEPT ![c] = a]
  /\ held' = {x \in held : x.paddr # a}
  /\ Goto(c, "walk")
  /\ UNCHANGED <<mask, list, mem_index, allocated, entry, lost, mapped>>

\* xp_dma_mem_cleanup, by ioctl or when the module is removed.
CleanupStart(c) ==
  /\ Ready(c)
  /\ want' = [want EXCEPT ![c] = All]
  /\ held' = {}
  /\ Goto(c, "walk")
  /\ UNCHANGED <<mask, list, mem_index, allocated, entry, lost, mapped>>

\* Positions of the entries to free.
Wanted(c) == {k \in 1 .. Len(list) : want[c] \in {All, list[k].paddr}}

\* The next one: dma_free_coherent gives its area back to the kernel ...
DmaFree(c) ==
  /\ pc[c] = "walk"
  /\ \E k \in Wanted(c) :
       /\ \A j \in Wanted(c) : k <= j
       /\ allocated' = allocated \ {list[k].paddr}
       /\ entry' = [entry EXCEPT ![c] = list[k]]
  /\ Goto(c, "del")
  /\ UNCHANGED <<mask, list, mem_index, want, held, lost, mapped>>

\* The list without its k-th entry.
Without(s, k) == [n \in 1 .. Len(s) - 1 |-> IF n < k THEN s[n] ELSE s[n + 1]]

\* Faulty variant: the entry stays in the list.
Fault_FreeKeepsEntry(c) ==
  /\ pc[c] = "del"
  /\ entry' = [entry EXCEPT ![c] = None]
  /\ Goto(c, "walk")
  /\ UNCHANGED <<mask, list, mem_index, allocated, want, held, lost, mapped>>

\* ... and list_del and kfree its entry.
ListDel(c) ==
  /\ pc[c] = "del"
  /\ list' = IF entry[c] \in Members(list)
             THEN Without(list, CHOOSE k \in 1 .. Len(list) : list[k] = entry[c])
             ELSE list
  /\ entry' = [entry EXCEPT ![c] = None]
  /\ Goto(c, "walk")
  /\ UNCHANGED <<mask, mem_index, allocated, want, held, lost, mapped>>

\* Faulty variant: the index goes back when an area is freed.
Fault_FreeDecrements(c) ==
  /\ pc[c] = "walk"
  /\ Wanted(c) = {}
  /\ mem_index' = IF want[c] = All \/ mem_index = 0 THEN 0 ELSE mem_index - 1
  /\ want' = [want EXCEPT ![c] = None]
  /\ Goto(c, "idle")
  /\ UNCHANGED <<mask, list, allocated, entry, held, lost, mapped>>

\* Faulty variant: the walk ends after one entry.
Fault_WalkStops(c) ==
  /\ pc[c] = "walk"
  /\ mem_index' = IF want[c] = All THEN 0 ELSE mem_index
  /\ want' = [want EXCEPT ![c] = None]
  /\ Goto(c, "idle")
  /\ UNCHANGED <<mask, list, allocated, entry, held, lost, mapped>>

\* The end of the list; a cleanup starts counting anew.
WalkEnd(c) ==
  /\ pc[c] = "walk"
  /\ Wanted(c) = {}
  /\ mem_index' = IF want[c] = All THEN 0 ELSE mem_index
  /\ want' = [want EXCEPT ![c] = None]
  /\ Goto(c, "idle")
  /\ UNCHANGED <<mask, list, allocated, entry, held, lost, mapped>>

----------------------------------------------------------------------------
(* xp_dma_mmap of n pages at page offset off.                              *)

\* The first entry with that offset, if it is long enough; other requests are
\* refused.
MapFind(c, off, n) ==
  /\ pc[c] = "idle"
  /\ off < mem_index
  /\ \E k \in 1 .. Len(list) :
       /\ list[k].offset = off
       /\ \A j \in 1 .. k - 1 : list[j].offset # off
       /\ n <= list[k].len
       /\ entry' = [entry EXCEPT ![c] = [offset |-> off, paddr |-> list[k].paddr, len |-> n]]
  /\ mapped' = None
  /\ Goto(c, "map")
  /\ UNCHANGED <<mask, list, mem_index, allocated, want, held, lost>>

\* remap_pfn_range.
Remap(c) ==
  /\ pc[c] = "map"
  /\ mapped' = entry[c]
  /\ entry' = [entry EXCEPT ![c] = None]
  /\ Goto(c, "idle")
  /\ UNCHANGED <<mask, list, mem_index, allocated, want, held, lost>>

Next ==
  \/ SetMask
  \/ \E c \in Callers :
       \/ \E a \in Areas, n \in Pages : AllocArea(c, a, n)
       \/ AllocNoEntry(c) \/ AllocAdd(c) \/ AllocReturn(c) \/ AllocNoCopy(c)
       \/ \E a \in Areas : FreeStart(c, a)
       \/ CleanupStart(c) \/ DmaFree(c) \/ ListDel(c) \/ WalkEnd(c)
       \/ \E off \in 0 .. MaxIndex, n \in Pages : MapFind(c, off, n)
       \/ Remap(c)

Spec == Init /\ [][Next]_vars

----------------------------------------------------------------------------
(* Properties.                                                             *)

\* The list, the index and the callers stay in their ranges.
TypeOK ==
  /\ mask \in BOOLEAN
  /\ list \in Seq(Entry)
  /\ mem_index \in 0 .. MaxIndex
  /\ allocated \subseteq Areas
  /\ pc \in [Callers -> {"idle", "kmalloc", "copy", "walk", "del", "map"}]
  /\ entry \in [Callers -> Entry \cup {None}]
  /\ want \in [Callers -> Areas \cup {All, None}]
  /\ held \subseteq Entry
  /\ lost \subseteq Areas
  /\ mapped \in Entry \cup {None}

\* A caller has freed the area of this entry and is about to unlink it.
BeingFreed(x) == \E c \in Callers : pc[c] = "del" /\ entry[c] = x

\* The list holds areas that are allocated, each once, except for one that is
\* just being freed: so dma_free_coherent gives no area back twice.
ListIsAllocated ==
  /\ \A x \in Members(list) : x.paddr \in allocated \/ BeingFreed(x)
  /\ \A j, k \in 1 .. Len(list) : list[j].paddr = list[k].paddr => j = k

\* Whatever failed, an area that user space was told of and did not give back
\* is allocated and in the list, under an offset that xp_dma_mmap accepts.
HeldIsListed ==
  \A x \in held : x \in Members(list) /\ x.offset < mem_index /\ x.paddr \in allocated

\* The list, what is allocated and what user space holds agree.
ListConsistent == ListIsAllocated /\ HeldIsListed

\* A mapping made with the offset that user space was told for an area maps
\* that area, as long as user space was told of every area in the list.
MapsOwnArea ==
  [][mapped' \notin {mapped, None} /\ Members(list) \subseteq held =>
       \A x \in held : x.offset = mapped'.offset => x.paddr = mapped'.paddr]_vars

\* "Traversing loop for user specific offset.": the same without the condition.
AlwaysMapsOwnArea ==
  [][mapped' \notin {mapped, None} =>
       \A x \in held : x.offset = mapped'.offset => x.paddr = mapped'.paddr]_vars

\* "Cleanup allocated DMA memory, give it back to kernel.": a cleanup leaves
\* nothing allocated but areas whose entry could not be allocated.
CleanupGivesBack ==
  [][\A c \in Callers :
       pc[c] = "walk" /\ want[c] = All /\ pc'[c] = "idle" => allocated' \subseteq lost]_vars

\* The same without the exception.
CleanupGivesAll ==
  [][\A c \in Callers :
       pc[c] = "walk" /\ want[c] = All /\ pc'[c] = "idle" => allocated' = {}]_vars

\* dma_free_coherent gives back only what is allocated.
FreedOnce ==
  [][\A c \in Callers : pc[c] = "walk" /\ pc'[c] = "del" => entry'[c].paddr \in allocated]_vars

\* What is mapped is allocated at that moment.
MapsAllocated == [][mapped' \notin {mapped, None} => mapped'.paddr \in allocated]_vars

----------------------------------------------------------------------------
(* The inductive invariant, for one caller at a time.                      *)

\* What a call knows at each of its steps.
CallerInv(c) ==
  /\ pc[c] \in {"kmalloc", "copy", "del", "map"} => entry[c] \in Entry
  /\ pc[c] = "kmalloc" => entry[c].paddr \in allocated \ PaddrsOf(list)
  /\ pc[c] = "copy" => /\ entry[c] \in Members(list)
                       /\ entry[c].paddr \in allocated
                       /\ entry[c].offset = mem_index
  /\ pc[c] \in {"kmalloc", "copy"} => mem_index < MaxIndex
  /\ pc[c] \in {"walk", "del"} => /\ want[c] # None
                                  /\ \A x \in held : want[c] \notin {All, x.paddr}
  /\ pc[c] = "del" => /\ entry[c] \in Members(list)
                      /\ entry[c].paddr \notin allocated
                      /\ want[c] \in {All, entry[c].paddr}
  /\ pc[c] = "map" => \E x \in Members(list) : /\ x.offset = entry[c].offset
                                               /\ x.paddr = entry[c].paddr
                                               /\ x.paddr \in allocated

\* Nothing is allocated but what is listed, lost or about to be listed.
AllListed ==
  \A a \in allocated : \/ a \in PaddrsOf(list) \cup lost
                      \/ \E c \in Callers : pc[c] = "kmalloc" /\ entry[c].paddr = a

DmaInv ==
  /\ TypeOK
  /\ ListConsistent
  /\ \A x \in Members(list) : x.offset <= mem_index
  /\ \A x, y \in held : x.offset = y.offset => x = y
  /\ \A c \in Callers : CallerInv(c)
  /\ AllListed

=============================================================================
