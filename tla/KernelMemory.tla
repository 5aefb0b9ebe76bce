----------------------------- MODULE KernelMemory ----------------------------
(***************************************************************************)
(* The kernel's physical memory: the range the heap and the back buffer    *)
(* take (kernel/src/main.rs), the frames handed out from the rest          *)
(* (memory.rs) and the page tables made of them (paging.rs).  A page is    *)
(* named by its index at each level, the highest first.                    *)
(***************************************************************************)
EXTENDS Integers, SequencesExt

CONSTANTS Layouts,    \* memory maps: sequences of [base, length, usable]
          FrameSize,  \* FRAME
          HeapSize,   \* the heap and the back buffer
          Levels,     \* 4 in the code
          Indices,    \* indices of a table, 512 in the code
          Devices,    \* frames of registers and of the firmware's tables
          Huge        \* indices of the highest table that Limine covered with huge pages

ASSUME MemoryAssumption ==
    /\ {FrameSize, Levels} \subseteq Nat \ {0} /\ HeapSize \in Nat /\ Devices \subseteq Nat \ {0} /\ Huge \subseteq Indices
    /\ \A l \in Layouts :
          /\ l \in Seq([base : Nat, length : Nat, usable : BOOLEAN])
          /\ \A i, j \in DOMAIN l : l[i].usable /\ l[j].usable /\ i # j =>
                l[i].base + l[i].length <= l[j].base \/ l[j].base + l[j].length <= l[i].base

VARIABLES layout,  \* Limine's map
          free,    \* the stack of free frames, its top last
          tables,  \* of each table: the frame each index leads to, or none
          handed   \* frames allocated that are no tables

memoryVars == <<layout, free, tables, handed>>

NoFrame == 0
Root == -1       \* the table in CR3, which Limine made
HugePage == -2   \* an entry that leads to no table

FramesTo(n) == (n + FrameSize - 1) \div FrameSize
CeilFrame(n) == FramesTo(n) * FrameSize
Usable(l) == {i \in DOMAIN l : l[i].usable}

\* largest_usable: the last of the largest.
Largest(l) == CHOOSE i \in Usable(l) : \A j \in Usable(l) :
                  l[j].length < l[i].length \/ (l[j].length = l[i].length /\ j <= i)
HeapStart(l) == CeilFrame(l[Largest(l)].base)
Taken == CeilFrame(HeapSize)
Starts(l) == Usable(l) # {} /\ HeapStart(l) + Taken <= l[Largest(l)].base + l[Largest(l)].length

FrameRow(first, end) == [k \in 1 .. end - first |-> (first + k - 1) * FrameSize]

\* Mutant: the last frame of a region is counted though it ends beyond it.
FramesOf_Rounded(r) == FrameRow(FramesTo(r.base), FramesTo(r.base + r.length))

\* The whole frames of a region, in order.
FramesOf(r) == FrameRow(FramesTo(r.base), (r.base + r.length) \div FrameSize)

\* Frames::new: not the frame at 0, nor what the heap takes.
Givable(l, n) == n # 0 /\ ~(n >= HeapStart(l) /\ n < HeapStart(l) + Taken)
Stacked(l) ==
    LET Push(stack, n) == IF Givable(l, n) THEN Append(stack, n) ELSE stack
        Add(stack, r) == IF r.usable THEN FoldLeft(Push, stack, FramesOf(r)) ELSE stack
    IN  FoldLeft(Add, <<>>, l)

Empty == [i \in Indices |-> NoFrame]
AtFirst == [i \in Indices |-> IF i \in Huge THEN HugePage ELSE NoFrame]

MemoryInit ==
    /\ layout \in {l \in Layouts : Starts(l)}
    /\ free = Stacked(layout)
    /\ tables = [t \in {Root} |-> AtFirst] /\ handed = {}

(***************************************************************************)
(* Frames                                                                  *)
(***************************************************************************)
Allocate ==
    /\ free # <<>>
    /\ free' = Front(free) /\ handed' = handed \cup {Last(free)}
    /\ UNCHANGED <<layout, tables>>

\* main.rs gives frames back before anything is mapped, and never again.
Deallocate(n) ==
    /\ n \in handed /\ DOMAIN tables = {Root}
    /\ free' = Append(free, n) /\ handed' = handed \ {n}
    /\ UNCHANGED <<layout, tables>>

(***************************************************************************)
(* Paging                                                                  *)
(***************************************************************************)
Pages == [1 .. Levels -> Indices]

Missing(entry) == entry = NoFrame

\* put, one level down: the table there, or a new one.
Down(w, i) ==
    IF w.error # "none" THEN w
    ELSE IF w.tables[w.at][i] = HugePage THEN [w EXCEPT !.error = "a huge page"]
    ELSE IF ~Missing(w.tables[w.at][i]) THEN [w EXCEPT !.at = w.tables[w.at][i]]
    ELSE IF w.free = <<>> THEN [w EXCEPT !.error = "no frame left"]
    ELSE LET fresh == Last(w.free)
         IN  [w EXCEPT !.free = Front(@), !.at = fresh,
                       !.tables = [t \in DOMAIN @ \cup {fresh} |->
                                      IF t = fresh THEN Empty ELSE IF t = w.at THEN [@[t] EXCEPT ![i] = fresh] ELSE @[t]]]

\* put: what was made on the way stays, whatever the end.
Put(page, frame) ==
    LET from == [at |-> Root, tables |-> tables, free |-> free, error |-> "none"]
        down == FoldLeft(Down, from, SubSeq(page, 1, Levels - 1))
        leaf == page[Levels]
    IN  /\ free' = down.free
        /\ tables' = IF down.error = "none" /\ down.tables[down.at][leaf] = NoFrame
                     THEN [down.tables EXCEPT ![down.at][leaf] = frame] ELSE down.tables
        /\ UNCHANGED <<layout, handed>>

Led == UNION {{tables[t][i] : i \in Indices} : t \in DOMAIN tables}

\* Of a frame of ours that nothing uses, by map; of a device's or the firmware's, by map_device
\* and map_shared: they differ in what they answer for a page already mapped.
MemoryNext ==
    \/ Allocate
    \/ \E n \in handed : Deallocate(n)
    \/ \E page \in Pages, n \in handed \ Led : Put(page, n)
    \/ \E page \in Pages, n \in Devices : Put(page, n)

MemorySpec == MemoryInit /\ [][MemoryNext]_memoryVars

(***************************************************************************)
(* Properties                                                              *)
(***************************************************************************)
MemoryTypeOK ==
    /\ handed \subseteq Nat /\ free \in Seq(Nat)
    /\ \A t \in DOMAIN tables : tables[t] \in [Indices -> Nat \cup {HugePage}]

\* Every frame has one owner: free, a table, or handed out.  It is whole, in
\* usable memory, and none of the heap's.
OneOwner ==
    LET made == DOMAIN tables \ {Root}
        heap == HeapStart(layout) .. HeapStart(layout) + Taken - 1
        bytes(n) == n .. n + FrameSize - 1
        usable == UNION {layout[i].base .. layout[i].base + layout[i].length - 1 : i \in Usable(layout)}
    IN  /\ IsInjective(free)
        /\ ToSet(free) \cap made = {} /\ ToSet(free) \cap handed = {} /\ made \cap handed = {}
        /\ \A n \in ToSet(free) \cup made \cup handed : bytes(n) \subseteq usable \ heap

\* What a page leads to.
Step1(t, i) == IF t \in DOMAIN tables THEN tables[t][i] ELSE NoFrame
Translation(page) == FoldLeft(Step1, Root, page)

\* A page mapped stays mapped to its frame, whatever is mapped or fails to
\* be later.
PagesStay ==
    [][\A page \in Pages : Translation(page) # NoFrame => Translation(page)' = Translation(page)]_memoryVars
=============================================================================
