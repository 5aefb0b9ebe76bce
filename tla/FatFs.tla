------------------------------- MODULE FatFs -------------------------------
(***************************************************************************)
(* The allocating writes of the FAT32 driver (kernel/src/fat.rs):          *)
(* write_file, make_dir and remove, each as the sequence of sector writes  *)
(* it makes, with the power going off between any two of them.             *)
(*                                                                         *)
(* The disk is the allocation tables (every copy), what each cluster holds *)
(* and the count of free clusters of FSInfo.  The memory of the machine is *)
(* the call under way (asked) and the writes it still has to make (todo).  *)
(* An operation reads first and writes afterwards, and nobody else writes  *)
(* to the disk: so a call is its plan, made when it starts, except for the *)
(* two parts that read the tables again in the middle, add_entry and       *)
(* free_chain, which stay in the plan as one element until it is reached.  *)
(*                                                                         *)
(* A name is 8.3 (Plain: its slot holds it as it is) or Long: Pieces[n]    *)
(* slots with its parts, last part first, then a slot with an alias.  Two  *)
(* names that differ by case only are one name.  A sector of a directory   *)
(* or of a file is one cluster; a sector of the table holds                *)
(* EntriesPerSector entries.  What a free cluster holds is Junk: nobody    *)
(* reads it.  Dates, attributes other than "directory" and the checksum of *)
(* a long name, which the driver writes and never reads, are left out.     *)
(***************************************************************************)
EXTENDS Integers, FiniteSetsExt, SequencesExt

CONSTANTS Plain, Long,      \* names
          Full,             \* long names that fill their last slot: no terminator
          Pieces,           \* Pieces[n]: slots of the long name n
          Alias,            \* Alias[n]: the 8.3 aliases of n, in order (all Plain)
          FilePaths,        \* paths of files: <<name>> or <<folder, name>>
          FolderPaths,      \* paths of directories: <<name>>
          Contents, SizeOf, \* what files hold, and in how many clusters
          LastCluster,      \* clusters are 2..LastCluster; the root is cluster 2
          SlotsPerCluster, EntriesPerSector, Copies,
          Counted,          \* whether the boot sector names an FSInfo sector
          Crashes           \* whether the power may go

Clusters == 2..LastCluster
Root == 2
Free == 0
EndOfChain == LastCluster + 1

ASSUME LayoutAssumption ==
    /\ LastCluster \in Nat /\ LastCluster > 2
    /\ SlotsPerCluster \in Nat /\ SlotsPerCluster >= 2
    /\ EntriesPerSector \in Nat \ {0} /\ Copies \in Nat \ {0}
    /\ Counted \in BOOLEAN /\ Crashes \in BOOLEAN
ASSUME NamesAssumption ==
    /\ Full \subseteq Long /\ Plain \cap Long = {}
    /\ Pieces \in [Long -> Nat \ {0}]
    /\ Alias \in [Long -> Seq(Plain)]
    /\ FolderPaths \subseteq {<<n>> : n \in Plain \cup Long}
    /\ FilePaths \subseteq {<<n>> : n \in Plain \cup Long}
                      \cup {<<p[1], n>> : p \in FolderPaths, n \in Plain \cup Long}
    /\ SizeOf \in [Contents -> Nat]

Paths == FilePaths \cup FolderPaths

VARIABLES fat,    \* fat[copy][cluster]: Free, the next cluster, or EndOfChain
          data,   \* data[cluster]: a block of slots, a piece of a file, or Junk
          count,  \* FSInfo's count of free clusters
          asked,  \* the call under way
          todo,   \* the writes it still has to make, in order
          shown   \* history: what the disk showed when the last call ended

disk == <<fat, data, count>>
vars == <<fat, data, count, asked, todo, shown>>

(***************************************************************************)
(* What clusters hold                                                      *)
(***************************************************************************)
Junk == [kind |-> "junk"]
Piece(v, i) == [kind |-> "piece", of |-> v, at |-> i]
Folder(slots) == [kind |-> "folder", slots |-> slots]

EndSlot == [kind |-> "end"]
Deleted == [kind |-> "deleted"]
Dot == [kind |-> "dot"]
Part(n, k) == [kind |-> "long", of |-> n, order |-> k]
Entry(short, cluster, size, directory) ==
    [kind |-> "short", short |-> short, cluster |-> cluster, size |-> size, directory |-> directory]

Blank == [i \in 1..SlotsPerCluster |-> EndSlot]
NewFolder == [Blank EXCEPT ![1] = Dot, ![2] = Dot]

(***************************************************************************)
(* Reading                                                                 *)
(***************************************************************************)

\* The chain that starts at a cluster, through the first copy of the table.
\* It is sound unless it leaves the partition or loops.
Walk(first) ==
    LET next == [c \in Free..EndOfChain |-> IF c \in Clusters THEN fat[1][c] ELSE c]
        at[n \in 0..Cardinality(Clusters)] == IF n = 0 THEN first ELSE next[at[n - 1]]
    IN  at
Sound(first) == first = Free \/ (first \in Clusters /\ Walk(first)[Cardinality(Clusters)] = EndOfChain)
Chain(first) ==
    LET at == Walk(first)
    IN  [i \in 1..Cardinality({n \in DOMAIN at : at[n] \in Clusters}) |-> at[i - 1]]

IsFolder(first) == first # Free /\ Sound(first)
                   /\ \A c \in Range(Chain(first)) : data[c].kind = "folder"

\* Where the i-th slot of a directory is: in which cluster of its chain, and
\* at which place in it.
BlockOf(i) == ((i - 1) \div SlotsPerCluster) + 1
PlaceOf(i) == ((i - 1) % SlotsPerCluster) + 1

\* The slots of a directory, read whole.
Slots(first) ==
    LET chain == Chain(first)
    IN  [i \in 1..Len(chain) * SlotsPerCluster |-> data[chain[BlockOf(i)]].slots[PlaceOf(i)]]

\* The slots before the end marker, and among them the entries.
Used(slots) == {i \in DOMAIN slots : \A j \in 1..i : slots[j] # EndSlot}
Items(slots) == {i \in Used(slots) : slots[i].kind = "short"}

\* Every long slot that comes just before an entry is taken for a part of its name.
FirstSlot(slots, i) == Min({j \in 1..i : \A k \in j..i - 1 : slots[k].kind = "long"})

\* The parts in their order, up to the one that ends with a terminator.
Ordered(parts) ==
    FlattenSeq([o \in 1..Max({parts[i].order : i \in DOMAIN parts}) |->
                  SelectSeq(parts, LAMBDA p : p.order = o)])
Ends(part) == part.order = Pieces[part.of] /\ part.of \notin Full
Cut(parts) ==
    IF \E i \in DOMAIN parts : Ends(parts[i])
    THEN SubSeq(parts, 1, Min({i \in DOMAIN parts : Ends(parts[i])}))
    ELSE parts
Whole(n) == [k \in 1..Pieces[n] |-> Part(n, k)]
LongName(parts) ==
    LET cut == Cut(Ordered(parts))
    IN  IF \E n \in Long : Whole(n) = cut
        THEN CHOOSE n \in Long : Whole(n) = cut
        ELSE cut
NameOf(slots, i) ==
    LET first == FirstSlot(slots, i)
    IN  IF first = i THEN slots[i].short ELSE LongName(SubSeq(slots, first, i - 1))

\* The slot of the first entry of that name; 0 when there is none.
Named(slots, n) ==
    LET found == {i \in Items(slots) : NameOf(slots, i) = n}
    IN  IF found = {} THEN 0 ELSE Min(found)

\* The first cluster of a directory, by its path; Free when there is none.
FolderAt(path) ==
    IF path = <<>> THEN Root
    ELSE LET slots == Slots(Root)
             i == Named(slots, path[1])
         IN  IF i # 0 /\ slots[i].directory THEN slots[i].cluster ELSE Free

Parent(path) == FolderAt(Front(path))
SlotsOfParent(path) == Slots(Parent(path))
SlotOf(path) == Named(SlotsOfParent(path), Last(path))

\* What a reader finds at a path.
Absent == "absent"
AFolder == "folder"
Damaged == "damaged"
Reads(item, v) ==
    LET chain == Chain(item.cluster)
    IN  /\ SizeOf[v] = item.size
        /\ Sound(item.cluster)
        /\ Len(chain) >= item.size
        /\ \A i \in 1..item.size : data[chain[i]] = Piece(v, i)
Content(item) ==
    IF item.directory THEN AFolder
    ELSE IF \E v \in Contents : Reads(item, v) THEN CHOOSE v \in Contents : Reads(item, v)
    ELSE Damaged
Lookup(path) ==
    LET parent == Parent(path)
        slots == Slots(parent)
        i == Named(slots, Last(path))
    IN  IF parent = Free \/ ~IsFolder(parent) \/ i = 0 THEN Absent ELSE Content(slots[i])

(***************************************************************************)
(* The writes an operation is made of                                      *)
(***************************************************************************)
Store(cluster, block) == [kind |-> "data", cluster |-> cluster, block |-> block]
Patch(cluster, at, slot) == [kind |-> "slot", cluster |-> cluster, at |-> at, slot |-> slot]
Table(copy, cells) == [kind |-> "table", copy |-> copy, cells |-> cells]
Adjust(by) == [kind |-> "count", by |-> by]
Add(parent, name, cluster, size, directory) ==
    [kind |-> "add", parent |-> parent, name |-> name,
     cluster |-> cluster, size |-> size, directory |-> directory]
Release(first) == [kind |-> "free", first |-> first]
Refuse == [kind |-> "refuse"]

SectorOf(c) == (c - 2) \div EntriesPerSector
Sector(s) == {c \in Clusters : SectorOf(c) = s}

\* The members of a set of numbers, the least first.
Nth(S, n) == CHOOSE c \in S : Cardinality({b \in S : b < c}) = n - 1
Ascending(S) == [n \in 1..Cardinality(S) |-> Nth(S, n)]

\* The sectors of the table that a change of these clusters makes dirty, in
\* the order in which they were first read.
SectorsOf(chain) ==
    LET firsts == {i \in DOMAIN chain : \A j \in 1..i - 1 : SectorOf(chain[j]) # SectorOf(chain[i])}
    IN  [n \in 1..Cardinality(firsts) |-> SectorOf(chain[Nth(firsts, n)])]

\* Mutant: the first copy only.
Flush_FirstCopy(table, sectors) ==
    [i \in DOMAIN sectors |-> Table(1, [c \in Sector(sectors[i]) |-> table[c]])]

\* Each dirty sector into every copy of the table.
Flush(table, sectors) ==
    [i \in 1..Len(sectors) * Copies |->
        Table(((i - 1) % Copies) + 1, [c \in Sector(sectors[((i - 1) \div Copies) + 1]) |-> table[c]])]

\* The first free clusters, in order; allocate fails when there are too few.
FreeClusters == {c \in Clusters : fat[1][c] = Free}
Allocate(n) == SubSeq(Ascending(FreeClusters), 1, n)
Chained(chain) ==
    [c \in Clusters |->
        IF Contains(chain, c)
        THEN LET i == CHOOSE i \in DOMAIN chain : chain[i] = c
             IN  IF i = Len(chain) THEN EndOfChain ELSE chain[i + 1]
        ELSE fat[1][c]]

PatchAt(chain, at, slot) ==
    IF BlockOf(at) \in DOMAIN chain THEN Patch(chain[BlockOf(at)], PlaceOf(at), slot) ELSE Refuse

\* Mutant: the directory entry first.
Written_EntryFirst(stored, flushed, entry) == entry \o stored \o flushed

\* The data, then the table, then the directory entry.
Written(stored, flushed, entry) == stored \o flushed \o entry

\* Mutant: the old clusters are freed first.
Replaced_FreeFirst(patch, old) == <<Release(old), patch>>

\* The entry of a file that exists points at the new clusters, then the old
\* ones are freed.
Replaced(patch, old) == <<patch, Release(old)>>

(***************************************************************************)
(* Adding an entry                                                         *)
(***************************************************************************)

\* The 8.3 name of a new entry: the name itself, or its first alias that no
\* entry has.
Taken(slots) == {slots[i].short : i \in Items(slots)}
HasShort(n, taken) ==
    IF n \in Plain THEN n \notin taken
    ELSE \E k \in DOMAIN Alias[n] : Alias[n][k] \notin taken
ShortFor(n, taken) ==
    IF n \in Plain THEN n
    ELSE Alias[n][Min({k \in DOMAIN Alias[n] : Alias[n][k] \notin taken})]

\* The slots of a new entry: the parts of a long name, last first, then itself.
NewSlots(n, entry) ==
    IF n \in Plain THEN <<entry>> ELSE Append(Reverse(Whole(n)), entry)

\* A slot may be taken when it is deleted, or is the end marker or after it.
Vacant(slots, i) == i \notin Used(slots) \/ slots[i] = Deleted
Fits(slots, i, need) == \A j \in i..i + need - 1 : j \in DOMAIN slots /\ Vacant(slots, j)
\* Mutant: the new cluster's slots, with an end marker left before them.
Tailing_After(slots) == Len(slots) + 1

\* Where the vacant slots at the end of the directory begin.
Tailing(slots) ==
    Min({i \in 1..Len(slots) + 1 : \A j \in i..Len(slots) : Vacant(slots, j)})

\* One more cluster, zeroed and linked after the last: the sectors go to the
\* disk in the order of the table.
Grown(chain, added) == [Chained(<<added>>) EXCEPT ![Last(chain)] = added]
GrowthSectors(chain, added) ==
    SectorsOf(Ascending({Last(chain), added}))
Grow(chain, added) ==
    <<Store(added, Folder(Blank))>>
      \o Flush(Grown(chain, added), GrowthSectors(chain, added))
      \o <<Adjust(-1)>>

PatchAll(chain, at, slots) == [i \in DOMAIN slots |-> PatchAt(chain, at + i - 1, slots[i])]

\* add_entry, from what it reads when it is reached.
Addition(step) ==
    LET chain == Chain(step.parent)
        slots == Slots(step.parent)
        taken == Taken(slots)
        new == NewSlots(step.name, Entry(ShortFor(step.name, taken), step.cluster, step.size, step.directory))
        places == {i \in DOMAIN slots : Fits(slots, i, Len(new))}
    IN  IF ~HasShort(step.name, taken) THEN <<Refuse>>
        ELSE IF places # {} THEN PatchAll(chain, Min(places), new)
        ELSE IF FreeClusters = {} THEN <<Refuse>>
        ELSE LET added == Min(FreeClusters)
             IN  Grow(chain, added) \o PatchAll(Append(chain, added), Tailing(slots), new)

\* free_chain, from what it reads when it is reached.
Freeing(first) ==
    IF ~Sound(first) THEN <<Refuse>>
    ELSE IF first = Free THEN <<>>
    ELSE LET chain == Chain(first)
         IN  Flush([c \in Clusters |-> IF Contains(chain, c) THEN Free ELSE fat[1][c]], SectorsOf(chain))
               \o <<Adjust(Len(chain))>>

(***************************************************************************)
(* The calls                                                               *)
(***************************************************************************)
Nothing == [op |-> "nothing"]
Call(op, path, what) == [op |-> op, path |-> path, what |-> what]

Init ==
    /\ fat = [k \in 1..Copies |-> [c \in Clusters |-> IF c = Root THEN EndOfChain ELSE Free]]
    /\ data = [c \in Clusters |-> IF c = Root THEN Folder(Blank) ELSE Junk]
    /\ count = Cardinality(Clusters) - 1
    /\ asked = Nothing
    /\ todo = <<>>
    /\ shown = [path \in Paths |-> Absent]

\* The machine is idle and the directory of the path is there.
Ready(path) == asked = Nothing /\ IsFolder(Root) /\ Parent(path) # Free /\ IsFolder(Parent(path))

\* write_file: refused over a directory and on a full disk, before any write.
WriteFile(path, v) ==
    LET slots == SlotsOfParent(path)
        i == SlotOf(path)
        chain == Allocate(SizeOf[v])
        first == IF chain = <<>> THEN Free ELSE Head(chain)
    IN  /\ Ready(path)
        /\ i # 0 => ~slots[i].directory
        /\ Cardinality(FreeClusters) >= SizeOf[v]
        /\ asked' = Call("write", path, v)
        /\ todo' = Written([k \in DOMAIN chain |-> Store(chain[k], Piece(v, k))],
                           Flush(Chained(chain), SectorsOf(chain)),
                           IF i = 0 THEN <<Add(Parent(path), Last(path), first, SizeOf[v], FALSE)>>
                           ELSE Replaced(PatchAt(Chain(Parent(path)), i,
                                                 [slots[i] EXCEPT !.cluster = first, !.size = SizeOf[v]]),
                                         slots[i].cluster))
                     \o <<Adjust(-SizeOf[v])>>
        /\ UNCHANGED <<disk, shown>>

\* make_dir: a directory that exists is left as it is.
MakeDir(path) ==
    LET added == Min(FreeClusters)
    IN  /\ Ready(path)
        /\ SlotOf(path) = 0
        /\ FreeClusters # {}
        /\ asked' = Call("make", path, AFolder)
        /\ todo' = Written(<<Store(added, Folder(NewFolder))>>,
                           Flush(Chained(<<added>>), SectorsOf(<<added>>)),
                           <<Add(Parent(path), Last(path), added, 0, TRUE)>>)
                     \o <<Adjust(-1)>>
        /\ UNCHANGED <<disk, shown>>

\* remove: the slots of the entry one by one, then its clusters.
RemovePath(path) ==
    LET slots == SlotsOfParent(path)
        i == SlotOf(path)
        first == FirstSlot(slots, i)
    IN  /\ Ready(path)
        /\ i # 0
        /\ slots[i].directory => /\ IsFolder(slots[i].cluster)
                                 /\ Items(Slots(slots[i].cluster)) = {}
        /\ asked' = Call("remove", path, Absent)
        /\ todo' = [k \in 1..i - first + 1 |-> PatchAt(Chain(Parent(path)), first + k - 1, Deleted)]
                     \o <<Release(slots[i].cluster)>>
        /\ UNCHANGED <<disk, shown>>

(***************************************************************************)
(* The writes                                                              *)
(***************************************************************************)
NextIs(kind) == todo # <<>> /\ Head(todo).kind = kind

WriteData ==
    /\ NextIs("data")
    /\ data' = [data EXCEPT ![Head(todo).cluster] = Head(todo).block]
    /\ todo' = Tail(todo)
    /\ UNCHANGED <<fat, count, asked, shown>>

\* A cluster freed in the first copy is read by nobody from then on.
WriteTable ==
    /\ NextIs("table")
    /\ LET step == Head(todo)
           freed == {c \in DOMAIN step.cells : step.copy = 1 /\ step.cells[c] = Free /\ fat[1][c] # Free}
       IN  /\ fat' = [fat EXCEPT ![step.copy] =
                        [c \in Clusters |-> IF c \in DOMAIN step.cells THEN step.cells[c] ELSE @[c]]]
           /\ data' = [c \in Clusters |-> IF c \in freed THEN Junk ELSE data[c]]
    /\ todo' = Tail(todo)
    /\ UNCHANGED <<count, asked, shown>>

WriteSlot ==
    /\ NextIs("slot")
    /\ data' = [data EXCEPT ![Head(todo).cluster].slots[Head(todo).at] = Head(todo).slot]
    /\ todo' = Tail(todo)
    /\ UNCHANGED <<fat, count, asked, shown>>

\* Mutant: the count is not held back.
Clamp_Not(n) == n

\* adjust_free: the count stays between none and all.
Clamp(n) == IF n < 0 THEN 0 ELSE IF n > Cardinality(Clusters) THEN Cardinality(Clusters) ELSE n
WriteCount ==
    /\ NextIs("count")
    /\ count' = IF Counted THEN Clamp(count + Head(todo).by) ELSE count
    /\ todo' = Tail(todo)
    /\ UNCHANGED <<fat, data, asked, shown>>

AddEntry ==
    /\ NextIs("add")
    /\ todo' = Addition(Head(todo)) \o Tail(todo)
    /\ UNCHANGED <<disk, asked, shown>>

FreeChain ==
    /\ NextIs("free")
    /\ todo' = Freeing(Head(todo).first) \o Tail(todo)
    /\ UNCHANGED <<disk, asked, shown>>

Tree == [path \in Paths |-> Lookup(path)]

\* The call returns.
Return ==
    /\ asked # Nothing /\ todo = <<>>
    /\ asked' = Nothing
    /\ shown' = Tree
    /\ UNCHANGED <<disk, todo>>

\* The call stops where it is: nobody reads any more what it had stored in
\* clusters that are still free.
Forgotten == [c \in Clusters |-> IF fat[1][c] = Free THEN Junk ELSE data[c]]
Stopped ==
    /\ asked' = Nothing
    /\ todo' = <<>>
    /\ data' = Forgotten
    /\ shown' = Tree
    /\ UNCHANGED <<fat, count>>

\* It returns an error: no room for the entry, no alias, a damaged chain.
Fail == NextIs("refuse") /\ Stopped

\* The machine stops and starts again.
Crash == Crashes /\ asked # Nothing /\ Stopped

Next ==
    \/ \E path \in FilePaths, v \in Contents : WriteFile(path, v)
    \/ \E path \in FolderPaths : MakeDir(path)
    \/ \E path \in Paths : RemovePath(path)
    \/ WriteData \/ WriteTable \/ WriteSlot \/ WriteCount
    \/ AddEntry \/ FreeChain \/ Return \/ Fail \/ Crash

Spec == Init /\ [][Next]_vars

(***************************************************************************)
(* Properties                                                              *)
(***************************************************************************)

\* Type invariant: the tables, the blocks, the count within the partition and
\* the plan of the call under way.
Blocks == {Junk} \cup {Piece(v, i) : v \in Contents, i \in 1..Cardinality(Clusters)}
TypeOK ==
    /\ fat \in [1..Copies -> [Clusters -> {Free, EndOfChain} \cup Clusters]]
    /\ \A c \in Clusters :
          IF data[c].kind = "folder" THEN DOMAIN data[c].slots = 1..SlotsPerCluster ELSE data[c] \in Blocks
    /\ count \in 0..Cardinality(Clusters)
    /\ asked.op \in {"nothing", "write", "make", "remove"}
    /\ asked = Nothing => todo = <<>>

\* Every entry of the root and of its directories, under whatever name it shows.
FoldersFound == {Root} \cup {Slots(Root)[i].cluster : i \in {j \in Items(Slots(Root)) : Slots(Root)[j].directory}}
EntriesFound == UNION {{<<f, i>> : i \in Items(Slots(f))} : f \in FoldersFound}
EntryFound(e) == Slots(e[1])[e[2]]

\* "Nothing points at garbage" (the header of fat.rs): whatever the write the
\* machine stopped after, every directory reads, every file has its clusters
\* whole and none of them is free, and no cluster belongs to two.
DirectoriesRead == IsFolder(Root) /\ \A f \in FoldersFound : IsFolder(f)
Holds(e) == EntryFound(e).directory
            \/ /\ Sound(EntryFound(e).cluster)
               /\ Len(Chain(EntryFound(e).cluster)) >= EntryFound(e).size
               /\ \A c \in Range(Chain(EntryFound(e).cluster)) : data[c].kind = "piece"
Apart(e, f) == Range(Chain(EntryFound(e).cluster)) \cap Range(Chain(EntryFound(f).cluster)) = {}
NoGarbage ==
    /\ DirectoriesRead
    /\ \A e \in EntriesFound :
          /\ Holds(e)
          /\ Root \notin Range(Chain(EntryFound(e).cluster))
          /\ \A f \in EntriesFound \ {e} : Apart(e, f)

\* A call that succeeds did what it was asked: the file, or the directory, is
\* found at its path, or no longer is.
AnswerHolds == asked # Nothing /\ todo = <<>> => Lookup(asked.path) = asked.what

\* "Stopped before, the old file is still there; stopped after, the new file is
\* there": between calls no entry shows under a name that no call gave it.
NamesGiven ==
    asked = Nothing =>
        \A e \in EntriesFound : NameOf(Slots(e[1]), e[2]) \in {Last(path) : path \in Paths}

\* Between calls, when the machine never stopped, the copies of the table
\* agree, FSInfo counts the free clusters ("Keeps FSInfo's count of free
\* clusters true") and no cluster is lost.
Reachable ==
    UNION {Range(Chain(f)) : f \in FoldersFound}
      \cup UNION {Range(Chain(EntryFound(e).cluster)) : e \in EntriesFound}
BooksBalance ==
    asked = Nothing =>
        /\ \A k \in 1..Copies : fat[k] = fat[1]
        /\ Counted => count = Cardinality(FreeClusters)
        /\ Clusters \ FreeClusters = Reachable

\* What the driver promises its callers (the header of fat.rs): a call changes
\* what its own path holds and nothing else; after one that stopped half-way,
\* the disk shows what it showed before or what was asked.
Promise == INSTANCE AtomicFiles WITH tree <- shown, request <- asked
AtomicCalls == Promise!Spec
=============================================================================
