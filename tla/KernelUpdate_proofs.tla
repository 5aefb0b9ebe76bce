------------------------- MODULE KernelUpdate_proofs -------------------------
(***************************************************************************)
(* Proofs about what comes from the network: the update, for every set of  *)
(* builds, every list of disks and any patience; and the TLS client, whose *)
(* stream, however it is cut, leads it to where the server is, for every   *)
(* flight of messages and any number of records of data.                   *)
(***************************************************************************)
EXTENDS Integers, KernelUpdate, KernelTls, SequenceTheorems, TLAPS

-----------------------------------------------------------------------------
(* The disks.                                                              *)

(* locate goes by the signature: no other readable disk has that of the    *)
(* disk the machine starts from.                                           *)
OneSignature ==
  \A i \in DOMAIN Disks :
    Disks[i].readable /\ Disks[i].signature = Disks[BootDisk].signature => i = BootDisk

LEMMA ConstantTypes ==
  /\ Builds \subseteq Nat \ {0} /\ First \in Builds /\ IsoBuild \in Builds
  /\ Published \subseteq Builds /\ Patience \in Nat
  /\ BootDisk \in DOMAIN Disks /\ BootDisk \in Nat \ {0} /\ DOMAIN Disks \subseteq Nat \ {0}
  BY BuildsAssumption DEF NoBuild

LEMMA OldestPublished == Min(Published) \in Published
<1>1. PICK b \in Published : \A c \in Published : b <= c
  BY BuildsAssumption
<1> QED
  BY <1>1 DEF Min

(* What is written to is the disk started from, and only when started from *)
(* one of its slots.                                                       *)
LEMMA OnlyTheBootDisk ==
  ASSUME OneSignature, NEW s, Locate(s) # NoBuild
  PROVE  Locate(s) = BootDisk /\ s \in Slots
<1> DEFINE ours == {i \in DOMAIN Disks : Disks[i].readable /\ Disks[i].signature = Disks[BootDisk].signature}
<1>1. s \in Slots /\ ours # {} /\ Locate(s) = Min(ours)
  BY DEF Locate
<1>2. ours = {BootDisk}
  BY <1>1 DEF OneSignature
<1>3. Min({BootDisk}) = BootDisk
  BY ConstantTypes DEF Min
<1> QED
  BY <1>1, <1>2, <1>3

-----------------------------------------------------------------------------
(* Types, in parts: the disk, the installer, and what the loop and the     *)
(* desktop keep.                                                           *)

DiskType ==
  /\ DOMAIN disk = Slots \cup {"conf"}
  /\ \A s \in Slots : disk[s].seen \in Kernels /\ disk[s].may \subseteq Kernels
  /\ disk["conf"].seen \in Slots /\ disk["conf"].may \subseteq Slots

InstType ==
  inst \in [step : {"idle", "manifest", "signature", "kernel", "finished"},
            build : Published \cup {NoBuild},
            write : {"none", "begin", "write", "flush", "hash", "settle", "reread"}]

DeskType ==
  desk \in [update : {"idle", "checking", "done"}, waited : 0..Patience,
            found : Published \cup {NoBuild},
            standing : {"none", "local", "current", "behind", "unlisted"},
            ask : BOOLEAN, install : {"none", "working", "installed", "failed"}]

LoopType ==
  /\ touched \subseteq DOMAIN Disks \cup {NoBuild} /\ again \in BOOLEAN
  /\ up \in Slots \cup {"iso", "off"} /\ running \in Builds
  /\ top \in Published /\ newest \in Published \cup {NoBuild}
  /\ check \in [wanted : BOOLEAN, busy : BOOLEAN]

LEMMA TypeParts ==
  /\ UpTypeOK <=> DiskType /\ InstType /\ DeskType /\ LoopType
  /\ UpTypeOK' <=> DiskType' /\ InstType' /\ DeskType' /\ LoopType'
  BY DEF UpTypeOK, DiskType, InstType, DeskType, LoopType

(* What a write and a flush do to the disk started from.                   *)
LEMMA WriteFacts ==
  ASSUME DiskType, Store = BootDisk, NEW o \in Slots \cup {"conf"}, NEW v, DiskWrite(o, v)
  PROVE  /\ DOMAIN disk' = Slots \cup {"conf"}
         /\ disk'[o].seen = v
         /\ disk'[o].may = disk[o].may \cup {v} \cup (IF o \in Slots THEN {Torn} ELSE {})
         /\ \A p \in Slots \cup {"conf"} : p # o => disk'[p] = disk[p]
         /\ touched' = touched \cup {BootDisk}
<1> DEFINE new == [seen |-> v, may |-> disk[o].may \cup {v} \cup {Torn : s \in {o} \cap Slots}]
<1>1. disk' = [disk EXCEPT ![o] = new]
  BY DEF DiskWrite
<1>2. disk'[o] = new /\ DOMAIN disk' = DOMAIN disk
  BY <1>1 DEF DiskType
<1>3. {Torn : s \in {o} \cap Slots} = IF o \in Slots THEN {Torn} ELSE {}
  OBVIOUS
<1>4. \A p \in Slots \cup {"conf"} : p # o => disk'[p] = disk[p]
  BY <1>1 DEF DiskType
<1>5. touched' = touched \cup {BootDisk}
  BY DEF DiskWrite
<1>6. new.seen = v /\ new.may = disk[o].may \cup {v} \cup {Torn : s \in {o} \cap Slots}
  OBVIOUS
<1> QED
  BY <1>2, <1>3, <1>4, <1>5, <1>6 DEF DiskType

LEMMA FlushFacts ==
  ASSUME DiskType, disk' = Flushed(disk)
  PROVE  /\ DOMAIN disk' = Slots \cup {"conf"}
         /\ \A o \in Slots \cup {"conf"} : disk'[o].seen = disk[o].seen /\ disk'[o].may = {disk[o].seen}
  BY DEF Flushed, DiskType

(* A power cut keeps, of each thing, one of the values it may have.        *)
LEMMA CutFacts ==
  ASSUME DiskType, PowerOff
  PROVE  /\ DOMAIN disk' = Slots \cup {"conf"}
         /\ \A o \in Slots \cup {"conf"} : disk'[o].may = {disk'[o].seen} /\ disk'[o].seen \in disk[o].may
<1>1. PICK a \in disk["a"].may, b \in disk["b"].may, d \in disk["conf"].may :
        disk' = [a |-> [seen |-> a, may |-> {a}], b |-> [seen |-> b, may |-> {b}],
                 conf |-> [seen |-> d, may |-> {d}]]
  BY DEF PowerOff
<1>2. disk'["a"] = [seen |-> a, may |-> {a}] /\ disk'["b"] = [seen |-> b, may |-> {b}]
      /\ disk'["conf"] = [seen |-> d, may |-> {d}]
  BY <1>1
<1>3. DOMAIN disk' = {"a", "b", "conf"}
  BY <1>1
<1> QED
  BY <1>2, <1>3 DEF Slots

-----------------------------------------------------------------------------
(* The inductive invariant.                                                *)

(* What is read is one of the values that a cut may leave; the slot in use *)
(* has one; and nothing survives a machine that is off.                    *)
DiskInv ==
  /\ touched \subseteq {BootDisk}
  /\ \A o \in Slots \cup {"conf"} : disk[o].seen \in disk[o].may
  /\ up \in Slots => disk[up].may = {running}
  /\ up = "off" => /\ \A s \in Slots : disk[s].may = {disk[s].seen}
                   /\ desk = NothingShown /\ inst = NoInstall

(* What an installation has done to the other slot when it comes to each of *)
(* its steps: it is torn until it is written, and flushed when named.      *)
InstallInv ==
  /\ Writing => inst.step = "kernel"
  /\ inst.step \in {"signature", "kernel"} => inst.build \in Published
  /\ inst.step = "kernel" => Store = BootDisk /\ inst.build > running
  /\ inst.write = "write" => Torn \in disk[Target].may
  /\ inst.write = "flush" => disk[Target].seen = inst.build
  /\ inst.write \in {"hash", "settle", "reread"} => disk[Target].may = {inst.build}
  /\ inst.write = "settle" => disk["conf"].seen = Target
  /\ inst.write = "reread" => disk["conf"].may = {Target}

(* What is said of an installation that ended.                             *)
ToldInv ==
  /\ InstalledIsTrue
  /\ desk.install = "installed" => ~desk.ask /\ inst.step = "finished"

UpInv == UpTypeOK /\ DiskInv /\ InstallInv /\ DefaultStarts /\ ToldInv

LEMMA InitInv == UpInit => UpInv
<1> SUFFICES ASSUME UpInit PROVE UpInv
  OBVIOUS
<1>0. \A o \in Slots \cup {"conf"} :
        /\ disk[o].may = {disk[o].seen}
        /\ disk[o].seen = IF o = "conf" THEN "a" ELSE First
  BY DEF UpInit
<1>1. DiskType
  BY <1>0, ConstantTypes DEF UpInit, DiskType, Slots, Kernels
<1>2. InstType /\ DeskType /\ LoopType
  <2>1. InstType
    BY DEF UpInit, InstType, NoInstall
  <2>2. DeskType
    BY ConstantTypes DEF UpInit, DeskType, NothingShown
  <2>3. check \in [wanted : BOOLEAN, busy : BOOLEAN]
    BY DEF UpInit, NothingChecked
  <2> QED
    BY <2>1, <2>2, <2>3, ConstantTypes, OldestPublished DEF UpInit, LoopType
<1>3. DiskInv
  BY <1>0 DEF UpInit, DiskInv, Slots
<1>4. InstallInv
  BY DEF UpInit, InstallInv, NoInstall, Writing
<1>5. DefaultStarts
  BY <1>0, ConstantTypes DEF DefaultStarts, Slots, Torn
<1>6. ToldInv
  BY DEF UpInit, ToldInv, InstalledIsTrue, NothingShown
<1> QED
  BY <1>1, <1>2, <1>3, <1>4, <1>5, <1>6, TypeParts DEF UpInv

(* A step that leaves the disk, the machine and the write under way alone  *)
(* is judged by the types and by what the installer may go on to.          *)
LEMMA QuietStep ==
  ASSUME UpInv, UNCHANGED <<disk, touched, again, up, running>>, up # "off",
         InstType', DeskType', LoopType', InstallInv', ToldInv'
  PROVE  UpInv'
<1>1. DiskType' /\ DiskInv' /\ DefaultStarts'
  BY TypeParts DEF UpInv, DiskType, DiskInv, DefaultStarts
<1> QED
  BY <1>1, TypeParts DEF UpInv

-----------------------------------------------------------------------------
(* The steps that do not touch the disk.                                   *)

(* Whoever writes runs from a slot.                                        *)
LEMMA WritersRun ==
  ASSUME OneSignature, UpInv, inst.step = "kernel"
  PROVE  Store = BootDisk /\ up \in Slots /\ Target \in Slots /\ Target # up /\ Slots = {up, Target}
<1>1. Store = BootDisk /\ BootDisk # NoBuild
  BY ConstantTypes DEF UpInv, InstallInv, NoBuild
<1>2. up \in Slots
  BY <1>1, OnlyTheBootDisk DEF Store
<1> QED
  BY <1>1, <1>2 DEF Target, Slots

LEMMA EndsFailed ==
  ASSUME UpInv, InstallEnds("failed"), up # "off",
         UNCHANGED <<disk, touched, again, up, running, top, newest, check>>
  PROVE  UpInv'
<1>1. /\ inst'.step = "finished" /\ inst'.write = "none" /\ inst'.build = inst.build
      /\ desk'.install = "failed"
  BY TypeParts DEF UpInv, InstallEnds, InstType, DeskType
<1>2. InstType' /\ DeskType' /\ LoopType'
  BY TypeParts DEF UpInv, InstallEnds, InstType, DeskType, LoopType
<1>3. InstallInv' /\ ToldInv'
  BY <1>1 DEF InstallInv, Writing, ToldInv, InstalledIsTrue
<1> QED
  BY <1>2, <1>3, QuietStep

(* The check, and the page that waits for it.                              *)
LEMMA ChecksKeep ==
  ASSUME UpInv, up # "off", InstType', DeskType', LoopType',
         UNCHANGED <<disk, touched, again, up, running, inst>>,
         desk'.install = desk.install, desk'.ask = desk.ask
  PROVE  UpInv'
<1>1. InstallInv' /\ ToldInv'
  BY DEF UpInv, InstallInv, Writing, Store, Target, ToldInv, InstalledIsTrue
<1> QED
  BY <1>1, QuietStep

LEMMA StandingType == Standing(top) \in {"none", "local", "current", "behind", "unlisted"}
  BY DEF Standing

LEMMA CheckSteps ==
  ASSUME UpInv, ClickCheck \/ StartCheck \/ CheckAnswered \/ Advance
  PROVE  UpInv'
<1> USE TypeParts DEF UpInv
<1>0. up # "off" /\ UNCHANGED <<disk, touched, again, up, running, top, inst>>
  BY DEF ClickCheck, StartCheck, CheckAnswered, Advance, LoopRuns, IsUp
<1>1. InstType'
  BY <1>0 DEF InstType
<1>2. LoopType'
  <2>1. newest' \in Published \cup {NoBuild} /\ top' = top
    BY DEF LoopType, ClickCheck, StartCheck, CheckAnswered, Advance
  <2>2. check' \in [wanted : BOOLEAN, busy : BOOLEAN]
    <3>1. CASE ClickCheck
      BY <3>1 DEF ClickCheck, LoopType
    <3>2. CASE StartCheck
      BY <3>2 DEF StartCheck
    <3>3. CASE CheckAnswered
      BY <3>3 DEF CheckAnswered, LoopType
    <3>4. CASE Advance
      BY <3>4 DEF Advance, LoopType
    <3> QED
      BY <3>1, <3>2, <3>3, <3>4
  <2> QED
    BY <1>0, <2>1, <2>2 DEF LoopType
<1>3. DeskType' /\ desk'.install = desk.install /\ desk'.ask = desk.ask
  <2>1. CASE ClickCheck
    <3>1. desk' = [desk EXCEPT !.update = "checking", !.waited = 0] /\ 0 \in 0..Patience
      BY <2>1, ConstantTypes DEF ClickCheck
    <3> QED
      BY <3>1 DEF DeskType
  <2>2. CASE StartCheck
    BY <2>2 DEF StartCheck, DeskType
  <2>3. CASE CheckAnswered
    BY <2>3, StandingType DEF CheckAnswered, DeskType, LoopType
  <2>4. CASE Advance
    <3>1. CASE desk' = [desk EXCEPT !.update = "done", !.found = NoBuild, !.standing = "none"]
      BY <3>1 DEF DeskType
    <3>2. CASE desk.waited < Patience /\ desk' = [desk EXCEPT !.waited = desk.waited + 1]
      <4>1. desk.waited + 1 \in 0..Patience
        BY <3>2, ConstantTypes DEF DeskType
      <4> QED
        BY <3>2, <4>1 DEF DeskType
    <3>3. CASE desk' = desk
      BY <3>3 DEF DeskType
    <3> QED
      BY <2>4, <3>1, <3>2, <3>3 DEF Advance
  <2> QED
    BY <2>1, <2>2, <2>3, <2>4
<1> QED
  BY <1>0, <1>1, <1>2, <1>3, ChecksKeep

LEMMA PublishKeeps == ASSUME UpInv, Publish PROVE UpInv'
<1> USE TypeParts DEF UpInv
<1>1. /\ top' \in Published
      /\ UNCHANGED <<disk, touched, again, up, running, newest, check, desk, inst>>
  BY DEF Publish
<1>2. DiskType' /\ InstType' /\ DeskType' /\ LoopType'
  BY <1>1 DEF DiskType, InstType, DeskType, LoopType
<1>3. DiskInv' /\ InstallInv' /\ DefaultStarts' /\ ToldInv'
  BY <1>1 DEF DiskInv, InstallInv, Writing, Store, Target, DefaultStarts, ToldInv, InstalledIsTrue
<1> QED
  BY <1>2, <1>3

(* The installer up to the kernel in memory.                               *)
LEMMA InstallerSteps ==
  ASSUME OneSignature, UpInv, NEW ok \in BOOLEAN,
         ClickInstall \/ StartInstall \/ FetchFails \/ ManifestCame \/ SignatureCame(ok) \/ KernelCame(ok)
  PROVE  UpInv'
<1> USE TypeParts DEF UpInv
<1>0. up # "off" /\ inst.write = "none"
      /\ UNCHANGED <<disk, touched, again, up, running, top, newest, check>>
  BY DEF ClickInstall, StartInstall, FetchFails, ManifestCame, SignatureCame, KernelCame, LoopRuns, IsUp, Writing
<1>1. CASE InstallEnds("failed")
  BY <1>0, <1>1, EndsFailed
<1>2. LoopType'
  BY <1>0 DEF LoopType
<1>3. CASE ClickInstall
  <2>1. inst' = inst /\ desk' = [desk EXCEPT !.install = "working", !.ask = TRUE]
    BY <1>3 DEF ClickInstall
  <2>2. DeskType' /\ InstType' /\ desk'.install = "working"
    BY <2>1 DEF DeskType, InstType
  <2>3. InstallInv' /\ ToldInv'
    BY <1>0, <2>1, <2>2 DEF InstallInv, Writing, Store, Target, ToldInv, InstalledIsTrue
  <2> QED
    BY <1>0, <1>2, <2>2, <2>3, QuietStep
<1>4. CASE StartInstall /\ ~InstallEnds("failed")
  <2>1. /\ inst' = [NoInstall EXCEPT !.step = "manifest"]
        /\ desk' = [desk EXCEPT !.ask = FALSE] /\ desk.ask
    BY <1>4 DEF StartInstall
  <2>2. DeskType' /\ InstType' /\ desk'.install = desk.install
    BY <2>1 DEF DeskType, InstType, NoInstall
  <2>3. inst'.step = "manifest" /\ inst'.write = "none"
    BY <2>1 DEF NoInstall
  <2>4. desk.install # "installed"
    BY <2>1 DEF ToldInv
  <2>5. InstallInv' /\ ToldInv'
    BY <2>2, <2>3, <2>4 DEF InstallInv, Writing, ToldInv, InstalledIsTrue
  <2> QED
    BY <1>0, <1>2, <2>2, <2>5, QuietStep
<1>5. CASE ManifestCame
  <2>1. PICK b \in Published : inst' = [inst EXCEPT !.step = "signature", !.build = b]
    BY <1>5 DEF ManifestCame
  <2>2. desk' = desk /\ inst.step = "manifest"
    BY <1>5 DEF ManifestCame
  <2>3. inst'.step = "signature" /\ inst'.write = "none" /\ inst'.build \in Published
    BY <1>0, <2>1 DEF InstType
  <2>4. InstType' /\ DeskType'
    BY <2>1, <2>2 DEF InstType, DeskType
  <2>5. InstallInv' /\ ToldInv'
    BY <2>2, <2>3 DEF InstallInv, Writing, ToldInv, InstalledIsTrue
  <2> QED
    BY <1>0, <1>2, <2>4, <2>5, QuietStep
<1>6. CASE KernelCame(ok) /\ ~InstallEnds("failed")
  <2>1. inst' = [inst EXCEPT !.write = "begin"] /\ desk' = desk /\ inst.step = "kernel"
    BY <1>6 DEF KernelCame
  <2>2. inst'.step = "kernel" /\ inst'.write = "begin" /\ inst'.build = inst.build
    BY <2>1 DEF InstType
  <2>3. InstType' /\ DeskType'
    BY <2>1 DEF InstType, DeskType
  <2>4. InstallInv' /\ ToldInv'
    BY <1>0, <2>1, <2>2 DEF InstallInv, Writing, Store, Target, ToldInv, InstalledIsTrue
  <2> QED
    BY <1>0, <1>2, <2>3, <2>4, QuietStep
<1>7. CASE SignatureCame(ok) /\ ~InstallEnds("failed")
  <2>1. /\ inst' = [inst EXCEPT !.step = "kernel"] /\ desk' = desk /\ inst.step = "signature"
        /\ IsNewer(inst.build, running) /\ Store # NoBuild
    BY <1>7 DEF SignatureCame
  <2>2. inst'.step = "kernel" /\ inst'.write = "none" /\ inst'.build = inst.build
    BY <1>0, <2>1 DEF InstType
  <2>3. InstType' /\ DeskType'
    BY <2>1 DEF InstType, DeskType
  <2>4. Store' = BootDisk /\ inst.build > running /\ inst.build \in Published
    BY <1>0, <2>1, OnlyTheBootDisk DEF Store, IsNewer, InstallInv
  <2>5. InstallInv' /\ ToldInv'
    BY <1>0, <2>1, <2>2, <2>4 DEF InstallInv, Writing, ToldInv, InstalledIsTrue
  <2> QED
    BY <1>0, <1>2, <2>3, <2>5, QuietStep
<1> QED
  BY <1>1, <1>3, <1>4, <1>5, <1>6, <1>7
     DEF StartInstall, FetchFails, SignatureCame, KernelCame

-----------------------------------------------------------------------------
(* The steps that write.                                                   *)

(* The disk's own types after a write or a flush.                          *)
LEMMA WriteType ==
  ASSUME DiskType, Store = BootDisk, NEW o \in Slots \cup {"conf"}, NEW v, DiskWrite(o, v),
         o \in Slots => v \in Kernels, o = "conf" => v \in Slots
  PROVE  DiskType'
<1>1. Torn \in Kernels /\ "conf" \notin Slots
  BY DEF Kernels, Slots
<1>2. CASE o = "conf"
  <2>1. disk'["conf"].seen = v /\ disk'["conf"].may = disk["conf"].may \cup {v}
        /\ \A s \in Slots : disk'[s] = disk[s]
    BY <1>1, <1>2, WriteFacts
  <2> QED
    BY <1>2, <2>1, WriteFacts DEF DiskType
<1>3. CASE o \in Slots
  <2>1. disk'["conf"] = disk["conf"] /\ \A s \in Slots : s # o => disk'[s] = disk[s]
    BY <1>1, <1>3, WriteFacts
  <2>2. disk'[o].seen \in Kernels /\ disk'[o].may \subseteq Kernels
    BY <1>1, <1>3, WriteFacts DEF DiskType
  <2> QED
    BY <2>1, <2>2, WriteFacts DEF DiskType
<1> QED
  BY <1>2, <1>3

LEMMA FlushType == ASSUME DiskType, disk' = Flushed(disk) PROVE DiskType'
<1>1. \A o \in Slots \cup {"conf"} : disk'[o].seen = disk[o].seen /\ disk'[o].may = {disk[o].seen}
  BY FlushFacts
<1> QED
  BY <1>1, FlushFacts DEF DiskType

(* What the loop keeps, and what is told, while the installer writes.      *)
LEMMA WritingKeeps ==
  ASSUME UpInv, inst.step = "kernel", touched' \in {touched, touched \cup {BootDisk}}, again' \in BOOLEAN,
         NEW next \in {"write", "flush", "hash", "settle", "reread"}, WriteThen(next),
         UNCHANGED <<up, running, top, newest, check>>
  PROVE  /\ InstType' /\ DeskType' /\ LoopType' /\ ToldInv'
         /\ inst'.step = "kernel" /\ inst'.write = next /\ inst'.build = inst.build
<1>1. inst' = [inst EXCEPT !.write = next] /\ desk' = desk
  BY DEF WriteThen
<1>2. inst'.step = "kernel" /\ inst'.write = next /\ inst'.build = inst.build
  BY <1>1, TypeParts DEF UpInv, InstType
<1>3. InstType'
  BY <1>1, TypeParts DEF UpInv, InstType
<1>4. DeskType' /\ LoopType'
  BY <1>1, TypeParts, ConstantTypes DEF UpInv, DeskType, LoopType
<1>5. ToldInv'
  BY <1>1 DEF UpInv, ToldInv, InstalledIsTrue
<1> QED
  BY <1>2, <1>3, <1>4, <1>5

LEMMA WriteBeginsKeeps == ASSUME OneSignature, UpInv, WriteBegins PROVE UpInv'
<1> USE TypeParts DEF UpInv
<1>0. /\ inst.write = "begin" /\ WriteThen("write") /\ DiskWrite(Target, Torn)
      /\ again' = (again \/ Target \in disk["conf"].may)
      /\ UNCHANGED <<up, running, top, newest, check>>
  BY DEF WriteBegins
<1>1. inst.step = "kernel"
  BY <1>0 DEF InstallInv, Writing
<1>2. Store = BootDisk /\ up \in Slots /\ Target \in Slots /\ Target # up /\ Slots = {up, Target}
  BY <1>1, WritersRun
<1>3. /\ disk'[Target].seen = Torn /\ disk'[Target].may = disk[Target].may \cup {Torn}
      /\ \A p \in Slots \cup {"conf"} : p # Target => disk'[p] = disk[p]
      /\ touched' = touched \cup {BootDisk}
  BY <1>0, <1>2, WriteFacts
<1>4. "conf" # Target /\ Target' = Target /\ Store' = Store
  BY <1>0, <1>2 DEF Slots, Target, Store
<1>5. again' \in BOOLEAN
  BY <1>0
<1>6. /\ InstType' /\ DeskType' /\ LoopType' /\ ToldInv'
      /\ inst'.step = "kernel" /\ inst'.write = "write" /\ inst'.build = inst.build
  BY <1>0, <1>1, <1>3, <1>5, WritingKeeps
<1>7. DiskType'
  <2>1. Torn \in Kernels
    BY DEF Kernels
  <2> QED
    BY <1>0, <1>2, <1>4, <2>1, WriteType
<1>8. DiskInv'
  <2>1. touched' \subseteq {BootDisk}
    BY <1>3 DEF DiskInv
  <2>2. \A o \in Slots \cup {"conf"} : disk'[o].seen \in disk'[o].may
    BY <1>3 DEF DiskInv
  <2>3. up' \in Slots /\ disk'[up'].may = {running'}
    BY <1>0, <1>2, <1>3 DEF DiskInv
  <2> QED
    BY <2>1, <2>2, <2>3 DEF DiskInv, Slots
<1>9. InstallInv'
  BY <1>0, <1>1, <1>2, <1>3, <1>4, <1>6 DEF InstallInv
<1>10. DefaultStarts'
  <2> SUFFICES ASSUME NEW s \in disk'["conf"].may, Torn \in disk'[s].may PROVE again'
    BY DEF DefaultStarts
  <2>1. s \in disk["conf"].may /\ s \in Slots
    BY <1>3, <1>4 DEF DiskType
  <2>2. CASE s = Target
    BY <1>0, <2>1, <2>2
  <2>3. CASE s # Target
    <3>1. Torn \in disk[s].may
      BY <1>3, <2>1, <2>3
    <3>2. again
      BY <2>1, <3>1 DEF DefaultStarts
    <3> QED
      BY <1>0, <3>2
  <2> QED
    BY <2>2, <2>3
<1> QED
  BY <1>6, <1>7, <1>8, <1>9, <1>10

LEMMA WriteEndsKeeps == ASSUME OneSignature, UpInv, WriteEnds PROVE UpInv'
<1> USE TypeParts DEF UpInv
<1>0. /\ inst.write = "write" /\ WriteThen("flush") /\ DiskWrite(Target, inst.build)
      /\ UNCHANGED <<again, up, running, top, newest, check>>
  BY DEF WriteEnds
<1>1. inst.step = "kernel"
  BY <1>0 DEF InstallInv, Writing
<1>2. Store = BootDisk /\ up \in Slots /\ Target \in Slots /\ Target # up /\ Slots = {up, Target}
  BY <1>1, WritersRun
<1>3. /\ disk'[Target].seen = inst.build /\ disk'[Target].may = disk[Target].may \cup {inst.build, Torn}
      /\ \A p \in Slots \cup {"conf"} : p # Target => disk'[p] = disk[p]
      /\ touched' = touched \cup {BootDisk}
  BY <1>0, <1>2, WriteFacts
<1>4. "conf" # Target /\ Target' = Target /\ Store' = Store
  BY <1>0, <1>2 DEF Slots, Target, Store
<1>5. again' \in BOOLEAN
  BY <1>0 DEF LoopType
<1>6. /\ InstType' /\ DeskType' /\ LoopType' /\ ToldInv'
      /\ inst'.step = "kernel" /\ inst'.write = "flush" /\ inst'.build = inst.build
  BY <1>0, <1>1, <1>3, <1>5, WritingKeeps
<1>7. DiskType'
  <2>1. inst.build \in Kernels
    BY <1>1, ConstantTypes DEF InstallInv, Kernels
  <2> QED
    BY <1>0, <1>2, <1>4, <2>1, WriteType
<1>8. DiskInv'
  <2>1. touched' \subseteq {BootDisk}
    BY <1>3 DEF DiskInv
  <2>2. \A o \in Slots \cup {"conf"} : disk'[o].seen \in disk'[o].may
    BY <1>3 DEF DiskInv
  <2>3. up' \in Slots /\ disk'[up'].may = {running'}
    BY <1>0, <1>2, <1>3 DEF DiskInv
  <2> QED
    BY <2>1, <2>2, <2>3 DEF DiskInv, Slots
<1>9. InstallInv'
  BY <1>0, <1>1, <1>2, <1>3, <1>4, <1>6 DEF InstallInv
<1>10. DefaultStarts'
  <2> SUFFICES ASSUME NEW s \in disk'["conf"].may, Torn \in disk'[s].may PROVE again'
    BY DEF DefaultStarts
  <2>1. s \in disk["conf"].may /\ s \in Slots
    BY <1>3, <1>4 DEF DiskType
  <2>2. Torn \in disk[s].may
    BY <1>0, <1>3, <2>1 DEF InstallInv
  <2>3. again
    BY <2>1, <2>2 DEF DefaultStarts
  <2> QED
    BY <1>0, <2>3
<1> QED
  BY <1>6, <1>7, <1>8, <1>9, <1>10

LEMMA FlushKernelKeeps == ASSUME OneSignature, UpInv, FlushKernel PROVE UpInv'
<1> USE TypeParts DEF UpInv
<1>0. /\ inst.write = "flush" /\ WriteThen("hash") /\ disk' = Flushed(disk) /\ again' = FALSE
      /\ UNCHANGED <<touched, up, running, top, newest, check>>
  BY DEF FlushKernel
<1>1. inst.step = "kernel"
  BY <1>0 DEF InstallInv, Writing
<1>2. Store = BootDisk /\ up \in Slots /\ Target \in Slots /\ Target # up /\ Slots = {up, Target}
  BY <1>1, WritersRun
<1>3. \A o \in Slots \cup {"conf"} : disk'[o].seen = disk[o].seen /\ disk'[o].may = {disk[o].seen}
  BY <1>0, FlushFacts
<1>4. Target' = Target /\ Store' = Store
  BY <1>0 DEF Target, Store
<1>5. disk[Target].seen = inst.build /\ disk[up].seen = running /\ disk[up].may = {running}
  BY <1>0, <1>2 DEF InstallInv, DiskInv
<1>6. /\ InstType' /\ DeskType' /\ LoopType' /\ ToldInv'
      /\ inst'.step = "kernel" /\ inst'.write = "hash" /\ inst'.build = inst.build
  BY <1>0, <1>1, WritingKeeps
<1>7. DiskType'
  BY <1>0, FlushType
<1>8. DiskInv'
  BY <1>0, <1>2, <1>3, <1>5 DEF DiskInv, Slots
<1>9. InstallInv'
  BY <1>0, <1>1, <1>2, <1>3, <1>4, <1>5, <1>6 DEF InstallInv
<1>10. DefaultStarts'
  <2>1. running # Torn /\ inst.build # Torn
    BY <1>1, ConstantTypes DEF InstallInv, LoopType, Torn
  <2>2. \A s \in Slots : Torn \notin disk'[s].may
    BY <1>2, <1>3, <1>5, <2>1
  <2>3. disk'["conf"].may \subseteq Slots
    BY <1>7 DEF DiskType
  <2> QED
    BY <2>2, <2>3 DEF DefaultStarts
<1> QED
  BY <1>6, <1>7, <1>8, <1>9, <1>10

LEMMA SwitchDefaultKeeps == ASSUME OneSignature, UpInv, SwitchDefault PROVE UpInv'
<1> USE TypeParts DEF UpInv
<1>0. /\ inst.write = "hash" /\ WriteThen("settle") /\ DiskWrite("conf", Target)
      /\ UNCHANGED <<again, up, running, top, newest, check>>
  BY DEF SwitchDefault
<1>1. inst.step = "kernel"
  BY <1>0 DEF InstallInv, Writing
<1>2. /\ Store = BootDisk /\ up \in Slots /\ Target \in Slots /\ Target # up /\ Slots = {up, Target}
      /\ "conf" \notin Slots
  BY <1>1, WritersRun DEF Slots
<1>3. /\ disk'["conf"].seen = Target /\ disk'["conf"].may = disk["conf"].may \cup {Target}
      /\ \A p \in Slots : disk'[p] = disk[p]
      /\ touched' = touched \cup {BootDisk}
  BY <1>0, <1>2, WriteFacts
<1>4. Target' = Target /\ Store' = Store
  BY <1>0 DEF Target, Store
<1>5. again' \in BOOLEAN
  BY <1>0 DEF LoopType
<1>6. /\ InstType' /\ DeskType' /\ LoopType' /\ ToldInv'
      /\ inst'.step = "kernel" /\ inst'.write = "settle" /\ inst'.build = inst.build
  BY <1>0, <1>1, <1>3, <1>5, WritingKeeps
<1>7. DiskType'
  BY <1>0, <1>2, WriteType
<1>8. DiskInv'
  BY <1>0, <1>2, <1>3 DEF DiskInv, Slots
<1>9. InstallInv'
  BY <1>0, <1>1, <1>2, <1>3, <1>4, <1>6 DEF InstallInv
<1>10. DefaultStarts'
  <2> SUFFICES ASSUME NEW s \in disk'["conf"].may, Torn \in disk'[s].may PROVE again'
    BY DEF DefaultStarts
  <2>1. Torn \notin disk[Target].may
    BY <1>0, <1>1, ConstantTypes DEF InstallInv, Torn
  <2>2. s \in Slots /\ Torn \in disk[s].may
    BY <1>2, <1>3 DEF DiskType
  <2>3. s \in disk["conf"].may
    BY <1>3, <2>1, <2>2
  <2>4. again
    BY <2>2, <2>3 DEF DefaultStarts
  <2> QED
    BY <1>0, <2>4
<1> QED
  BY <1>6, <1>7, <1>8, <1>9, <1>10

LEMMA FlushDefaultKeeps == ASSUME OneSignature, UpInv, FlushDefault PROVE UpInv'
<1> USE TypeParts DEF UpInv
<1>0. /\ inst.write = "settle" /\ WriteThen("reread") /\ disk' = Flushed(disk)
      /\ UNCHANGED <<touched, again, up, running, top, newest, check>>
  BY DEF FlushDefault
<1>1. inst.step = "kernel"
  BY <1>0 DEF InstallInv, Writing
<1>2. Store = BootDisk /\ up \in Slots /\ Target \in Slots /\ Target # up /\ Slots = {up, Target}
  BY <1>1, WritersRun
<1>3. \A o \in Slots \cup {"conf"} : disk'[o].seen = disk[o].seen /\ disk'[o].may = {disk[o].seen}
  BY <1>0, FlushFacts
<1>4. Target' = Target /\ Store' = Store
  BY <1>0 DEF Target, Store
<1>5. again' \in BOOLEAN
  BY <1>0 DEF LoopType
<1>6. /\ InstType' /\ DeskType' /\ LoopType' /\ ToldInv'
      /\ inst'.step = "kernel" /\ inst'.write = "reread" /\ inst'.build = inst.build
  BY <1>0, <1>1, <1>5, WritingKeeps
<1>7. DiskType'
  BY <1>0, FlushType
<1>8. disk[up].seen = running /\ \A o \in Slots \cup {"conf"} : disk[o].seen \in disk[o].may
  BY <1>2 DEF DiskInv
<1>9. DiskInv'
  BY <1>0, <1>2, <1>3, <1>8 DEF DiskInv, Slots
<1>10. InstallInv'
  <2>1. disk[Target].seen = inst.build /\ disk["conf"].seen = Target
    BY <1>0, <1>2, <1>8 DEF InstallInv
  <2>2. disk'[Target].may = {inst.build} /\ disk'["conf"].may = {Target}
    BY <1>2, <1>3, <2>1
  <2> QED
    BY <1>0, <1>1, <1>4, <1>6, <2>2 DEF InstallInv
<1>11. DefaultStarts'
  <2> SUFFICES ASSUME NEW s \in disk'["conf"].may, Torn \in disk'[s].may PROVE again'
    BY DEF DefaultStarts
  <2>1. s = disk["conf"].seen /\ s \in Slots
    BY <1>3 DEF DiskType
  <2>2. s \in disk["conf"].may /\ Torn \in disk[s].may
    BY <1>3, <1>8, <2>1
  <2>3. again
    BY <2>2 DEF DefaultStarts
  <2> QED
    BY <1>0, <2>3
<1> QED
  BY <1>6, <1>7, <1>9, <1>10, <1>11

LEMMA RereadDefaultKeeps == ASSUME OneSignature, UpInv, RereadDefault PROVE UpInv'
<1> USE TypeParts DEF UpInv
<1>0. /\ inst.write = "reread" /\ InstallEnds("installed")
      /\ UNCHANGED <<disk, touched, again, up, running, top, newest, check>>
  BY DEF RereadDefault
<1>1. inst.step = "kernel"
  BY <1>0 DEF InstallInv, Writing
<1>2. up # "off" /\ Target' = Target
  BY <1>0, <1>1, WritersRun DEF Slots, Target
<1>3. /\ inst'.step = "finished" /\ inst'.write = "none" /\ inst'.build = inst.build
      /\ desk'.install = "installed" /\ desk'.ask = FALSE
  BY <1>0 DEF InstallEnds, InstType, DeskType
<1>4. InstType' /\ DeskType' /\ LoopType'
  BY <1>0 DEF InstallEnds, InstType, DeskType, LoopType
<1>5. InstallInv'
  BY <1>3 DEF InstallInv, Writing
<1>6. ToldInv'
  <2>1. disk["conf"].may = {Target} /\ disk[Target].may = {inst.build} /\ inst.build > running
    BY <1>0, <1>1 DEF InstallInv
  <2> QED
    BY <1>0, <1>2, <1>3, <2>1 DEF ToldInv, InstalledIsTrue
<1> QED
  BY <1>0, <1>2, <1>4, <1>5, <1>6, QuietStep

LEMMA DiskFailsKeeps == ASSUME OneSignature, UpInv, DiskFails PROVE UpInv'
<1>1. up # "off"
  BY WritersRun DEF DiskFails, UpInv, InstallInv, Slots
<1> QED
  BY <1>1, EndsFailed DEF DiskFails

-----------------------------------------------------------------------------
(* Stopping and starting.                                                  *)

LEMMA PowerOffKeeps == ASSUME UpInv, PowerOff PROVE UpInv'
<1> USE TypeParts DEF UpInv
<1>0. /\ up' = "off" /\ newest' = NoBuild /\ check' = NothingChecked
      /\ desk' = NothingShown /\ inst' = NoInstall
      /\ UNCHANGED <<touched, again, running, top>>
  BY DEF PowerOff
<1>1. \A o \in Slots \cup {"conf"} : disk'[o].may = {disk'[o].seen} /\ disk'[o].seen \in disk[o].may
  BY CutFacts
<1>2. DiskType'
  BY <1>1, CutFacts DEF DiskType
<1>3. InstType' /\ LoopType'
  <2>1. InstType'
    BY <1>0 DEF NoInstall, InstType
  <2>2. check' \in [wanted : BOOLEAN, busy : BOOLEAN]
    BY <1>0 DEF NothingChecked
  <2> QED
    BY <1>0, <2>1, <2>2 DEF LoopType
<1>4. DeskType'
  BY <1>0, ConstantTypes DEF NothingShown, DeskType
<1>5. DiskInv'
  BY <1>0, <1>1 DEF DiskInv, Slots
<1>6. InstallInv' /\ ToldInv'
  BY <1>0 DEF NoInstall, NothingShown, InstallInv, Writing, ToldInv, InstalledIsTrue
<1>7. DefaultStarts'
  <2> SUFFICES ASSUME NEW s \in disk'["conf"].may, Torn \in disk'[s].may PROVE again'
    BY DEF DefaultStarts
  <2>1. s \in disk["conf"].may /\ s \in Slots /\ Torn \in disk[s].may
    BY <1>1 DEF DiskType
  <2>2. again
    BY <2>1 DEF DefaultStarts
  <2> QED
    BY <1>0, <2>2
<1> QED
  BY <1>2, <1>3, <1>4, <1>5, <1>6, <1>7

LEMMA BootKeeps == ASSUME UpInv, NEW s \in Slots \cup {"iso"}, Boot(s) PROVE UpInv'
<1> USE TypeParts DEF UpInv
<1>0. /\ up = "off" /\ up' = s /\ check' = [NothingChecked EXCEPT !.wanted = TRUE]
      /\ UNCHANGED <<disk, touched, again, top, newest, desk, inst>>
  BY DEF Boot
<1>1. running' \in Builds /\ (s \in Slots => running' = disk[s].seen)
  BY ConstantTypes DEF Boot, DiskType, Kernels
<1>2. desk = NothingShown /\ inst = NoInstall
  BY <1>0 DEF DiskInv
<1>3. DiskType' /\ InstType' /\ DeskType'
  BY <1>0 DEF DiskType, InstType, DeskType
<1>4. LoopType'
  <2>1. check' \in [wanted : BOOLEAN, busy : BOOLEAN]
    BY <1>0 DEF NothingChecked
  <2> QED
    BY <1>0, <1>1, <2>1 DEF LoopType
<1>5. DiskInv'
  BY <1>0, <1>1 DEF DiskInv, Slots
<1>6. InstallInv' /\ ToldInv'
  BY <1>0, <1>2 DEF NoInstall, NothingShown, InstallInv, Writing, ToldInv, InstalledIsTrue
<1>7. DefaultStarts'
  BY <1>0 DEF DefaultStarts
<1> QED
  BY <1>3, <1>4, <1>5, <1>6, <1>7

-----------------------------------------------------------------------------
(* The theorems.                                                           *)

LEMMA StepInv == ASSUME OneSignature, UpInv, [UpNext]_upVars PROVE UpInv'
<1>1. CASE UNCHANGED upVars
  <2>1. DiskType' /\ InstType' /\ DeskType' /\ LoopType'
    BY <1>1, TypeParts DEF UpInv, upVars, DiskType, InstType, DeskType, LoopType
  <2>2. DiskInv' /\ InstallInv' /\ DefaultStarts' /\ ToldInv'
    BY <1>1 DEF UpInv, upVars, DiskInv, InstallInv, Writing, Store, Target, DefaultStarts, ToldInv, InstalledIsTrue
  <2> QED
    BY <2>1, <2>2, TypeParts DEF UpInv
<1>2. CASE WriteStep
  BY <1>2, WriteBeginsKeeps, WriteEndsKeeps, FlushKernelKeeps, SwitchDefaultKeeps, FlushDefaultKeeps,
     RereadDefaultKeeps, DiskFailsKeeps DEF WriteStep
<1>3. CASE \E ok \in BOOLEAN : SignatureCame(ok) \/ KernelCame(ok)
  BY <1>3, InstallerSteps
<1>4. CASE ClickInstall \/ StartInstall \/ FetchFails \/ ManifestCame
  BY <1>4, InstallerSteps
<1> QED
  BY <1>1, <1>2, <1>3, <1>4, PublishKeeps, CheckSteps, PowerOffKeeps, BootKeeps DEF UpNext

LEMMA Invariance == ASSUME OneSignature PROVE UpSpec => []UpInv
<1>1. UpInv /\ [UpNext]_upVars => UpInv'
  BY StepInv
<1> QED
  BY <1>1, InitInv, PTL DEF UpSpec

(* Every variable of the update has its type, whatever is published,       *)
(* installed and cut short (install.rs, desktop.rs).                       *)
THEOREM UpTypeCorrect == ASSUME OneSignature PROVE UpSpec => []UpTypeOK
<1>1. UpInv => UpTypeOK
  BY DEF UpInv
<1> QED
  BY <1>1, Invariance, PTL

(* Rules 1 and 2 of storage.rs and install.rs: only the disk started from  *)
(* is written to, and the kernel that runs stays whole on it.              *)
THEOREM OtherSlotOnly == ASSUME OneSignature PROVE UpSpec => []OnlyTheOtherSlot
<1>1. UpInv => OnlyTheOtherSlot
  BY DEF UpInv, DiskInv, OnlyTheOtherSlot
<1> QED
  BY <1>1, Invariance, PTL

(* A cut at any moment leaves a default entry that starts, unless the slot *)
(* that was being overwritten was one it could name.                       *)
THEOREM CutsAreSafe == ASSUME OneSignature PROVE UpSpec => []DefaultStarts
<1>1. UpInv => DefaultStarts
  BY DEF UpInv
<1> QED
  BY <1>1, Invariance, PTL

(* "Installed" is said only of a newer build, flushed into the other slot, *)
(* that the default entry names.                                           *)
THEOREM ToldIsTrue == ASSUME OneSignature PROVE UpSpec => []InstalledIsTrue
<1>1. UpInv => InstalledIsTrue
  BY DEF UpInv, ToldInv
<1> QED
  BY <1>1, Invariance, PTL

(***************************************************************************)
(* TLS: the two sides of a conversation                                    *)
(***************************************************************************)

Spoken == {"extensions", "certificate", "verify", "finished"}
AllSpoken == Spoken \cup {"client hello", "server hello"}

\* What has been said when k messages of the flight have.
Said(k) == [j \in 1 .. k + 2 |-> IF j = 1 THEN "client hello" ELSE IF j = 2 THEN "server hello" ELSE Flight[j - 2]]
ShakeKeys(n) == [epoch |-> "handshake", of |-> Said(0), count |-> n]
TalkKeys(n) == [epoch |-> "application", of |-> Said(Len(Flight)), count |-> n]

\* What is left of a message when the first halves of a script have come.
Part(script, at) == SubSeq(Halves(script), 2 * (at \div 2) + 1, at)

ServerIs(script, at, transcript, keys, data, closed) ==
    [script |-> script, at |-> at, transcript |-> transcript, keys |-> keys, data |-> data, closed |-> closed]

\* A server that has not closed.
No == FALSE

\* The server when it greets, sends its flight, and afterwards.
Greeting(at) == ServerIs(<<"server hello">>, at, Hellos, NoKeys, 0, No)
Shaking(at, n) == ServerIs(Flight, at, Said(at \div 2), ShakeKeys(n), 0, No)
Talking(n, d, b) == ServerIs(<<>>, 0, Said(Len(Flight)), TalkKeys(n), d, b)

ClientIs(stage, pending, transcript, read, write, received) ==
    [stage |-> stage, pending |-> pending, transcript |-> transcript, read |-> read, write |-> write,
     received |-> received, error |-> "none"]

\* The client that has had all of that.
Greeted(at) == ClientIs("Hello", Part(<<"server hello">>, at), Hellos, NoKeys, NoKeys, <<>>)
Shaken(at, n) == ClientIs("Encrypted", Part(Flight, at), Said(at \div 2), ShakeKeys(n), ShakeKeys(0), <<>>)
ToldOf(n, d, b) ==
    ClientIs(IF b THEN "Closed" ELSE "Connected", <<>>, Said(Len(Flight)), TalkKeys(n), TalkKeys(0), [i \in 1 .. d |-> i])

Synced(c, s) ==
    \/ \E at \in 0 .. 1 : s = Greeting(at) /\ c = Greeted(at)
    \/ \E at \in 0 .. 2 * Len(Flight) - 1, n \in Nat : s = Shaking(at, n) /\ c = Shaken(at, n)
    \/ \E n, d \in Nat, b \in BOOLEAN : s = Talking(n, d, b) /\ c = ToldOf(n, d, b)

(* The flight is one of messages, the last of which is Finished.           *)
LEMMA FlightIs ==
  /\ Flight \in Seq(Spoken) /\ Len(Flight) \in Nat /\ Len(Flight) > 0 /\ DOMAIN Flight = 1 .. Len(Flight)
  /\ Flight[Len(Flight)] = "finished"
  /\ \A i \in 1 .. Len(Flight) - 1 : Flight[i] \in {"extensions", "certificate", "verify"}
  /\ \A i \in 1 .. Len(Flight) : Flight[i] \in AllSpoken
<1>1. Flight \in Seq(Spoken) /\ Flight # <<>>
  BY FlightAssumption DEF Spoken
<1>2. Len(Flight) \in Nat /\ Len(Flight) > 0 /\ DOMAIN Flight = 1 .. Len(Flight)
  BY <1>1
<1>3. \A i \in 1 .. Len(Flight) : Flight[i] \in Spoken
  BY <1>1
<1>4. \A i \in 1 .. Len(Flight) : Flight[i] = "finished" <=> i = Len(Flight)
  BY <1>2, FlightAssumption
<1>5. \A i \in 1 .. Len(Flight) - 1 : i \in 1 .. Len(Flight) /\ i # Len(Flight)
  <2>1. ASSUME NEW n \in Nat, NEW i \in 1 .. n - 1 PROVE i \in 1 .. n /\ i # n
    OBVIOUS
  <2> QED BY <1>2, <2>1
<1>6. Len(Flight) \in 1 .. Len(Flight)
  BY <1>2
<1> QED
  BY <1>1, <1>2, <1>3, <1>4, <1>5, <1>6 DEF Spoken, AllSpoken

(* A number and its half.                                                  *)
LEMMA Halving ==
  ASSUME NEW u \in Nat
  PROVE  u \div 2 \in Nat /\ u % 2 \in 0 .. 1 /\ u = 2 * (u \div 2) + (u % 2)
<1>1. u \div 2 \in Nat
  OBVIOUS
<1>2. u % 2 \in 0 .. 1
  OBVIOUS
<1>3. u = 2 * (u \div 2) + (u % 2)
  OBVIOUS
<1> QED
  BY <1>1, <1>2, <1>3

(* Half of a number and its odd one.                                       *)
LEMMA HalfOf ==
  ASSUME NEW m \in Nat, NEW g \in 0 .. 1
  PROVE  (2 * m + g) \div 2 = m
OBVIOUS

(* One element of a sequence.                                              *)
LEMMA OneOfMany ==
  ASSUME NEW S, NEW q \in Seq(S), NEW i \in 1 .. Len(q)
  PROVE  SubSeq(q, i, i) = <<q[i]>>
<1>1. SubSeq(q, i, i) = [j \in 1 .. 1 |-> q[i]]
  OBVIOUS
<1>2. \A x : <<x>> = [j \in 1 .. 1 |-> x]
  OBVIOUS
<1> QED
  BY <1>1, <1>2

(* A message, or a record, in two halves.                                  *)
LEMMA HalvesAre ==
  ASSUME NEW S, NEW q \in Seq(S)
  PROVE  /\ Halves(q) \in Seq(S \X (1 .. 2)) /\ Len(Halves(q)) = 2 * Len(q)
         /\ \A i \in 1 .. Len(q) : Halves(q)[2 * i][1] = q[i]
<1>1. Len(q) \in Nat /\ 2 * Len(q) \in Nat
  OBVIOUS
<1>2. \A j \in 1 .. 2 * Len(q) : (j + 1) \div 2 \in 1 .. Len(q) /\ 2 - (j % 2) \in 1 .. 2
  <2>1. ASSUME NEW a \in Nat, NEW j \in 1 .. 2 * a PROVE (j + 1) \div 2 \in 1 .. a /\ 2 - (j % 2) \in 1 .. 2
    OBVIOUS
  <2> QED BY <1>1, <2>1
<1>3. \A j \in 1 .. 2 * Len(q) : <<q[(j + 1) \div 2], 2 - (j % 2)>> \in S \X (1 .. 2)
  BY <1>2
<1> DEFINE X == S \X (1 .. 2)
<1>4. Halves(q) \in [1 .. 2 * Len(q) -> X]
  <2> HIDE DEF X
  <2> QED BY <1>3 DEF Halves, X
<1>5. Halves(q) \in Seq(X) /\ Len(Halves(q)) = 2 * Len(q)
  <2> HIDE DEF X
  <2>1. ASSUME NEW m \in Nat, NEW f \in [1 .. m -> X] PROVE f \in Seq(X) /\ Len(f) = m
    OBVIOUS
  <2> QED BY <1>1, <1>4, <2>1
<1>6. ASSUME NEW i \in 1 .. Len(q) PROVE Halves(q)[2 * i][1] = q[i]
  <2>1. 2 * i \in 1 .. 2 * Len(q) /\ (2 * i + 1) \div 2 = i
    BY <1>1
  <2> QED BY <2>1 DEF Halves
<1> QED
  BY <1>5, <1>6

(***************************************************************************)
(* Messages                                                                *)
(***************************************************************************)
Heeding(d, i, all) == IF d.error = "none" THEN Heard(d, all[2 * i][1]) ELSE d
Heeds == INSTANCE FoldLemmas WITH Op <- Heeding

(* Halves of a script taken one after the other: what waits, then what     *)
(* comes, up to a place in the script.                                     *)
LEMMA HalvesJoin ==
  ASSUME NEW S, NEW q \in Seq(S), NEW a \in Nat, NEW e \in 0 .. 1, NEW t \in Nat, 2 * a + e <= t, t <= 2 * Len(q)
  PROVE  LET h == Halves(q)
             all == SubSeq(h, 2 * a + 1, 2 * a + e) \o SubSeq(h, 2 * a + e + 1, t)
         IN  /\ Len(all) = t - 2 * a /\ all \in Seq(S \X (1 .. 2))
             /\ \A i \in 1 .. t - 2 * a : all[i] = h[2 * a + i]
<1> DEFINE h == Halves(q)
           X == S \X (1 .. 2)
           l == SubSeq(h, 2 * a + 1, 2 * a + e)
           r == SubSeq(h, 2 * a + e + 1, t)
<1>1. h \in Seq(X) /\ Len(h) = 2 * Len(q) /\ Len(q) \in Nat
  BY HalvesAre
<1> HIDE DEF h, X
<1>2. \A i \in 1 .. Len(h) : h[i] \in X
  BY <1>1
<1>3. l \in Seq(X) /\ Len(l) = e /\ \A i \in 1 .. e : l[i] = h[2 * a + i]
  <2>1. 2 * a + 1 \in Int /\ 2 * a + e \in Int /\ \A i \in 2 * a + 1 .. 2 * a + e : h[i] \in X
    BY <1>1, <1>2
  <2>2. /\ l \in Seq(X) /\ Len(l) = IF 2 * a + 1 <= 2 * a + e THEN (2 * a + e) - (2 * a + 1) + 1 ELSE 0
        /\ \A i \in 1 .. (2 * a + e) - (2 * a + 1) + 1 : l[i] = h[(2 * a + 1) + i - 1]
    BY <2>1, SubSeqProperties
  <2> HIDE DEF l
  <2>3. (2 * a + e) - (2 * a + 1) + 1 = e /\ \A i \in 1 .. e : (2 * a + 1) + i - 1 = 2 * a + i
    OBVIOUS
  <2> QED BY <2>2, <2>3
<1>4. r \in Seq(X) /\ Len(r) = t - (2 * a + e) /\ \A i \in 1 .. t - (2 * a + e) : r[i] = h[2 * a + e + i]
  <2>1. 2 * a + e + 1 \in Int /\ t \in Int /\ \A i \in 2 * a + e + 1 .. t : h[i] \in X
    BY <1>1, <1>2
  <2>2. /\ r \in Seq(X) /\ Len(r) = IF 2 * a + e + 1 <= t THEN t - (2 * a + e + 1) + 1 ELSE 0
        /\ \A i \in 1 .. t - (2 * a + e + 1) + 1 : r[i] = h[(2 * a + e + 1) + i - 1]
    BY <2>1, SubSeqProperties
  <2> HIDE DEF r
  <2>3. t - (2 * a + e + 1) + 1 = t - (2 * a + e) /\ \A i \in 1 .. t - (2 * a + e) : (2 * a + e + 1) + i - 1 = 2 * a + e + i
    OBVIOUS
  <2> QED BY <2>2, <2>3
<1> HIDE DEF l, r
<1>5. /\ l \o r \in Seq(X) /\ Len(l \o r) = Len(l) + Len(r)
      /\ \A i \in 1 .. Len(l) + Len(r) : (l \o r)[i] = IF i <= Len(l) THEN l[i] ELSE r[i - Len(l)]
  <2>1. l \in Seq(X) /\ r \in Seq(X)
    BY <1>3, <1>4
  <2> QED BY <2>1, ConcatProperties
<1>6. Len(l) + Len(r) = t - 2 * a
  BY <1>3, <1>4
<1>7. ASSUME NEW i \in 1 .. t - 2 * a PROVE (l \o r)[i] = h[2 * a + i]
  <2>1. CASE i <= e
    <3>1. i \in 1 .. e
      BY <2>1
    <3> QED BY <1>3, <1>5, <1>6, <2>1, <3>1
  <2>2. CASE ~(i <= e)
    <3>1. i - e \in 1 .. t - (2 * a + e) /\ 2 * a + e + (i - e) = 2 * a + i
      BY <2>2
    <3>2. (l \o r)[i] = r[i - e]
      BY <1>3, <1>5, <1>6, <2>2
    <3> QED BY <1>4, <3>1, <3>2
  <2> QED BY <2>1, <2>2
<1> QED
  BY <1>5, <1>6, <1>7 DEF l, r, h, X

\* A client that waits at half 2 * a + e of a script, and the clients d[k]
\* that it becomes as it hears the next messages, up to half t.
Hears(c, d, q, a, e, t) ==
    /\ c.pending = SubSeq(Halves(q), 2 * a + 1, 2 * a + e)
    /\ d[0] = [c EXCEPT !.pending = SubSeq(Halves(q), 2 * (t \div 2) + 1, t)]
    /\ \A k \in 1 .. (t \div 2) - a : d[k] = IF d[k - 1].error = "none" THEN Heard(d[k - 1], q[a + k]) ELSE d[k - 1]

\* From half 2 * a + e of a script to half t: where it begins, and how many
\* messages are heard.
Spans(a, e, t, from, n) == from = 2 * a + e + 1 /\ n = (t \div 2) - a

(* The halves of the k-th message after a.                                 *)
LEMMA PairsIn ==
  ASSUME NEW a \in Nat, NEW b \in Nat, NEW l \in Nat, NEW f \in 0 .. 1, NEW t \in Nat, t = 2 * b + f,
         b >= a, b <= l, NEW k \in 1 .. b - a
  PROVE  2 * k \in 1 .. t - 2 * a /\ 2 * a + 2 * k = 2 * (a + k) /\ a + k \in 1 .. l
<1>1. k \in Nat /\ k >= 1 /\ k <= b - a
  OBVIOUS
<1>2. 2 * k <= t - 2 * a
  BY <1>1
<1> QED BY <1>1, <1>2

(* The messages a client hears of a script, when some more of it comes:    *)
(* the client after each of them is what Heard makes of the one before.    *)
LEMMA MessagesAre ==
  ASSUME NEW S, NEW q \in Seq(S), NEW a \in Nat, NEW e \in 0 .. 1, NEW t \in Nat, 2 * a + e <= t, t <= 2 * Len(q),
         NEW c, NEW D, Hears(c, D, q, a, e, t), NEW from, NEW n, Spans(a, e, t, from, n)
  PROVE  Messages(c, SubSeq(Halves(q), from, t)) = D[n]
<1> DEFINE h == Halves(q)
           halves == SubSeq(h, 2 * a + e + 1, t)
           all == SubSeq(h, 2 * a + 1, 2 * a + e) \o halves
           w == Len(all) \div 2
           b == t \div 2
           f == t - 2 * b
           base == [c EXCEPT !.pending = SubSeq(all, 2 * w + 1, Len(all))]
           nums == [i \in 1 .. w |-> i]
<1>1. /\ h \in Seq(S \X (1 .. 2)) /\ Len(h) = 2 * Len(q) /\ Len(q) \in Nat
      /\ \A i \in 1 .. Len(q) : h[2 * i][1] = q[i]
  <2>1. Len(q) \in Nat
    OBVIOUS
  <2>2. h \in Seq(S \X (1 .. 2)) /\ Len(h) = 2 * Len(q)
    BY HalvesAre
  <2>3. \A i \in 1 .. Len(q) : h[2 * i][1] = q[i]
    BY HalvesAre
  <2> QED BY <2>1, <2>2, <2>3
<1>2. Len(all) = t - 2 * a /\ all \in Seq(S \X (1 .. 2)) /\ \A i \in 1 .. t - 2 * a : all[i] = h[2 * a + i]
  BY HalvesJoin
<1>3. b \in Nat /\ f \in 0 .. 1 /\ t = 2 * b + f /\ b >= a /\ b <= Len(q)
  <2>1. ASSUME NEW l \in Nat, t <= 2 * l
        PROVE  t \div 2 \in Nat /\ t - 2 * (t \div 2) \in 0 .. 1 /\ t \div 2 >= a /\ t \div 2 <= l
    <3> DEFINE g == t \div 2
               r == t % 2
    <3>1. g \in Nat /\ r \in 0 .. 1 /\ t = 2 * g + r
      BY Halving DEF g, r
    <3> HIDE DEF g, r
    <3> QED BY <2>1, <3>1 DEF g
  <2> QED BY <1>1, <2>1
<1> HIDE DEF all, h, halves, b, f
<1>4. w = b - a /\ b - a \in Nat
  <2>1. Len(all) = 2 * (b - a) + f
    BY <1>2, <1>3
  <2>3. b - a \in Nat
    <3>1. b \in Nat /\ a \in Nat /\ b >= a
      BY <1>3
    <3> QED BY <3>1
  <2> QED BY <1>3, <2>1, <2>3, HalfOf
<1>5. SubSeq(all, 2 * w + 1, Len(all)) = SubSeq(h, 2 * b + 1, t)
  <2>1. Len(all) = 2 * (b - a) + f /\ 2 * w + 1 = 2 * (b - a) + 1
    BY <1>2, <1>3, <1>4
  <2>2. CASE f = 0
    <3>1. 2 * (b - a) < 2 * (b - a) + 1 /\ t < 2 * b + 1 /\ Len(all) = 2 * (b - a)
      BY <1>3, <2>1, <2>2
    <3>2. SubSeq(all, 2 * (b - a) + 1, 2 * (b - a)) = <<>>
      BY <1>3, <3>1, SubSeqEmpty
    <3>3. SubSeq(h, 2 * b + 1, t) = <<>>
      BY <1>3, <3>1, SubSeqEmpty
    <3> QED BY <2>1, <3>1, <3>2, <3>3
  <2>3. CASE f = 1
    <3>0. Len(all) = 2 * (b - a) + 1 /\ t = 2 * b + 1 /\ 2 * (b - a) + 1 \in 1 .. t - 2 * a /\ 2 * a + (2 * (b - a) + 1) = 2 * b + 1
          /\ 2 * b + 1 \in 1 .. Len(h) /\ 2 * (b - a) + 1 \in 1 .. Len(all)
      BY <1>1, <1>3, <2>1, <2>3
    <3>1. all[2 * (b - a) + 1] = h[2 * b + 1]
      <4> DEFINE k == 2 * (b - a) + 1
      <4>1. k \in 1 .. t - 2 * a /\ 2 * a + k = 2 * b + 1
        BY <3>0
      <4> HIDE DEF k
      <4>2. all[k] = h[2 * a + k]
        BY <1>2, <4>1
      <4> QED BY <4>1, <4>2 DEF k
    <3>3. SubSeq(all, 2 * (b - a) + 1, 2 * (b - a) + 1) = <<all[2 * (b - a) + 1]>>
      BY <1>2, <3>0, OneOfMany
    <3>4. SubSeq(h, 2 * b + 1, 2 * b + 1) = <<h[2 * b + 1]>>
      BY <1>1, <3>0, OneOfMany
    <3> QED BY <2>1, <3>0, <3>1, <3>3, <3>4
  <2> QED BY <1>3, <2>2, <2>3
<1>6. base = D[0]
  BY <1>5 DEF b, h, Hears
<1>7. Messages(c, halves) = Heeds!Run(base, nums, all)
  <2> DEFINE both == c.pending \o halves
  <2>1. all = both
    BY DEF Hears, all, h
  <2>2. Messages(c, halves) = Heeds!Run([c EXCEPT !.pending = SubSeq(both, 2 * (Len(both) \div 2) + 1, Len(both))],
                                        [i \in 1 .. Len(both) \div 2 |-> i], both)
    BY Zenon DEF Messages, FoldLeft, MapThenFoldSet, Max, Heeds!Run, Heeds!Walk, Heeds!Top, Heeding
  <2> HIDE DEF both
  <2> QED BY <2>1, <2>2
<1>8. ASSUME NEW k \in 1 .. b - a PROVE D[k] = Heeding(D[k - 1], k, all)
  <2> DEFINE l == Len(q)
  <2>0. l \in Nat /\ b \in Nat /\ f \in 0 .. 1 /\ t = 2 * b + f /\ b >= a /\ b <= l
    BY <1>1, <1>3
  <2> HIDE DEF l
  <2>1. 2 * k \in 1 .. t - 2 * a /\ 2 * a + 2 * k = 2 * (a + k) /\ a + k \in 1 .. Len(q)
    BY <2>0, PairsIn DEF l
  <2>2. all[2 * k][1] = q[a + k]
    BY <1>1, <1>2, <2>1
  <2> QED BY <2>2 DEF Heeding, b, Hears
<1> DEFINE last == b - a
           P == {<<k, D[k]>> : k \in 0 .. last}
<1>9. <<last, Heeds!Run(base, nums, all)>> \in P
  <2>1. last \in Nat /\ DOMAIN nums = 1 .. last
    BY <1>4
  <2>2. <<0, base>> \in P
    BY <1>6, <2>1
  <2>3. ASSUME NEW k \in 1 .. last, NEW d, <<k - 1, d>> \in P PROVE <<k, Heeding(d, nums[k], all)>> \in P
    <3>1. d = D[k - 1]
      BY <2>1, <2>3
    <3>2. nums[k] = k
      BY <1>4
    <3>3. k \in 0 .. last
      BY <2>1
    <3> QED BY <1>8, <3>1, <3>2, <3>3
  <2> HIDE DEF P, last, nums, base
  <2> QED BY <2>1, <2>2, <2>3, Heeds!FoldKeeps, Zenon
<1>10. Heeds!Run(base, nums, all) = D[last]
  <2> DEFINE v == Heeds!Run(base, nums, all)
  <2> HIDE DEF v, last
  <2> QED BY <1>9 DEF v
<1> QED
  BY <1>7, <1>10 DEF b, halves, h, Spans

(***************************************************************************)
(* What has been said                                                      *)
(***************************************************************************)
(* What has been said is a sequence of messages.                           *)
LEMMA SaidIs ==
  ASSUME NEW k \in 0 .. Len(Flight)
  PROVE  /\ Said(k) \in Seq(AllSpoken) /\ Len(Said(k)) = k + 2
         /\ \A j \in 1 .. k + 2 :
               Said(k)[j] = IF j = 1 THEN "client hello" ELSE IF j = 2 THEN "server hello" ELSE Flight[j - 2]
<1>1. k \in Nat /\ k + 2 \in Nat
  BY FlightIs
<1>2. \A j \in 1 .. k + 2 : Said(k)[j] = IF j = 1 THEN "client hello" ELSE IF j = 2 THEN "server hello" ELSE Flight[j - 2]
  BY DEF Said
<1>3. \A j \in 1 .. k + 2 : Said(k)[j] \in AllSpoken
  <2>1. ASSUME NEW j \in 1 .. k + 2 PROVE Said(k)[j] \in AllSpoken
    <3>1. CASE j = 1 \/ j = 2
      BY <1>2, <3>1 DEF AllSpoken
    <3>2. CASE j # 1 /\ j # 2
      <4>1. j - 2 \in 1 .. Len(Flight)
        BY <1>1, <3>2, FlightIs
      <4>2. Flight[j - 2] \in Spoken
        BY <4>1, FlightIs
      <4> QED BY <1>2, <3>2, <4>2 DEF AllSpoken
    <3> QED BY <3>1, <3>2
  <2> QED BY <2>1
<1>4. Said(k) \in [1 .. k + 2 -> AllSpoken]
  BY <1>3 DEF Said
<1>5. ASSUME NEW m \in Nat, NEW X, NEW f \in [1 .. m -> X] PROVE f \in Seq(X) /\ Len(f) = m
  OBVIOUS
<1> QED
  BY <1>1, <1>2, <1>4, <1>5

(* Two sequences of a length that agree everywhere are one.                *)
LEMMA SameSequence ==
  ASSUME NEW X, NEW q \in Seq(X), NEW r \in Seq(X), Len(q) = Len(r), \A i \in 1 .. Len(q) : q[i] = r[i]
  PROVE  q = r
OBVIOUS

(* What has been said, and some more of the flight.                        *)
LEMMA SaidJoins ==
  ASSUME NEW a \in Nat, NEW b \in Nat, a <= b, b <= Len(Flight)
  PROVE  Said(a) \o SubSeq(Flight, a + 1, b) = Said(b)
<1> DEFINE l == Said(a)
           r == SubSeq(Flight, a + 1, b)
<1>1. Len(Flight) \in Nat /\ \A i \in 1 .. Len(Flight) : Flight[i] \in AllSpoken
  BY FlightIs
<1>2. /\ l \in Seq(AllSpoken) /\ Len(l) = a + 2
      /\ \A j \in 1 .. a + 2 : l[j] = IF j = 1 THEN "client hello" ELSE IF j = 2 THEN "server hello" ELSE Flight[j - 2]
  <2>1. a \in 0 .. Len(Flight)
    BY <1>1
  <2> QED BY <2>1, SaidIs
<1>3. /\ Said(b) \in Seq(AllSpoken) /\ Len(Said(b)) = b + 2
      /\ \A j \in 1 .. b + 2 : Said(b)[j] = IF j = 1 THEN "client hello" ELSE IF j = 2 THEN "server hello" ELSE Flight[j - 2]
  <2>1. b \in 0 .. Len(Flight)
    BY <1>1
  <2> QED BY <2>1, SaidIs
<1>4. r \in Seq(AllSpoken) /\ Len(r) = b - a /\ \A i \in 1 .. b - a : r[i] = Flight[a + i]
  <2>1. a + 1 \in Int /\ b \in Int /\ \A i \in a + 1 .. b : Flight[i] \in AllSpoken
    BY <1>1
  <2>2. /\ r \in Seq(AllSpoken) /\ Len(r) = IF a + 1 <= b THEN b - (a + 1) + 1 ELSE 0
        /\ \A i \in 1 .. b - (a + 1) + 1 : r[i] = Flight[(a + 1) + i - 1]
    BY <2>1, SubSeqProperties
  <2> HIDE DEF r
  <2>3. b - (a + 1) + 1 = b - a /\ \A i \in 1 .. b - a : (a + 1) + i - 1 = a + i
    OBVIOUS
  <2> QED BY <2>2, <2>3
<1> HIDE DEF l, r
<1>5. /\ l \o r \in Seq(AllSpoken) /\ Len(l \o r) = Len(l) + Len(r)
      /\ \A i \in 1 .. Len(l) + Len(r) : (l \o r)[i] = IF i <= Len(l) THEN l[i] ELSE r[i - Len(l)]
  <2>1. l \in Seq(AllSpoken) /\ r \in Seq(AllSpoken)
    BY <1>2, <1>4
  <2> QED BY <2>1, ConcatProperties
<1>6. Len(l) + Len(r) = b + 2
  <2>1. Len(l) = a + 2 /\ Len(r) = b - a
    BY <1>2, <1>4
  <2> QED BY <2>1
<1>7. ASSUME NEW j \in 1 .. b + 2 PROVE (l \o r)[j] = Said(b)[j]
  <2>1. CASE j <= a + 2
    <3>1. j \in 1 .. a + 2
      BY <2>1
    <3>2. (l \o r)[j] = l[j]
      BY <1>2, <1>5, <1>6, <2>1
    <3> QED BY <1>2, <1>3, <3>1, <3>2
  <2>2. CASE ~(j <= a + 2)
    <3>1. j - (a + 2) \in 1 .. b - a /\ a + (j - (a + 2)) = j - 2 /\ j # 1 /\ j # 2
      BY <2>2
    <3>2. (l \o r)[j] = r[j - (a + 2)]
      BY <1>2, <1>5, <1>6, <2>2
    <3> QED BY <1>3, <1>4, <3>1, <3>2
  <2> QED BY <2>1, <2>2
<1>8. l \o r = Said(b)
  <2> DEFINE x == l \o r
             y == Said(b)
  <2>1. x \in Seq(AllSpoken) /\ y \in Seq(AllSpoken) /\ Len(x) = b + 2 /\ Len(y) = b + 2 /\ \A i \in 1 .. b + 2 : x[i] = y[i]
    BY <1>3, <1>5, <1>6, <1>7
  <2> HIDE DEF x, y
  <2> QED BY <2>1, SameSequence DEF x, y
<1> QED
  BY <1>8 DEF l, r

(* Two messages.                                                           *)
LEMMA PairIs ==
  ASSUME NEW S, NEW x \in S, NEW y \in S
  PROVE  /\ Append(<<x>>, y) = <<x, y>>
         /\ <<x>> \o <<y>> = <<x, y>>
<1>1. <<x, y>> \in Seq(S) /\ Len(<<x, y>>) = 2 /\ <<x, y>>[1] = x /\ <<x, y>>[2] = y
  OBVIOUS
<1>2. <<x>> \in Seq(S) /\ <<y>> \in Seq(S) /\ Len(<<x>>) = 1 /\ Len(<<y>>) = 1 /\ <<x>>[1] = x /\ <<y>>[1] = y
  OBVIOUS
<1>3. Append(<<x>>, y) \in Seq(S) /\ Len(Append(<<x>>, y)) = 2 /\ Append(<<x>>, y)[1] = x /\ Append(<<x>>, y)[2] = y
  BY <1>2
<1>4. \A i \in 1 .. 2 : i = 1 \/ i = 2
  OBVIOUS
<1>5. <<x>> \o <<y>> \in Seq(S) /\ Len(<<x>> \o <<y>>) = 2 /\ (<<x>> \o <<y>>)[1] = x /\ (<<x>> \o <<y>>)[2] = y
  <2>1. 1 \in 1 .. 1 + 1 /\ 2 \in 1 .. 1 + 1 /\ 1 + 1 = 2 /\ 2 - 1 = 1 /\ ~(2 <= 1) /\ 1 <= 1
    OBVIOUS
  <2> QED BY <1>2, <2>1, ConcatProperties
<1> QED
  BY <1>1, <1>3, <1>4, <1>5, SameSequence

PairOf(x, y) == [j \in 1 .. 2 |-> IF j = 1 THEN x ELSE y]

(* A pair is a function on two places.                                     *)
LEMMA PairFunction ==
  ASSUME NEW x, NEW y
  PROVE  <<x, y>> = PairOf(x, y)
BY DEF PairOf

(* Both hellos.                                                            *)
LEMMA HellosAre ==
  Said(0) = Append(Hellos, "server hello") /\ Said(0) = Hellos \o <<"server hello">>
<1>1. Said(0) = PairOf("client hello", "server hello")
  <2>1. 0 + 2 = 2 /\ \A j \in 1 .. 2 : j = 1 \/ j = 2
    OBVIOUS
  <2> QED BY <2>1 DEF Said, PairOf
<1>2. <<"client hello", "server hello">> = PairOf("client hello", "server hello")
  BY PairFunction
<1>3. "client hello" \in AllSpoken /\ "server hello" \in AllSpoken
  BY DEF AllSpoken
<1>4. Append(Hellos, "server hello") = <<"client hello", "server hello">>
  BY <1>3, PairIs DEF Hellos
<1>5. Hellos \o <<"server hello">> = <<"client hello", "server hello">>
  BY <1>3, PairIs DEF Hellos
<1> QED
  BY <1>1, <1>2, <1>4, <1>5

(* One message more.                                                       *)
LEMMA SaidNext ==
  ASSUME NEW k \in Nat, k < Len(Flight)
  PROVE  Append(Said(k), Flight[k + 1]) = Said(k + 1)
<1>1. k \in 0 .. Len(Flight) /\ k + 1 \in 0 .. Len(Flight) /\ k + 1 \in 1 .. Len(Flight)
  BY FlightIs
<1>2. Said(k) \in Seq(AllSpoken) /\ Said(k + 1) \in Seq(AllSpoken) /\ Len(Said(k)) = k + 2 /\ Len(Said(k + 1)) = k + 3
  <2>1. (k + 1) + 2 = k + 3
    OBVIOUS
  <2> QED BY <1>1, <2>1, SaidIs
<1>3. Flight[k + 1] \in AllSpoken
  BY <1>1, FlightIs
<1>4. ASSUME NEW j \in 1 .. k + 3 PROVE Append(Said(k), Flight[k + 1])[j] = Said(k + 1)[j]
  <2>1. CASE j = k + 3
    <3>1. Append(Said(k), Flight[k + 1])[j] = Flight[k + 1]
      BY <1>2, <1>3, <2>1
    <3>2. j # 1 /\ j # 2 /\ j - 2 = k + 1
      BY <2>1
    <3>3. (k + 1) + 2 = k + 3
      OBVIOUS
    <3>4. Said(k + 1)[j] = IF j = 1 THEN "client hello" ELSE IF j = 2 THEN "server hello" ELSE Flight[j - 2]
      BY <1>1, <3>3, SaidIs
    <3> QED BY <3>1, <3>2, <3>4
  <2>2. CASE j # k + 3
    <3>1. j \in 1 .. k + 2 /\ j \in 1 .. (k + 1) + 2
      BY <2>2
    <3>2. Append(Said(k), Flight[k + 1])[j] = Said(k)[j]
      BY <1>2, <1>3, <3>1
    <3> QED BY <1>1, <3>1, <3>2, SaidIs
  <2> QED BY <2>1, <2>2
<1>5. Append(Said(k), Flight[k + 1]) \in Seq(AllSpoken) /\ Len(Append(Said(k), Flight[k + 1])) = k + 3
  BY <1>2, <1>3
<1> QED
  BY <1>2, <1>4, <1>5, SameSequence

(* What Finished covers: all but itself.                                   *)
LEMMA CoveredIs ==
  Covered = Said(Len(Flight) - 1)
<1>1. 0 \in Nat /\ Len(Flight) - 1 \in Nat /\ 0 <= Len(Flight) - 1 /\ Len(Flight) - 1 <= Len(Flight)
  BY FlightIs
<1>2. Front(Flight) = SubSeq(Flight, 0 + 1, Len(Flight) - 1)
  BY DEF Front
<1>3. Said(0) \o SubSeq(Flight, 0 + 1, Len(Flight) - 1) = Said(Len(Flight) - 1)
  BY <1>1, SaidJoins
<1>4. Covered = (Hellos \o <<"server hello">>) \o Front(Flight)
  BY DEF Covered
<1> QED
  BY <1>2, <1>3, <1>4, HellosAre

(***************************************************************************)
(* The client, field by field                                              *)
(***************************************************************************)
LEMMA ClientFields ==
  ASSUME NEW a, NEW b, NEW c, NEW d, NEW e, NEW f
  PROVE  LET r == ClientIs(a, b, c, d, e, f)
         IN  r.stage = a /\ r.pending = b /\ r.transcript = c /\ r.read = d /\ r.write = e /\ r.received = f /\ r.error = "none"
BY DEF ClientIs

(* A field of the client changes and the others stay.                      *)
LEMMA SetStage ==
  ASSUME NEW a, NEW b, NEW c, NEW d, NEW e, NEW f, NEW x
  PROVE  [ClientIs(a, b, c, d, e, f) EXCEPT !.stage = x] = ClientIs(x, b, c, d, e, f)
BY DEF ClientIs

(* The same of what is pending.                                            *)
LEMMA SetPending ==
  ASSUME NEW a, NEW b, NEW c, NEW d, NEW e, NEW f, NEW x
  PROVE  [ClientIs(a, b, c, d, e, f) EXCEPT !.pending = x] = ClientIs(a, x, c, d, e, f)
BY DEF ClientIs

(* The same of the transcript.                                             *)
LEMMA SetTranscript ==
  ASSUME NEW a, NEW b, NEW c, NEW d, NEW e, NEW f, NEW x
  PROVE  [ClientIs(a, b, c, d, e, f) EXCEPT !.transcript = x] = ClientIs(a, b, x, d, e, f)
BY DEF ClientIs

(* The same of the keys it reads with.                                     *)
LEMMA SetRead ==
  ASSUME NEW a, NEW b, NEW c, NEW d, NEW e, NEW f, NEW x
  PROVE  [ClientIs(a, b, c, d, e, f) EXCEPT !.read = x] = ClientIs(a, b, c, x, e, f)
BY DEF ClientIs

(* The same of what it has received.                                       *)
LEMMA SetReceived ==
  ASSUME NEW a, NEW b, NEW c, NEW d, NEW e, NEW f, NEW x
  PROVE  [ClientIs(a, b, c, d, e, f) EXCEPT !.received = x] = ClientIs(a, b, c, d, e, x)
BY DEF ClientIs

Keyed(c, stage, keys) == [c EXCEPT !.stage = stage, !.read = keys, !.write = keys]

(* It changes its stage and its keys together.                             *)
LEMMA SetKeys ==
  ASSUME NEW a, NEW b, NEW c, NEW d, NEW e, NEW f, NEW x, NEW y
  PROVE  Keyed(ClientIs(a, b, c, d, e, f), x, y) = ClientIs(x, b, c, y, y, f)
<1> DEFINE r == ClientIs(a, b, c, d, e, f)
<1>1. Keyed(r, x, y) = [[[r EXCEPT !.stage = x] EXCEPT !.read = y] EXCEPT !.write = y]
  BY DEF ClientIs, Keyed
<1>2. [r EXCEPT !.stage = x] = ClientIs(x, b, c, d, e, f)
  BY SetStage
<1>3. [ClientIs(x, b, c, d, e, f) EXCEPT !.read = y] = ClientIs(x, b, c, y, e, f)
  BY SetRead
<1>4. [ClientIs(x, b, c, y, e, f) EXCEPT !.write = y] = ClientIs(x, b, c, y, y, f)
  BY DEF ClientIs
<1> HIDE DEF r
<1> QED
  BY <1>1, <1>2, <1>3, <1>4 DEF r

(* The messages of a server that keeps to its script.                      *)
LEMMA HeardHello ==
  ASSUME NEW p, NEW r
  PROVE  Heard(ClientIs("Hello", p, Hellos, NoKeys, NoKeys, r), "server hello")
         = ClientIs("Encrypted", p, Said(0), ShakeKeys(0), ShakeKeys(0), r)
<1> DEFINE c == ClientIs("Hello", p, Hellos, NoKeys, NoKeys, r)
           noted == ClientIs("Hello", p, Said(0), NoKeys, NoKeys, r)
<1>1. c.stage = "Hello" /\ c.transcript = Hellos /\ noted.transcript = Said(0)
  BY ClientFields
<1>2. [c EXCEPT !.transcript = Append(@, "server hello")] = noted
  <2>1. [c EXCEPT !.transcript = Append(Hellos, "server hello")] = noted
    <3>0. ASSUME NEW h, NEW k, NEW s
          PROVE  [ClientIs("Hello", p, h, k, k, r) EXCEPT !.transcript = s] = ClientIs("Hello", p, s, k, k, r)
      BY DEF ClientIs
    <3>1. [c EXCEPT !.transcript = Said(0)] = noted
      BY <3>0, Zenon
    <3> HIDE DEF c, noted
    <3> QED BY <3>1, HellosAre
  <2> HIDE DEF c, noted
  <2> QED BY <1>1, <2>1
<1>3. Fresh(noted, "handshake") = ShakeKeys(0)
  BY <1>1 DEF Fresh, KeysOf, ShakeKeys
<1>4. Keyed(noted, "Encrypted", ShakeKeys(0)) = ClientIs("Encrypted", p, Said(0), ShakeKeys(0), ShakeKeys(0), r)
  BY SetKeys
<1> HIDE DEF c, noted
<1>5. Heard(c, "server hello") = Keyed(noted, "Encrypted", Fresh(noted, "handshake"))
  BY <1>1, <1>2, Zenon DEF Heard, Keyed
<1> QED
  BY <1>3, <1>4, <1>5 DEF c

(* A message of the flight before Finished.                                *)
LEMMA HeardFlight ==
  ASSUME NEW p, NEW k \in Nat, NEW j, NEW r, NEW w, NEW g, j = k + 1, j < Len(Flight)
  PROVE  Heard(ClientIs("Encrypted", p, Said(k), r, w, g), Flight[j]) = ClientIs("Encrypted", p, Said(j), r, w, g)
<1> DEFINE c == ClientIs("Encrypted", p, Said(k), r, w, g)
           noted == ClientIs("Encrypted", p, Said(k + 1), r, w, g)
           m == Flight[k + 1]
<1>1. c.stage = "Encrypted" /\ c.transcript = Said(k)
  BY ClientFields
<1>2. m \in {"extensions", "certificate", "verify"}
  BY FlightIs
<1>3. [c EXCEPT !.transcript = Append(@, m)] = noted
  <2>1. Append(Said(k), m) = Said(k + 1)
    BY FlightIs, SaidNext
  <2>2. [c EXCEPT !.transcript = Append(Said(k), m)] = noted
    BY <2>1, SetTranscript
  <2> HIDE DEF c, noted, m
  <2> QED BY <1>1, <2>2
<1> HIDE DEF c, noted, m
<1>4. Heard(c, m) = noted
  BY <1>1, <1>2, <1>3, Zenon DEF Heard, Keyed
<1> QED
  BY <1>4 DEF c, noted, m

(* Finished, which covers all that was said.                               *)
LEMMA HeardFinished ==
  ASSUME NEW p, NEW r, NEW w, NEW g
  PROVE  Heard(ClientIs("Encrypted", p, Said(Len(Flight) - 1), r, w, g), Flight[Len(Flight)])
         = ClientIs("Connected", p, Said(Len(Flight)), TalkKeys(0), TalkKeys(0), g)
<1> DEFINE k == Len(Flight) - 1
           c == ClientIs("Encrypted", p, Said(k), r, w, g)
           noted == ClientIs("Encrypted", p, Said(Len(Flight)), r, w, g)
<1>1. c.stage = "Encrypted" /\ c.transcript = Said(k) /\ noted.transcript = Said(Len(Flight))
  BY ClientFields
<1>2. Flight[Len(Flight)] = "finished"
  BY FlightIs
<1>3. [c EXCEPT !.transcript = Append(@, "finished")] = noted
  <2>1. Append(Said(k), "finished") = Said(Len(Flight))
    <3>1. k \in Nat /\ k < Len(Flight) /\ k + 1 = Len(Flight)
      BY FlightIs
    <3> HIDE DEF k
    <3> QED BY <1>2, <3>1, SaidNext
  <2>2. [c EXCEPT !.transcript = Append(Said(k), "finished")] = noted
    BY <2>1, SetTranscript
  <2> HIDE DEF c, noted, k
  <2> QED BY <1>1, <2>2
<1>4. Fresh(noted, "application") = TalkKeys(0)
  BY <1>1 DEF Fresh, KeysOf, TalkKeys
<1>5. Keyed(noted, "Connected", TalkKeys(0)) = ClientIs("Connected", p, Said(Len(Flight)), TalkKeys(0), TalkKeys(0), g)
  BY SetKeys
<1>6. Covered = Said(k)
  BY CoveredIs
<1> HIDE DEF c, noted, k
<1>7. Heard(c, "finished") = Keyed(noted, "Connected", Fresh(noted, "application"))
  <2>1. "Encrypted" # "Hello" /\ "finished" \notin {"extensions", "certificate", "verify"}
    OBVIOUS
  <2> QED BY <1>1, <1>3, <1>6, <2>1, Zenon DEF Heard, Keyed
<1> QED
  BY <1>2, <1>4, <1>5, <1>7 DEF c, k

(* A message to a client that is connected changes nothing.                *)
LEMMA HeardConnected ==
  ASSUME NEW p, NEW q, NEW r, NEW w, NEW g, NEW m
  PROVE  Heard(ClientIs("Connected", p, q, r, w, g), m) = ClientIs("Connected", p, q, r, w, g)
<1> DEFINE c == ClientIs("Connected", p, q, r, w, g)
<1>1. c.stage = "Connected" /\ "Connected" # "Hello" /\ "Connected" # "Encrypted"
  BY ClientFields
<1> HIDE DEF c
<1>2. Heard(c, m) = c
  BY <1>1, Zenon DEF Heard, Keyed
<1> QED
  BY <1>2 DEF c

(***************************************************************************)
(* A record more on both sides                                             *)
(***************************************************************************)

(* Where half a message is.                                                *)
LEMMA PartIs ==
  /\ \A q : Part(q, 0) = <<>>
  /\ \A q, a, e : a \in Nat /\ e \in 0 .. 1 => Part(q, 2 * a + e) = SubSeq(Halves(q), 2 * a + 1, 2 * a + e)
<1>1. ASSUME NEW q, NEW a \in Nat, NEW e \in 0 .. 1 PROVE Part(q, 2 * a + e) = SubSeq(Halves(q), 2 * a + 1, 2 * a + e)
  <2>1. (2 * a + e) \div 2 = a
    BY HalfOf
  <2> QED BY <2>1 DEF Part
<1>2. ASSUME NEW q PROVE Part(q, 0) = <<>>
  <2>1. 0 \div 2 = 0 /\ 2 * 0 + 1 = 1
    OBVIOUS
  <2>2. SubSeq(Halves(q), 1, 0) = <<>>
    BY SubSeqEmpty
  <2> QED BY <2>1, <2>2 DEF Part
<1> QED
  BY <1>1, <1>2

(* A record, field by field.                                               *)
LEMMA RecordFields ==
  ASSUME NEW a, NEW b, NEW c, NEW d
  PROVE  LET r == Record(a, b, c, d) IN r.kind = a /\ r.keys = b /\ r.inner = c /\ r.body = d
BY DEF Record

(* A record in the clear; then those sealed with the keys the client reads *)
(* with.                                                                   *)
LEMMA TookClear ==
  ASSUME NEW c, NEW b, c.stage = "Hello", c.error = "none"
  PROVE  Took(c, Record("handshake", NoKeys, "none", b)) = Messages(c, b)
<1> DEFINE r == Record("handshake", NoKeys, "none", b)
<1>1. r.kind = "handshake" /\ r.body = b
  BY RecordFields
<1> HIDE DEF r
<1> QED
  BY <1>1, Zenon DEF Took, r

(* A change of cipher is passed over.                                      *)
LEMMA TookCipher ==
  ASSUME NEW c, NEW b, NEW k, NEW i
  PROVE  Took(c, Record("change cipher", k, i, b)) = c
<1> DEFINE kind == "change cipher"
           r == Record(kind, k, i, b)
<1> HIDE DEF kind
<1>1. r.kind = kind
  BY RecordFields
<1> HIDE DEF r
<1> QED
  BY <1>1, Zenon DEF Took, r, kind

Opened(c) == [c EXCEPT !.read = Next1(@)]

(* Messages under the keys the client reads with.                          *)
LEMMA TookSealed ==
  ASSUME NEW c, NEW b, c.stage # "Closed", c.error = "none", c.read # NoKeys
  PROVE  Took(c, Record("data", c.read, "handshake", b)) = Messages(Opened(c), b)
<1> DEFINE r == Record("data", c.read, "handshake", b)
<1>1. r.kind = "data" /\ r.keys = c.read /\ r.inner = "handshake" /\ r.body = b
  BY RecordFields
<1>2. "data" # "change cipher" /\ "data" # "handshake"
  OBVIOUS
<1> HIDE DEF r
<1>3. Took(c, r) = Messages(Opened(c), b)
  BY <1>1, <1>2, Zenon DEF Took, Opened
<1> QED
  BY <1>3 DEF r

(* An alert under those keys.                                              *)
LEMMA TookAlert ==
  ASSUME NEW c, NEW b, c.stage # "Closed", c.error = "none", c.read # NoKeys
  PROVE  Took(c, Record("data", c.read, "alert", b)) = [Opened(c) EXCEPT !.stage = "Closed"]
<1> DEFINE r == Record("data", c.read, "alert", b)
<1>1. r.kind = "data" /\ r.keys = c.read /\ r.inner = "alert" /\ r.body = b
  BY RecordFields
<1>2. "data" # "change cipher" /\ "data" # "handshake" /\ "alert" # "handshake"
  OBVIOUS
<1> HIDE DEF r
<1>3. Took(c, r) = [Opened(c) EXCEPT !.stage = "Closed"]
  BY <1>1, <1>2, Zenon DEF Took, Opened
<1> QED
  BY <1>3 DEF r

(* Data under those keys.                                                  *)
LEMMA TookText ==
  ASSUME NEW c, NEW b, c.stage = "Connected", c.error = "none", c.read # NoKeys
  PROVE  Took(c, Record("data", c.read, "data", b)) = [Opened(c) EXCEPT !.received = @ \o b]
<1> DEFINE r == Record("data", c.read, "data", b)
<1>1. r.kind = "data" /\ r.keys = c.read /\ r.inner = "data" /\ r.body = b
  BY RecordFields
<1>2. "data" # "change cipher" /\ "data" # "handshake" /\ "data" # "alert" /\ "Connected" # "Closed"
  OBVIOUS
<1> HIDE DEF r
<1>3. Took(c, r) = [Opened(c) EXCEPT !.received = @ \o b]
  BY <1>1, <1>2, Zenon DEF Took, Opened
<1> QED
  BY <1>3 DEF r

(* Keys are used, and none of them are the keys there were at first.       *)
LEMMA KeysMove ==
  ASSUME NEW n
  PROVE  /\ Next1(ShakeKeys(n)) = ShakeKeys(n + 1) /\ Next1(TalkKeys(n)) = TalkKeys(n + 1)
         /\ ShakeKeys(n) # NoKeys /\ TalkKeys(n) # NoKeys
<1>1. Next1(ShakeKeys(n)) = ShakeKeys(n + 1) /\ Next1(TalkKeys(n)) = TalkKeys(n + 1)
  BY DEF Next1, ShakeKeys, TalkKeys
<1>2. ShakeKeys(n).epoch = "handshake" /\ TalkKeys(n).epoch = "application" /\ NoKeys.epoch = "none"
  BY DEF ShakeKeys, TalkKeys, NoKeys
<1>3. "handshake" # "none" /\ "application" # "none"
  OBVIOUS
<1> QED
  BY <1>1, <1>2, <1>3

(* Two clients, one after the other.                                       *)
LEMMA TwoOf ==
  ASSUME NEW x, NEW y
  PROVE  LET f == [k \in 0 .. 1 |-> IF k = 0 THEN x ELSE y] IN f[0] = x /\ f[1] = y
OBVIOUS

(* The hello, in one record or in two.                                     *)
LEMMA TookHello ==
  ASSUME NEW at \in 0 .. 1, NEW n \in 1 .. 2 - at
  PROVE  Took(Greeted(at), Record("handshake", NoKeys, "none", SubSeq(Halves(<<"server hello">>), at + 1, at + n)))
         = IF at + n = 2 THEN Shaken(0, 0) ELSE Greeted(at + n)
<1> DEFINE q == <<"server hello">>
           t == at + n
           c == Greeted(at)
           x == ClientIs("Hello", Part(q, t), Hellos, NoKeys, NoKeys, <<>>)
           y == ClientIs("Encrypted", Part(q, t), Said(0), ShakeKeys(0), ShakeKeys(0), <<>>)
           D == [k \in 0 .. 1 |-> IF k = 0 THEN x ELSE y]
           b == SubSeq(Halves(q), at + 1, t)
<1>0. c = ClientIs("Hello", Part(q, at), Hellos, NoKeys, NoKeys, <<>>)
  BY DEF Greeted
<1>1. t \in 1 .. 2 /\ at \in Nat /\ 2 * 0 + at = at /\ at <= t /\ t <= 2 * 1 /\ 2 * 0 + at + 1 = at + 1
  OBVIOUS
<1>2. t \div 2 = (IF t = 2 THEN 1 ELSE 0)
  BY <1>1
<1>3. c.stage = "Hello" /\ c.error = "none" /\ c.pending = Part(q, at)
  <2> HIDE DEF q, c
  <2> QED BY <1>0, ClientFields
<1>4. q \in Seq(AllSpoken) /\ Len(q) = 1 /\ q[1] = "server hello"
  BY DEF AllSpoken
<1>5. D[0] = x /\ D[1] = y
  BY TwoOf
<1>6. [c EXCEPT !.pending = Part(q, t)] = x
  <2> HIDE DEF q, c
  <2> QED BY <1>0, SetPending
<1>7. Heard(x, "server hello") = y
  BY HeardHello
<1>8. Part(q, at) = SubSeq(Halves(q), 2 * 0 + 1, 2 * 0 + at)
  BY <1>1, PartIs
<1>9. Part(q, t) = SubSeq(Halves(q), 2 * (t \div 2) + 1, t)
  BY DEF Part
<1>10. x.error = "none"
  <2> HIDE DEF q, c
  <2> QED BY <1>0, ClientFields
<1>11. t = 2 => y = Shaken(0, 0)
  <2>1. t = 2 => Part(q, t) = <<>>
    <3>1. t = 2 => 2 * (t \div 2) + 1 = 3 /\ t < 3
      BY <1>2
    <3>2. SubSeq(Halves(q), 3, 2) = <<>>
      BY SubSeqEmpty
    <3> QED BY <1>9, <3>1, <3>2
  <2>2. Part(Flight, 0) = <<>> /\ 0 \div 2 = 0
    BY PartIs
  <2> QED BY <2>1, <2>2 DEF Shaken
<1>12. x = Greeted(t)
  BY DEF Greeted
<1>13. Took(c, Record("handshake", NoKeys, "none", b)) = Messages(c, b)
  BY <1>3, TookClear
<1> HIDE DEF D, x, y, c, q
<1>14. Hears(c, D, q, 0, at, t)
  <2>1. \A k \in 1 .. (t \div 2) - 0 : k = 1 /\ k - 1 = 0 /\ 0 + k = 1
    BY <1>2
  <2> HIDE DEF t
  <2>2. D[0] = [c EXCEPT !.pending = SubSeq(Halves(q), 2 * (t \div 2) + 1, t)]
    BY <1>5, <1>6, <1>9
  <2>3. \A k \in 1 .. (t \div 2) - 0 : D[k] = IF D[k - 1].error = "none" THEN Heard(D[k - 1], q[0 + k]) ELSE D[k - 1]
    BY <1>4, <1>5, <1>7, <1>10, <2>1
  <2> QED BY <1>3, <1>8, <2>2, <2>3 DEF Hears
<1>15. Messages(c, b) = D[(t \div 2) - 0]
  <2>1. t \in Nat /\ 0 \in Nat
    BY <1>1
  <2>2. 2 * 0 + at <= t
    BY <1>1
  <2>3. t <= 2 * Len(q)
    <3>1. Len(q) = 1
      BY <1>4
    <3> QED BY <1>1, <3>1
  <2>4. q \in Seq(AllSpoken)
    BY <1>4
  <2>5. Spans(0, at, t, at + 1, (t \div 2) - 0)
    BY <1>1 DEF Spans
  <2> HIDE DEF t
  <2> QED BY <1>14, <2>1, <2>2, <2>3, <2>4, <2>5, MessagesAre
<1>16. Messages(c, b) = IF t = 2 THEN y ELSE x
  BY <1>1, <1>2, <1>5, <1>15
<1> QED
  BY <1>11, <1>12, <1>13, <1>16 DEF c, q

(* Places in the flight, in halves and in messages.                        *)
LEMMA PlacesAre ==
  ASSUME NEW l \in Nat, NEW at \in 0 .. 2 * l - 1, NEW n \in 1 .. 2 * l - at
  PROVE  /\ at \div 2 \in Nat /\ at % 2 \in 0 .. 1 /\ at = 2 * (at \div 2) + (at % 2) /\ at \div 2 < l
         /\ (at + n) \div 2 \in Nat /\ at \div 2 <= (at + n) \div 2 /\ (at + n) \div 2 <= l
         /\ (at + n = 2 * l) <=> ((at + n) \div 2 = l)
<1> DEFINE a == at \div 2
           e == at % 2
           t == at + n
           b == t \div 2
           f == t % 2
<1>1. a \in Nat /\ e \in 0 .. 1 /\ at = 2 * a + e
  BY Halving
<1>2. b \in Nat /\ f \in 0 .. 1 /\ t = 2 * b + f
  <2>1. t \in Nat
    OBVIOUS
  <2> HIDE DEF t
  <2> QED BY <2>1, Halving
<1>3. at <= t /\ t <= 2 * l /\ at <= 2 * l - 1
  OBVIOUS
<1> HIDE DEF a, e, b, f, t
<1>4. a < l /\ a <= b /\ b <= l /\ (t = 2 * l <=> b = l)
  BY <1>1, <1>2, <1>3
<1> QED
  BY <1>1, <1>2, <1>4 DEF a, e, b, t

(* Nothing counted.                                                        *)
LEMMA NothingCounted == [i \in 1 .. 0 |-> i] = <<>>
OBVIOUS

(* The client that is to hear some of the flight, and how it hears it.     *)
Hearing(p, k, m) == ClientIs("Encrypted", p, Said(k), ShakeKeys(m + 1), ShakeKeys(0), <<>>)

(* A sealed record of the flight opens, and its messages are heard.        *)
LEMMA HearingFrom ==
  ASSUME NEW at, NEW m, NEW body
  PROVE  Took(Shaken(at, m), Record("data", ShakeKeys(m), "handshake", body))
         = Messages(Hearing(Part(Flight, at), at \div 2, m), body)
<1> DEFINE s == Shaken(at, m)
           c == Hearing(Part(Flight, at), at \div 2, m)
           k == ShakeKeys(m)
<1>1. s.stage = "Encrypted" /\ s.error = "none" /\ s.read = k
  BY ClientFields DEF Shaken
<1>2. [s EXCEPT !.read = ShakeKeys(m + 1)] = c /\ Opened(s) = [s EXCEPT !.read = Next1(s.read)]
  BY SetRead DEF Shaken, Hearing, Opened
<1>3. Next1(k) = ShakeKeys(m + 1) /\ k # NoKeys
  BY KeysMove
<1> HIDE DEF s, c, k
<1>4. s.stage # "Closed" /\ s.read # NoKeys
  BY <1>1, <1>3
<1>5. Took(s, Record("data", s.read, "handshake", body)) = Messages(Opened(s), body)
  BY <1>1, <1>4, TookSealed
<1> QED
  BY <1>1, <1>2, <1>3, <1>5 DEF s, c, k

(* A message of the flight heard by such a client.                         *)
LEMMA HearingMore ==
  ASSUME NEW p, NEW m, NEW k \in Nat, NEW j, j = k + 1, j < Len(Flight)
  PROVE  Heard(Hearing(p, k, m), Flight[j]) = Hearing(p, j, m)
BY HeardFlight DEF Hearing

(* Some halves of the flight in a record: the client has heard what the    *)
(* server has sent, and is connected when it has heard all of it.          *)
LEMMA TookFlight ==
  ASSUME NEW at \in 0 .. 2 * Len(Flight) - 1, NEW n \in 1 .. 2 * Len(Flight) - at, NEW m \in Nat
  PROVE  Took(Shaken(at, m), Record("data", ShakeKeys(m), "handshake", SubSeq(Halves(Flight), at + 1, at + n)))
         = IF at + n = 2 * Len(Flight) THEN ToldOf(0, 0, FALSE) ELSE Shaken(at + n, m + 1)
<1> DEFINE l == Len(Flight)
           a == at \div 2
           e == at % 2
           t == at + n
           b == t \div 2
           p == Part(Flight, t)
           x(k) == Hearing(p, k, m)
           y == ClientIs("Connected", p, Said(l), TalkKeys(0), TalkKeys(0), <<>>)
           D == [k \in 0 .. b - a |-> IF a + k < l THEN x(a + k) ELSE y]
           c == Hearing(Part(Flight, at), a, m)
           body == SubSeq(Halves(Flight), at + 1, t)
           record == Record("data", ShakeKeys(m), "handshake", body)
<1>1. /\ a \in Nat /\ e \in 0 .. 1 /\ at = 2 * a + e /\ a < l
      /\ b \in Nat /\ a <= b /\ b <= l /\ (t = 2 * l <=> b = l)
  <2>1. Len(Flight) \in Nat
    BY FlightIs
  <2> QED BY <2>1, PlacesAre
<1>2. l \in Nat /\ t \in Nat /\ at <= t /\ t <= 2 * l
  <2>1. Len(Flight) \in Nat
    BY FlightIs
  <2>2. ASSUME NEW u \in Nat, NEW i \in 0 .. 2 * u - 1, NEW j \in 1 .. 2 * u - i PROVE i + j \in Nat /\ i <= i + j /\ i + j <= 2 * u
    OBVIOUS
  <2> QED BY <2>1, <2>2
<1>3. Took(Shaken(at, m), record) = Messages(c, body)
  BY HearingFrom
<1>4. c.pending = Part(Flight, at) /\ [c EXCEPT !.pending = p] = x(a)
  BY ClientFields, SetPending DEF Hearing
<1>5. Part(Flight, at) = SubSeq(Halves(Flight), 2 * a + 1, 2 * a + e)
  <2>1. Part(Flight, 2 * a + e) = SubSeq(Halves(Flight), 2 * a + 1, 2 * a + e)
    <3> HIDE DEF a, e
    <3> QED BY <1>1, PartIs
  <2> QED BY <1>1, <2>1
<1>6. p = SubSeq(Halves(Flight), 2 * (t \div 2) + 1, t)
  BY DEF Part
<1>7. ASSUME NEW k \in Nat PROVE x(k).error = "none"
  BY ClientFields DEF Hearing
<1>8. ASSUME NEW k \in Nat, k + 1 < l PROVE Heard(x(k), Flight[k + 1]) = x(k + 1)
  <2>1. k \in Nat /\ k + 1 < Len(Flight)
    BY <1>8
  <2> HIDE DEF p, l
  <2>2. ASSUME NEW j, j = k + 1, j < Len(Flight) PROVE Heard(x(k), Flight[j]) = x(j)
    BY <2>2, HearingMore
  <2> QED BY <2>1, <2>2
<1>9. Heard(x(l - 1), Flight[l]) = y
  BY HeardFinished DEF Hearing
<1>10. t = 2 * l => y = ToldOf(0, 0, FALSE)
  <2>1. t = 2 * l => p = <<>>
    <3>1. t = 2 * l => t < 2 * (t \div 2) + 1 /\ 2 * (t \div 2) + 1 \in Int
      BY <1>1, <1>2
    <3> QED BY <1>2, <1>6, <3>1, SubSeqEmpty
  <2> QED BY <2>1, NothingCounted DEF ToldOf
<1>11. t # 2 * l => x(b) = Shaken(t, m + 1)
  BY DEF Shaken, Hearing
<1> HIDE DEF x, y, c, p, a, e, b, t
<1>12. ASSUME NEW k \in 1 .. b - a
       PROVE  D[k] = IF D[k - 1].error = "none" THEN Heard(D[k - 1], Flight[a + k]) ELSE D[k - 1]
  <2>1. k - 1 \in 0 .. b - a /\ k \in 0 .. b - a /\ a + (k - 1) < l /\ a + (k - 1) \in Nat
    <3> HIDE DEF l
    <3> QED BY <1>1, <1>2
  <2>2. D[k - 1] = x(a + (k - 1))
    BY <2>1
  <2>3. D[k - 1].error = "none"
    BY <1>7, <2>1, <2>2
  <2>4. CASE a + k < l
    <3>1. D[k] = x(a + k)
      BY <2>1, <2>4
    <3>2. (a + (k - 1)) + 1 = a + k
      BY <1>1
    <3> DEFINE j == a + (k - 1)
    <3> HIDE DEF D, l, j
    <3>3. Heard(x(j), Flight[j + 1]) = x(j + 1)
      BY <1>8, <2>1, <2>4, <3>2 DEF j
    <3> QED BY <2>2, <2>3, <3>1, <3>2, <3>3 DEF j
  <2>5. CASE ~(a + k < l)
    <3>1. D[k] = y
      BY <2>1, <2>5
    <3>2. a + k = l /\ a + (k - 1) = l - 1
      <4> HIDE DEF l
      <4> QED BY <1>1, <1>2, <2>1, <2>5
    <3> HIDE DEF D, l
    <3> QED BY <1>9, <2>2, <2>3, <3>1, <3>2
  <2> HIDE DEF D, l
  <2> QED BY <2>4, <2>5
<1>13. D[0] = x(a) /\ D[b - a] = IF b < l THEN x(b) ELSE y
  <2>1. 0 \in 0 .. b - a /\ b - a \in 0 .. b - a /\ a + 0 = a /\ a + (b - a) = b
    BY <1>1
  <2> QED BY <1>1, <2>1
<1>14. b < l <=> t # 2 * l
  <2> HIDE DEF l
  <2> QED BY <1>1, <1>2
<1> HIDE DEF D
<1>15. Hears(c, D, Flight, a, e, t)
  <2>1. c.pending = SubSeq(Halves(Flight), 2 * a + 1, 2 * a + e)
    BY <1>4, <1>5
  <2>2. D[0] = [c EXCEPT !.pending = SubSeq(Halves(Flight), 2 * (t \div 2) + 1, t)]
    BY <1>4, <1>6, <1>13
  <2>3. \A k \in 1 .. (t \div 2) - a : D[k] = IF D[k - 1].error = "none" THEN Heard(D[k - 1], Flight[a + k]) ELSE D[k - 1]
    BY <1>12 DEF b
  <2> QED BY <2>1, <2>2, <2>3 DEF Hears
<1>16. Messages(c, body) = D[b - a]
  <2>1. Flight \in Seq(Spoken)
    BY FlightIs
  <2>2. 2 * a + e <= t /\ t <= 2 * Len(Flight)
    <3>1. 2 * a + e <= t
      BY <1>1, <1>2
    <3>2. t <= 2 * Len(Flight)
      BY <1>2
    <3> QED BY <3>1, <3>2
  <2>3. a \in Nat /\ e \in 0 .. 1 /\ t \in Nat
    BY <1>1, <1>2
  <2>4. Spans(a, e, t, at + 1, b - a)
    BY <1>1 DEF Spans, b
  <2> HIDE DEF l
  <2> QED BY <1>15, <2>1, <2>2, <2>3, <2>4, MessagesAre
<1>17. Messages(c, body) = IF t = 2 * l THEN y ELSE x(b)
  <2> HIDE DEF l, body
  <2> QED BY <1>13, <1>14, <1>16
<1> QED
  BY <1>3, <1>10, <1>11, <1>17 DEF t

(* A connected client that opens a record.                                 *)
LEMMA ToldOpens ==
  ASSUME NEW n, NEW d
  PROVE  LET c == ToldOf(n, d, FALSE)
         IN  /\ c.stage = "Connected" /\ c.error = "none" /\ c.read = TalkKeys(n)
             /\ Opened(c) = ToldOf(n + 1, d, FALSE)
<1> DEFINE s == IF FALSE THEN "Closed" ELSE "Connected"
           c == ClientIs(s, <<>>, Said(Len(Flight)), TalkKeys(n), TalkKeys(0), [i \in 1 .. d |-> i])
<1>1. ToldOf(n, d, FALSE) = c /\ s = "Connected"
  BY DEF ToldOf
<1>2. c.stage = s /\ c.error = "none" /\ c.read = TalkKeys(n)
  BY ClientFields
<1>3. [c EXCEPT !.read = TalkKeys(n + 1)] = ToldOf(n + 1, d, FALSE)
  BY SetRead DEF ToldOf
<1>4. Next1(TalkKeys(n)) = TalkKeys(n + 1)
  BY KeysMove
<1> HIDE DEF c, s
<1>5. Opened(c) = ToldOf(n + 1, d, FALSE)
  BY <1>2, <1>3, <1>4 DEF Opened
<1> QED
  BY <1>1, <1>2, <1>5

(* A close alert, then data.                                               *)
LEMMA TookClose ==
  ASSUME NEW n, NEW d
  PROVE  Took(ToldOf(n, d, FALSE), Record("data", TalkKeys(n), "alert", <<>>)) = ToldOf(n + 1, d, TRUE)
<1> DEFINE c == ToldOf(n, d, FALSE)
           o == ToldOf(n + 1, d, FALSE)
           b == <<>>
<1>1. c.stage = "Connected" /\ c.error = "none" /\ c.read = TalkKeys(n) /\ Opened(c) = o
  BY ToldOpens
<1>2. c.stage # "Closed" /\ c.read # NoKeys
  BY <1>1, KeysMove
<1>3. [o EXCEPT !.stage = "Closed"] = ToldOf(n + 1, d, TRUE)
  BY SetStage DEF ToldOf
<1> HIDE DEF c, o, b
<1>4. Took(c, Record("data", c.read, "alert", b)) = [o EXCEPT !.stage = "Closed"]
  BY <1>1, <1>2, TookAlert
<1> QED
  BY <1>1, <1>3, <1>4 DEF c, b

(* What has been received, and the next.                                   *)
LEMMA CountedOn ==
  ASSUME NEW d \in Nat
  PROVE  [i \in 1 .. d |-> i] \o <<d + 1>> = [i \in 1 .. d + 1 |-> i]
<1> DEFINE l == [i \in 1 .. d |-> i]
           r == <<d + 1>>
           x == [i \in 1 .. d + 1 |-> i]
<1>1. l \in Seq(Nat) /\ Len(l) = d /\ \A i \in 1 .. d : l[i] = i
  OBVIOUS
<1>2. r \in Seq(Nat) /\ Len(r) = 1 /\ r[1] = d + 1
  OBVIOUS
<1>3. x \in Seq(Nat) /\ Len(x) = d + 1 /\ \A i \in 1 .. d + 1 : x[i] = i
  OBVIOUS
<1> HIDE DEF l, r, x
<1>4. /\ l \o r \in Seq(Nat) /\ Len(l \o r) = Len(l) + Len(r)
      /\ \A i \in 1 .. Len(l) + Len(r) : (l \o r)[i] = IF i <= Len(l) THEN l[i] ELSE r[i - Len(l)]
  BY <1>1, <1>2, ConcatProperties
<1>5. ASSUME NEW i \in 1 .. d + 1 PROVE (l \o r)[i] = i
  <2>1. CASE i <= d
    <3>1. i \in 1 .. d
      BY <2>1
    <3> QED BY <1>1, <1>2, <1>4, <2>1, <3>1
  <2>2. CASE ~(i <= d)
    <3>1. i = d + 1 /\ i - d = 1
      BY <2>2
    <3> QED BY <1>1, <1>2, <1>4, <2>2, <3>1
  <2> QED BY <2>1, <2>2
<1>6. l \o r = x
  <2> DEFINE y == l \o r
  <2>1. y \in Seq(Nat) /\ Len(y) = d + 1 /\ \A i \in 1 .. d + 1 : y[i] = x[i]
    BY <1>1, <1>2, <1>3, <1>4, <1>5
  <2> HIDE DEF y
  <2> QED BY <1>3, <2>1, SameSequence DEF y
<1> QED
  BY <1>6 DEF l, r, x

(* A record of data.                                                       *)
LEMMA TookData ==
  ASSUME NEW n, NEW d \in Nat
  PROVE  Took(ToldOf(n, d, FALSE), Record("data", TalkKeys(n), "data", <<d + 1>>)) = ToldOf(n + 1, d + 1, FALSE)
<1> DEFINE c == ToldOf(n, d, FALSE)
           o == ToldOf(n + 1, d, FALSE)
           b == <<d + 1>>
           g == [i \in 1 .. d |-> i]
           h == [i \in 1 .. d + 1 |-> i]
<1>1. c.stage = "Connected" /\ c.error = "none" /\ c.read = TalkKeys(n) /\ Opened(c) = o
  BY ToldOpens
<1>2. c.read # NoKeys
  BY <1>1, KeysMove
<1>3. g \o b = h
  BY CountedOn
<1>4. o.received = g
  BY ClientFields DEF ToldOf
<1>5. [o EXCEPT !.received = h] = ToldOf(n + 1, d + 1, FALSE)
  BY SetReceived DEF ToldOf
<1> HIDE DEF c, o, b, g, h
<1>6. Took(c, Record("data", c.read, "data", b)) = [o EXCEPT !.received = @ \o b]
  BY <1>1, <1>2, TookText
<1>7. [o EXCEPT !.received = @ \o b] = [o EXCEPT !.received = h]
  BY <1>3, <1>4
<1> QED
  BY <1>1, <1>5, <1>6, <1>7 DEF c, b

(* A message to a connected client, as a ticket is.                        *)
LEMMA TookTicket ==
  ASSUME NEW n, NEW d, NEW msg
  PROVE  Took(ToldOf(n, d, FALSE), Record("data", TalkKeys(n), "handshake", Halves(<<msg>>))) = ToldOf(n + 1, d, FALSE)
<1> DEFINE c == ToldOf(n, d, FALSE)
           o == ToldOf(n + 1, d, FALSE)
           q == <<msg>>
           h == Halves(q)
           D == [k \in 0 .. 1 |-> o]
<1>1. c.stage = "Connected" /\ c.error = "none" /\ c.read = TalkKeys(n) /\ Opened(c) = o
  BY ToldOpens
<1>2. c.stage # "Closed" /\ c.read # NoKeys
  BY <1>1, KeysMove
<1>3. q \in Seq({msg}) /\ Len(q) = 1 /\ q[1] = msg
  OBVIOUS
<1>4. h \in Seq({msg} \X (1 .. 2)) /\ Len(h) = 2
  <2> HIDE DEF q
  <2>1. h \in Seq({msg} \X (1 .. 2)) /\ Len(h) = 2 * Len(q)
    BY <1>3, HalvesAre
  <2> QED BY <1>3, <2>1
<1>5. SubSeq(h, 1, 2) = h
  <2> HIDE DEF h
  <2> QED BY <1>4
<1>6. SubSeq(h, 1, 0) = <<>> /\ SubSeq(h, 3, 2) = <<>>
  BY SubSeqEmpty
<1>7. o.error = "none" /\ o.pending = <<>> /\ [o EXCEPT !.pending = <<>>] = o
  <2>1. o.error = "none"
    BY ClientFields DEF ToldOf
  <2>2. o.pending = <<>>
    BY ClientFields DEF ToldOf
  <2>3. [o EXCEPT !.pending = <<>>] = o
    BY SetPending DEF ToldOf
  <2> QED BY <2>1, <2>2, <2>3
<1>8. Heard(o, msg) = o
  BY HeardConnected DEF ToldOf
<1>9. D[0] = o /\ D[1] = o
  OBVIOUS
<1> HIDE DEF c, o, q, D
<1>10. Took(c, Record("data", c.read, "handshake", h)) = Messages(o, h)
  BY <1>1, <1>2, TookSealed
<1>11. Hears(o, D, q, 0, 0, 2)
  <2>1. 2 * 0 + 1 = 1 /\ 2 * 0 + 0 = 0 /\ 2 \div 2 = 1 /\ 2 * 1 + 1 = 3 /\ \A k \in 1 .. 1 - 0 : k = 1 /\ k - 1 = 0 /\ 0 + k = 1
    OBVIOUS
  <2>2. o.pending = SubSeq(Halves(q), 2 * 0 + 1, 2 * 0 + 0)
    BY <1>6, <1>7, <2>1
  <2>3. D[0] = [o EXCEPT !.pending = SubSeq(Halves(q), 2 * (2 \div 2) + 1, 2)]
    BY <1>6, <1>7, <1>9, <2>1
  <2>4. \A k \in 1 .. (2 \div 2) - 0 : D[k] = IF D[k - 1].error = "none" THEN Heard(D[k - 1], q[0 + k]) ELSE D[k - 1]
    BY <1>3, <1>7, <1>8, <1>9, <2>1
  <2> QED BY <2>2, <2>3, <2>4 DEF Hears
<1>12. Spans(0, 0, 2, 1, 1)
  BY DEF Spans
<1>13. Messages(o, SubSeq(Halves(q), 1, 2)) = D[1]
  <2>1. 0 \in Nat /\ 0 \in 0 .. 1 /\ 2 \in Nat /\ 2 * 0 + 0 <= 2
    OBVIOUS
  <2>2. 2 <= 2 * Len(q)
    BY <1>3
  <2>3. q \in Seq({msg})
    BY <1>3
  <2> QED BY <1>11, <1>12, <2>1, <2>2, <2>3, MessagesAre
<1> QED
  BY <1>1, <1>5, <1>9, <1>10, <1>13 DEF c, q, o

(* The server, field by field.                                             *)
Moved(s, script, at, transcript, keys) ==
    [s EXCEPT !.script = script, !.at = at, !.transcript = transcript, !.keys = keys]

(* Its script, its place, its transcript and its keys change together.     *)
LEMMA ServerMoves ==
  ASSUME NEW a, NEW b, NEW c, NEW d, NEW e, NEW f, NEW w, NEW x, NEW y, NEW z
  PROVE  Moved(ServerIs(a, b, c, d, e, f), w, x, y, z) = ServerIs(w, x, y, z, e, f)
<1> DEFINE s == ServerIs(a, b, c, d, e, f)
<1>1. Moved(s, w, x, y, z) = [[[[s EXCEPT !.script = w] EXCEPT !.at = x] EXCEPT !.transcript = y] EXCEPT !.keys = z]
  BY DEF ServerIs, Moved
<1>2. [s EXCEPT !.script = w] = ServerIs(w, b, c, d, e, f)
  BY DEF ServerIs
<1>3. [ServerIs(w, b, c, d, e, f) EXCEPT !.at = x] = ServerIs(w, x, c, d, e, f)
  BY DEF ServerIs
<1>4. [ServerIs(w, x, c, d, e, f) EXCEPT !.transcript = y] = ServerIs(w, x, y, d, e, f)
  BY DEF ServerIs
<1>5. [ServerIs(w, x, y, d, e, f) EXCEPT !.keys = z] = ServerIs(w, x, y, z, e, f)
  BY DEF ServerIs
<1> HIDE DEF s
<1> QED
  BY <1>1, <1>2, <1>3, <1>4, <1>5 DEF s

(* The server in each part of the conversation.                            *)
LEMMA ServersAre ==
  /\ \A at : LET s == Greeting(at)
             IN  /\ s.script = <<"server hello">> /\ s.at = at /\ s.transcript = Hellos /\ s.keys = NoKeys
                 /\ s.data = 0 /\ s.closed = FALSE
  /\ \A at, n : LET s == Shaking(at, n)
                IN  /\ s.script = Flight /\ s.at = at /\ s.transcript = Said(at \div 2) /\ s.keys = ShakeKeys(n)
                    /\ s.data = 0 /\ s.closed = FALSE
  /\ \A n, d, b : LET s == Talking(n, d, b)
                  IN  /\ s.script = <<>> /\ s.at = 0 /\ s.transcript = Said(Len(Flight)) /\ s.keys = TalkKeys(n)
                      /\ s.data = d /\ s.closed = b
BY DEF Greeting, Shaking, Talking, ServerIs, No

(* From its greeting to its flight, and from its flight to what follows.   *)
LEMMA ServersMove ==
  /\ \A at : Moved(Greeting(at), Flight, 0, Said(0), ShakeKeys(0)) = Shaking(0, 0)
  /\ \A at, t : Moved(Greeting(at), <<"server hello">>, t, Hellos, NoKeys) = Greeting(t)
  /\ \A at, n : Moved(Shaking(at, n), <<>>, 0, Said(Len(Flight)), TalkKeys(0)) = Talking(0, 0, No)
<1>1. 0 \div 2 = 0
  OBVIOUS
<1>2. \A at : Moved(Greeting(at), Flight, 0, Said(0), ShakeKeys(0)) = Shaking(0, 0)
  <2>1. \A at : Moved(Greeting(at), Flight, 0, Said(0), ShakeKeys(0)) = ServerIs(Flight, 0, Said(0), ShakeKeys(0), 0, No)
    <3> DEFINE q == <<"server hello">>
    <3> HIDE DEF q
    <3>1. \A at : Moved(ServerIs(q, at, Hellos, NoKeys, 0, No), Flight, 0, Said(0), ShakeKeys(0))
                  = ServerIs(Flight, 0, Said(0), ShakeKeys(0), 0, No)
      BY ServerMoves
    <3> QED BY <3>1 DEF Greeting, q
  <2> QED BY <1>1, <2>1, Zenon DEF Shaking
<1>3. \A at, t : Moved(Greeting(at), <<"server hello">>, t, Hellos, NoKeys) = Greeting(t)
  <2> DEFINE q == <<"server hello">>
  <2> HIDE DEF q
  <2>1. \A at, t : Moved(ServerIs(q, at, Hellos, NoKeys, 0, No), q, t, Hellos, NoKeys) = ServerIs(q, t, Hellos, NoKeys, 0, No)
    BY ServerMoves
  <2> QED BY <2>1 DEF Greeting, q
<1>4. \A at, n : Moved(Shaking(at, n), <<>>, 0, Said(Len(Flight)), TalkKeys(0)) = Talking(0, 0, No)
  BY ServerMoves DEF Shaking, Talking
<1> QED
  BY <1>2, <1>3, <1>4

(* Within its flight.                                                      *)
LEMMA ShakingMoves ==
  ASSUME NEW at, NEW n, NEW t, NEW m
  PROVE  Moved(Shaking(at, n), Flight, t, Said(t \div 2), ShakeKeys(m)) = Shaking(t, m)
BY ServerMoves DEF Shaking

\* The server has put a record, and a client in step with it that takes the
\* record is in step with it again.
Speaks(c) == \E r : Puts(r) /\ Synced(Took(c, r), server')

(* Some halves more of the hello: a client that has had the others is in   *)
(* step again.                                                             *)
LEMMA GreetsOn ==
  ASSUME NEW at \in 0 .. 1, server = Greeting(at), NEW n, ServerHandshake(n)
  PROVE  Speaks(Greeted(at))
<1> DEFINE q == <<"server hello">>
           r == Record("handshake", NoKeys, "none", Carried(n))
<1>1. server.script = q /\ server.at = at /\ server.transcript = Hellos /\ server.keys = NoKeys
  BY ServersAre
<1>2. Clear
  <2>1. NoKeys.epoch = "none"
    BY DEF NoKeys
  <2> QED BY <1>1, <2>1 DEF Clear
<1>3. Len(q) = 1 /\ q \in Seq(AllSpoken) /\ q[1] = "server hello"
  BY DEF AllSpoken
<1>4. Left(server) = 2 - at
  <2>1. Len(q) = 1
    BY <1>3
  <2> HIDE DEF q
  <2>2. Left(server) = 2 * Len(q) - at
    BY <1>1 DEF Left
  <2> QED BY <2>1, <2>2
<1>5. n \in 1 .. 2 - at /\ Puts(r)
  BY <1>2, <1>4 DEF ServerHandshake
<1>6. Took(Greeted(at), r) = IF at + n = 2 THEN Shaken(0, 0) ELSE Greeted(at + n)
  <2>1. Carried(n) = SubSeq(Halves(q), at + 1, at + n)
    BY <1>1 DEF Carried
  <2> QED BY <1>5, <2>1, TookHello
<1>7. Completed(n) = SubSeq(q, at \div 2 + 1, (at + n) \div 2)
  BY <1>1 DEF Completed
<1>8. at \div 2 = 0 /\ (at + n) \div 2 = (IF at + n = 2 THEN 1 ELSE 0) /\ (n = 2 - at <=> at + n = 2)
  <2>1. at + n \in 1 .. 2
    BY <1>5
  <2>2. (at + n) \div 2 = (IF at + n = 2 THEN 1 ELSE 0)
    <3> DEFINE t == at + n
    <3> HIDE DEF t
    <3>1. t \in 1 .. 2 => t \div 2 = (IF t = 2 THEN 1 ELSE 0)
      OBVIOUS
    <3> QED BY <2>1, <3>1 DEF t
  <2> QED BY <1>5, <2>2
<1>9. Hellos \o Completed(n) = IF at + n = 2 THEN Said(0) ELSE Hellos
  <2>1. SubSeq(q, 1, 1) = q
    <3>1. SubSeq(q, 1, 1) = <<q[1]>>
      <4>1. 1 \in 1 .. Len(q) /\ q \in Seq(AllSpoken)
        <5>1. Len(q) = 1 /\ q \in Seq(AllSpoken)
          BY <1>3
        <5> HIDE DEF q
        <5> QED BY <5>1
      <4> HIDE DEF q
      <4> QED BY <4>1, OneOfMany, Zenon
    <3> QED BY <1>3, <3>1
  <2>2. SubSeq(q, 1, 0) = <<>> /\ Hellos \o <<>> = Hellos
    <3>1. SubSeq(q, 1, 0) = <<>>
      BY SubSeqEmpty
    <3>2. Hellos \in Seq(AllSpoken)
      BY DEF Hellos, AllSpoken
    <3> QED BY <3>1, <3>2
  <2>3. 0 + 1 = 1
    OBVIOUS
  <2> QED BY <1>7, <1>8, <2>1, <2>2, <2>3, HellosAre
<1>10. server' = Moved(server, IF n = 2 - at THEN Flight ELSE q, IF n = 2 - at THEN 0 ELSE at + n, Hellos \o Completed(n),
                       IF n = 2 - at THEN KeysOf("handshake", Hellos \o Completed(n)) ELSE NoKeys)
  <2> HIDE DEF q
  <2> QED BY <1>1, <1>2, <1>4 DEF ServerHandshake, Moved
<1> HIDE DEF r
<1>11. CASE at + n = 2
  <2>1. KeysOf("handshake", Said(0)) = ShakeKeys(0)
    BY DEF KeysOf, ShakeKeys
  <2>2. server' = Shaking(0, 0)
    BY <1>8, <1>9, <1>10, <1>11, <2>1, ServersMove
  <2>3. Took(Greeted(at), r) = Shaken(0, 0)
    BY <1>6, <1>11
  <2>4. 0 \in 0 .. 2 * Len(Flight) - 1 /\ 0 \in Nat
    BY FlightIs
  <2>5. Synced(Shaken(0, 0), Shaking(0, 0))
    BY <2>4 DEF Synced
  <2> QED BY <1>5, <2>2, <2>3, <2>5 DEF Speaks
<1>12. CASE at + n # 2
  <2>1. server' = Greeting(at + n)
    BY <1>8, <1>9, <1>10, <1>12, ServersMove
  <2>2. Took(Greeted(at), r) = Greeted(at + n)
    BY <1>6, <1>12
  <2>3. at + n \in 0 .. 1
    BY <1>5, <1>12
  <2>4. Synced(Greeted(at + n), Greeting(at + n))
    BY <2>3 DEF Synced
  <2> QED BY <1>5, <2>1, <2>2, <2>4 DEF Speaks
<1> QED
  BY <1>11, <1>12

(* Some halves more of the flight: the same.                               *)
LEMMA ShakesOn ==
  ASSUME NEW at \in 0 .. 2 * Len(Flight) - 1, NEW m \in Nat, server = Shaking(at, m), NEW n, ServerHandshake(n)
  PROVE  Speaks(Shaken(at, m))
<1> DEFINE r == Record("data", ShakeKeys(m), "handshake", Carried(n))
           t == at + n
           done == t = 2 * Len(Flight)
<1>1. server.script = Flight /\ server.at = at /\ server.transcript = Said(at \div 2) /\ server.keys = ShakeKeys(m)
  BY ServersAre
<1>2. ~Clear
  <2>1. ShakeKeys(m).epoch = "handshake" /\ "handshake" # "none"
    BY DEF ShakeKeys
  <2> QED BY <1>1, <2>1 DEF Clear
<1>3. Left(server) = 2 * Len(Flight) - at
  BY <1>1 DEF Left
<1>4. n \in 1 .. 2 * Len(Flight) - at /\ Puts(r)
  BY <1>1, <1>2, <1>3 DEF ServerHandshake
<1>5. Took(Shaken(at, m), r) = IF done THEN ToldOf(0, 0, FALSE) ELSE Shaken(t, m + 1)
  <2>1. Carried(n) = SubSeq(Halves(Flight), at + 1, at + n)
    BY <1>1 DEF Carried
  <2> QED BY <1>4, <2>1, TookFlight
<1>6. /\ at \div 2 \in Nat /\ t \div 2 \in Nat /\ at \div 2 <= t \div 2 /\ t \div 2 <= Len(Flight)
      /\ (done <=> t \div 2 = Len(Flight)) /\ (n = 2 * Len(Flight) - at <=> done)
      /\ ~done => t \in 0 .. 2 * Len(Flight) - 1
  <2>1. Len(Flight) \in Nat
    BY FlightIs
  <2>2. /\ at \div 2 \in Nat /\ t \div 2 \in Nat /\ at \div 2 <= t \div 2 /\ t \div 2 <= Len(Flight)
        /\ (done <=> t \div 2 = Len(Flight))
    BY <1>4, <2>1, PlacesAre
  <2>3. ASSUME NEW u \in Nat, NEW i \in 0 .. 2 * u - 1, NEW j \in 1 .. 2 * u - i
        PROVE  (j = 2 * u - i <=> i + j = 2 * u) /\ (i + j # 2 * u => i + j \in 0 .. 2 * u - 1)
    OBVIOUS
  <2> QED BY <1>4, <2>1, <2>2, <2>3
<1>7. Said(at \div 2) \o Completed(n) = Said(t \div 2)
  <2>1. Completed(n) = SubSeq(Flight, at \div 2 + 1, t \div 2)
    BY <1>1 DEF Completed
  <2> DEFINE a == at \div 2
             b == t \div 2
  <2>2. a \in Nat /\ b \in Nat /\ a <= b /\ b <= Len(Flight) /\ Completed(n) = SubSeq(Flight, a + 1, b)
    BY <1>6, <2>1
  <2> HIDE DEF a, b
  <2>3. Said(a) \o Completed(n) = Said(b)
    BY <2>2, SaidJoins
  <2> QED BY <2>3 DEF a, b
<1>8. server' = Moved(server, IF n = 2 * Len(Flight) - at THEN <<>> ELSE Flight,
                      IF n = 2 * Len(Flight) - at THEN 0 ELSE t, Said(at \div 2) \o Completed(n),
                      IF n = 2 * Len(Flight) - at THEN KeysOf("application", Said(at \div 2) \o Completed(n)) ELSE Next1(ShakeKeys(m)))
  BY <1>1, <1>2, <1>3 DEF ServerHandshake, Moved
<1> HIDE DEF r, t
<1>9. CASE done
  <2>1. KeysOf("application", Said(Len(Flight))) = TalkKeys(0)
    BY DEF KeysOf, TalkKeys
  <2>2. server' = Talking(0, 0, No)
    BY <1>6, <1>7, <1>8, <1>9, <2>1, ServersMove
  <2>3. Took(Shaken(at, m), r) = ToldOf(0, 0, FALSE)
    BY <1>5, <1>9
  <2>4. Synced(ToldOf(0, 0, FALSE), Talking(0, 0, No))
    <3>1. 0 \in Nat /\ FALSE \in BOOLEAN
      OBVIOUS
    <3> QED BY <3>1 DEF Synced, No
  <2> QED BY <1>4, <2>2, <2>3, <2>4 DEF Speaks
<1>10. CASE ~done
  <2>1. Next1(ShakeKeys(m)) = ShakeKeys(m + 1)
    BY KeysMove
  <2>2. server' = Shaking(t, m + 1)
    <3>1. server' = Moved(server, Flight, t, Said(t \div 2), ShakeKeys(m + 1))
      BY <1>6, <1>7, <1>8, <1>10, <2>1
    <3> HIDE DEF done
    <3> QED BY <3>1, ShakingMoves
  <2>3. Took(Shaken(at, m), r) = Shaken(t, m + 1)
    BY <1>5, <1>10
  <2>4. t \in 0 .. 2 * Len(Flight) - 1 /\ m + 1 \in Nat
    BY <1>6, <1>10
  <2> HIDE DEF done
  <2>5. Synced(Shaken(t, m + 1), Shaking(t, m + 1))
    BY <2>4 DEF Synced
  <2> QED BY <1>4, <2>2, <2>3, <2>5 DEF Speaks
<1> QED
  BY <1>9, <1>10

Yes == TRUE

(* A server that talks.                                                    *)
LEMMA TalkingIs ==
  ASSUME NEW n, NEW d, NEW b
  PROVE  /\ Talking(n, d, b).script = <<>> /\ Talking(n, d, b).at = 0 /\ Talking(n, d, b).keys = TalkKeys(n)
         /\ Talking(n, d, b).data = d
BY DEF Talking, ServerIs

Kept(s, data, keys) == [s EXCEPT !.data = data, !.keys = keys]
Ends(s, keys, closed) == [s EXCEPT !.keys = keys, !.closed = closed]

(* It says something, or closes.                                           *)
LEMMA TalkingMoves ==
  ASSUME NEW n, NEW d, NEW b, NEW x, NEW y, NEW z
  PROVE  /\ Kept(Talking(n, d, b), y, TalkKeys(x)) = Talking(x, y, b)
         /\ Ends(Talking(n, d, b), TalkKeys(x), z) = Talking(x, d, z)
<1> DEFINE s == Talking(n, d, b)
           t == ServerIs(<<>>, 0, Said(Len(Flight)), TalkKeys(x), d, b)
<1>1. Kept(s, y, TalkKeys(x)) = [[s EXCEPT !.keys = TalkKeys(x)] EXCEPT !.data = y]
  BY DEF Talking, ServerIs, Kept
<1>2. Ends(s, TalkKeys(x), z) = [[s EXCEPT !.keys = TalkKeys(x)] EXCEPT !.closed = z]
  BY DEF Talking, ServerIs, Ends
<1>3. [s EXCEPT !.keys = TalkKeys(x)] = t
  BY DEF Talking, ServerIs
<1>4. [t EXCEPT !.data = y] = Talking(x, y, b)
  BY DEF Talking, ServerIs
<1>5. [t EXCEPT !.closed = z] = Talking(x, d, z)
  BY DEF Talking, ServerIs
<1> HIDE DEF s, t
<1> QED
  BY <1>1, <1>2, <1>3, <1>4, <1>5 DEF s

(* A server with nothing left of its script is one that talks.             *)
LEMMA ReadyTalks ==
  ASSUME NEW c, Synced(c, server), ServerReady
  PROVE  \E n, d \in Nat : server = Talking(n, d, No) /\ c = ToldOf(n, d, No)
<1>1. server.script = <<>> /\ server.closed = FALSE
  BY DEF ServerReady
<1>2. <<"server hello">> # <<>> /\ Flight # <<>>
  BY FlightAssumption
<1>3. ASSUME NEW at, server = Greeting(at) PROVE FALSE
  BY <1>1, <1>2, <1>3, ServersAre
<1>4. ASSUME NEW at, NEW n, server = Shaking(at, n) PROVE FALSE
  BY <1>1, <1>2, <1>4, ServersAre
<1>5. ASSUME NEW n \in Nat, NEW d \in Nat, NEW b \in BOOLEAN, server = Talking(n, d, b), c = ToldOf(n, d, b)
      PROVE  b = No
  BY <1>1, <1>5, ServersAre DEF No
<1> QED
  BY <1>3, <1>4, <1>5 DEF Synced

(* Data, a ticket or the end: the same.                                    *)
LEMMA TalksOn ==
  ASSUME NEW n \in Nat, NEW d \in Nat, server = Talking(n, d, No), "update" \notin Asides,
         ServerData \/ \E aside \in Asides : ServerAside(aside)
  PROVE  Speaks(ToldOf(n, d, No))
<1>1. server.data = d /\ server.keys = TalkKeys(n)
  BY TalkingIs
<1>2. Next1(TalkKeys(n)) = TalkKeys(n + 1)
  BY KeysMove
<1>3. ASSUME NEW i \in Nat, NEW b \in BOOLEAN PROVE Synced(ToldOf(n + 1, i, b), Talking(n + 1, i, b))
  <2>1. n + 1 \in Nat
    OBVIOUS
  <2> QED BY <2>1 DEF Synced
<1>4. CASE ServerData
  <2> DEFINE r == Record("data", TalkKeys(n), "data", <<d + 1>>)
  <2>1. Puts(r)
    BY <1>1, <1>4 DEF ServerData
  <2>2. server' = Kept(server, d + 1, TalkKeys(n + 1))
    BY <1>1, <1>2, <1>4 DEF ServerData, Kept
  <2>3. server' = Talking(n + 1, d + 1, No)
    BY <2>2, TalkingMoves
  <2>4. Took(ToldOf(n, d, No), r) = ToldOf(n + 1, d + 1, No)
    BY TookData DEF No
  <2>5. Synced(ToldOf(n + 1, d + 1, No), Talking(n + 1, d + 1, No))
    <3>1. d + 1 \in Nat /\ d \in Nat /\ No \in BOOLEAN /\ Yes \in BOOLEAN
      BY DEF No, Yes
    <3> QED BY <1>3, <3>1
  <2> HIDE DEF r
  <2> QED BY <2>1, <2>3, <2>4, <2>5 DEF Speaks
<1>5. ASSUME NEW aside \in Asides, ServerAside(aside), aside = "close" PROVE Speaks(ToldOf(n, d, No))
  <2> DEFINE r == Record("data", TalkKeys(n), "alert", <<>>)
  <2>1. Puts(r)
    BY <1>1, <1>5 DEF ServerAside
  <2>2. server' = Ends(server, TalkKeys(n + 1), Yes)
    BY <1>1, <1>2, <1>5 DEF ServerAside, Yes, Ends
  <2>3. server' = Talking(n + 1, d, Yes)
    BY <2>2, TalkingMoves
  <2>4. Took(ToldOf(n, d, No), r) = ToldOf(n + 1, d, Yes)
    BY TookClose DEF No, Yes
  <2>5. Synced(ToldOf(n + 1, d, Yes), Talking(n + 1, d, Yes))
    <3>1. d + 1 \in Nat /\ d \in Nat /\ No \in BOOLEAN /\ Yes \in BOOLEAN
      BY DEF No, Yes
    <3> QED BY <1>3, <3>1
  <2> HIDE DEF r
  <2> QED BY <2>1, <2>3, <2>4, <2>5 DEF Speaks
<1>6. ASSUME NEW aside \in Asides, ServerAside(aside), aside # "close" PROVE Speaks(ToldOf(n, d, No))
  <2> DEFINE r == Record("data", TalkKeys(n), "handshake", Halves(<<aside>>))
  <2>0. aside # "update"
    OBVIOUS
  <2>1. Puts(r)
    BY <1>1, <1>6 DEF ServerAside
  <2>2. server' = Ends(server, TalkKeys(n + 1), No)
    BY <1>1, <1>2, <1>6, <2>0 DEF ServerAside, No, Ends
  <2>3. server' = Talking(n + 1, d, No)
    BY <2>2, TalkingMoves
  <2>4. Took(ToldOf(n, d, No), r) = ToldOf(n + 1, d, No)
    BY TookTicket DEF No
  <2>5. Synced(ToldOf(n + 1, d, No), Talking(n + 1, d, No))
    <3>1. d + 1 \in Nat /\ d \in Nat /\ No \in BOOLEAN /\ Yes \in BOOLEAN
      BY DEF No, Yes
    <3> QED BY <1>3, <3>1
  <2> HIDE DEF r
  <2> QED BY <2>1, <2>3, <2>4, <2>5 DEF Speaks
<1> QED
  BY <1>4, <1>5, <1>6

(* Whatever the server does, it puts a record that a client in step takes  *)
(* and is in step again.                                                   *)
LEMMA ServerSpeaks ==
  ASSUME NEW c, Synced(c, server), "update" \notin Asides,
         \/ \E n \in 1 .. Left(server) : ServerHandshake(n)
         \/ ServerChangesCipher \/ ServerData
         \/ \E aside \in Asides : ServerAside(aside)
  PROVE  Speaks(c)
<1>1. CASE ServerChangesCipher
  <2> DEFINE kind == "change cipher"
             r == Record(kind, NoKeys, "none", <<>>)
  <2>1. Puts(r) /\ server' = server
    BY <1>1 DEF ServerChangesCipher
  <2>2. Took(c, r) = c
    BY TookCipher
  <2> HIDE DEF r
  <2> QED BY <2>1, <2>2 DEF Speaks
<1>2. ASSUME NEW n \in 1 .. Left(server), ServerHandshake(n) PROVE Speaks(c)
  <2>1. ASSUME NEW at \in 0 .. 1, server = Greeting(at), c = Greeted(at) PROVE Speaks(c)
    BY <1>2, <2>1, GreetsOn
  <2>2. ASSUME NEW at \in 0 .. 2 * Len(Flight) - 1, NEW m \in Nat, server = Shaking(at, m), c = Shaken(at, m) PROVE Speaks(c)
    BY <1>2, <2>2, ShakesOn
  <2>3. ASSUME NEW m, NEW d, NEW b, server = Talking(m, d, b) PROVE FALSE
    <3>1. server.script = <<>> /\ server.at = 0
      BY <2>3, TalkingIs
    <3>2. Len(<<>>) = 0
      OBVIOUS
    <3>3. Left(server) = 0
      BY <3>1, <3>2 DEF Left
    <3> QED BY <3>3
  <2> QED BY <2>1, <2>2, <2>3 DEF Synced
<1>3. CASE ServerData \/ \E aside \in Asides : ServerAside(aside)
  <2>1. ServerReady
    BY <1>3 DEF ServerData, ServerAside
  <2>2. PICK n, d \in Nat : server = Talking(n, d, No) /\ c = ToldOf(n, d, No)
    BY <2>1, ReadyTalks
  <2> QED BY <1>3, <2>2, TalksOn
<1> QED
  BY <1>1, <1>2, <1>3

(***************************************************************************)
(* TLS: everything on the wire will be understood                          *)
(***************************************************************************)

\* A client without an error that has the first of what the server has sent.
Good(c, n) == c.error = "none" /\ \E d \in 0 .. n : c.received = [i \in 1 .. d |-> i]

\* The clients that this one becomes, record by record, when it is fed all
\* that is on the wire: m records end there, the first of which may have
\* begun in the inbox.
Reading(X, C, m, e) ==
    /\ inbox \in Seq(X) /\ Len(inbox) = e
    /\ wire \in Seq(X) /\ Len(wire) = 2 * m - e
    /\ C[0] = client /\ \A k \in 1 .. m : C[k] = Took(C[k - 1], wire[2 * k - e][1])
    /\ Synced(C[m], server)
    /\ server.data \in Nat /\ \A k \in 0 .. m : Good(C[k], server.data)
TlsIInv == \E X, C : \E m \in Nat, e \in 0 .. 1 : Reading(X, C, m, e)

(* A client in step has everything.                                        *)
LEMMA SyncedIsGood ==
  ASSUME NEW c, NEW s, Synced(c, s)
  PROVE  s.data \in Nat /\ Good(c, s.data) /\ c.received = [i \in 1 .. s.data |-> i]
         /\ (s.keys.epoch # "none" => c.read = s.keys)
         /\ (c.stage = "Connected" => c.transcript = s.transcript)
<1>1. ASSUME NEW at, s = Greeting(at), c = Greeted(at)
      PROVE  /\ s.data = 0 /\ c.error = "none" /\ c.received = <<>> /\ s.keys.epoch = "none" /\ c.stage # "Connected"
  <2>1. s.data = 0 /\ s.keys = NoKeys
    BY <1>1, ServersAre
  <2>2. c.error = "none" /\ c.received = <<>> /\ c.stage = "Hello"
    <3> DEFINE p == Part(<<"server hello">>, at)
    <3>1. c = ClientIs("Hello", p, Hellos, NoKeys, NoKeys, <<>>)
      BY <1>1 DEF Greeted
    <3> HIDE DEF p
    <3> QED BY <3>1, ClientFields
  <2> QED BY <2>1, <2>2 DEF NoKeys
<1>2. ASSUME NEW at, NEW n, s = Shaking(at, n), c = Shaken(at, n)
      PROVE  /\ s.data = 0 /\ c.error = "none" /\ c.received = <<>> /\ s.keys = c.read /\ c.stage # "Connected"
  <2>1. s.data = 0 /\ s.keys = ShakeKeys(n)
    BY <1>2, ServersAre
  <2>2. c.error = "none" /\ c.received = <<>> /\ c.stage = "Encrypted" /\ c.read = ShakeKeys(n)
    BY <1>2, ClientFields DEF Shaken
  <2> QED BY <2>1, <2>2
<1>3. ASSUME NEW n, NEW d \in Nat, NEW b, s = Talking(n, d, b), c = ToldOf(n, d, b)
      PROVE  /\ s.data = d /\ c.error = "none" /\ c.received = [i \in 1 .. d |-> i] /\ s.keys = c.read
             /\ c.transcript = s.transcript
  <2>1. s.data = d /\ s.keys = TalkKeys(n) /\ s.transcript = Said(Len(Flight))
    BY <1>3 DEF Talking, ServerIs
  <2>2. c.error = "none" /\ c.received = [i \in 1 .. d |-> i] /\ c.read = TalkKeys(n) /\ c.transcript = Said(Len(Flight))
    BY <1>3, ClientFields DEF ToldOf
  <2> QED BY <2>1, <2>2
<1>4. c.error = "none" /\ s.data \in Nat /\ c.received = [i \in 1 .. s.data |-> i]
  <2>1. ASSUME s.data = 0, c.received = <<>> PROVE s.data \in Nat /\ c.received = [i \in 1 .. s.data |-> i]
    <3>1. [i \in 1 .. s.data |-> i] = [i \in 1 .. 0 |-> i]
      BY <2>1, Zenon
    <3> QED BY <2>1, <3>1, NothingCounted
  <2>2. CASE \E at \in 0 .. 1 : s = Greeting(at) /\ c = Greeted(at)
    BY <1>1, <2>1, <2>2
  <2>3. CASE \E at \in 0 .. 2 * Len(Flight) - 1, n \in Nat : s = Shaking(at, n) /\ c = Shaken(at, n)
    BY <1>2, <2>1, <2>3
  <2>4. CASE \E n, d \in Nat, b \in BOOLEAN : s = Talking(n, d, b) /\ c = ToldOf(n, d, b)
    <3>1. PICK n, d \in Nat, b \in BOOLEAN : s = Talking(n, d, b) /\ c = ToldOf(n, d, b)
      BY <2>4
    <3>2. s.data = d /\ c.error = "none" /\ c.received = [i \in 1 .. d |-> i]
      BY <1>3, <3>1
    <3>3. [i \in 1 .. s.data |-> i] = [i \in 1 .. d |-> i]
      BY <3>2, Zenon
    <3> QED BY <3>2, <3>3
  <2> QED BY <2>2, <2>3, <2>4 DEF Synced
<1>5. (s.keys.epoch # "none" => c.read = s.keys) /\ (c.stage = "Connected" => c.transcript = s.transcript)
  BY <1>1, <1>2, <1>3 DEF Synced
<1>6. Good(c, s.data)
  <2>1. s.data \in 0 .. s.data
    BY <1>4
  <2> QED BY <1>4, <2>1 DEF Good
<1> QED
  BY <1>4, <1>5, <1>6

(* At first the client has not heard anything and nothing has been said.   *)
LEMMA TlsIInvInit ==
  TlsInit => TlsIInv
<1> SUFFICES ASSUME TlsInit PROVE TlsIInv
  OBVIOUS
<1> DEFINE C == [k \in 0 .. 0 |-> client]
<1>1. client = Greeted(0)
  <2>1. Part(<<"server hello">>, 0) = <<>>
    BY PartIs
  <2> QED BY <2>1 DEF TlsInit, Greeted, ClientIs
<1>2. server = Greeting(0)
  BY DEF TlsInit, Greeting, ServerIs, No
<1>3. Synced(client, server)
  <2>1. 0 \in 0 .. 1
    OBVIOUS
  <2> QED BY <1>1, <1>2, <2>1, Zenon DEF Synced
<1>4. server.data \in Nat /\ Good(client, server.data)
  BY <1>3, SyncedIsGood
<1>5. inbox = <<>> /\ wire = <<>>
  BY DEF TlsInit
<1>6. C[0] = client
  OBVIOUS
<1> HIDE DEF C
<1>7. Reading({}, C, 0, 0)
  <2>1. inbox \in Seq({}) /\ wire \in Seq({}) /\ Len(inbox) = 0 /\ Len(wire) = 2 * 0 - 0
    BY <1>5
  <2>2. \A k \in 1 .. 0 : FALSE
    OBVIOUS
  <2>3. \A k \in 0 .. 0 : k = 0
    OBVIOUS
  <2>4. \A k \in 0 .. 0 : Good(C[k], server.data)
    BY <1>4, <1>6, <2>3
  <2> QED BY <1>3, <1>4, <1>6, <2>1, <2>2, <2>4 DEF Reading
<1> QED
  BY <1>7 DEF TlsIInv

(* A record more on the wire.                                              *)
LEMMA SpeaksKeeps ==
  ASSUME NEW X, NEW C, NEW m \in Nat, NEW e \in 0 .. 1, Reading(X, C, m, e), Speaks(C[m]), server'.data >= server.data
  PROVE  TlsIInv'
<1>1. PICK r : Puts(r) /\ Synced(Took(C[m], r), server')
  BY DEF Speaks
<1> DEFINE Y == X \cup ({r} \X (1 .. 2))
           D == [k \in 0 .. m + 1 |-> IF k <= m THEN C[k] ELSE Took(C[m], r)]
           h == Halves(<<r>>)
<1>2. wire \in Seq(X) /\ Len(wire) = 2 * m - e /\ inbox \in Seq(X) /\ Len(inbox) = e
  BY DEF Reading
<1>3. h \in Seq({r} \X (1 .. 2)) /\ Len(h) = 2 /\ h[2][1] = r
  <2> DEFINE q == <<r>>
  <2>1. q \in Seq({r}) /\ Len(q) = 1 /\ q[1] = r
    OBVIOUS
  <2> HIDE DEF q
  <2>2. Halves(q) \in Seq({r} \X (1 .. 2)) /\ Len(Halves(q)) = 2 * Len(q) /\ \A i \in 1 .. Len(q) : Halves(q)[2 * i][1] = q[i]
    BY <2>1, HalvesAre
  <2>3. 2 * 1 = 2 /\ 1 \in 1 .. 1
    OBVIOUS
  <2> QED BY <2>1, <2>2, <2>3 DEF q
<1>4. wire' = wire \o h /\ client' = client /\ inbox' = inbox
  BY <1>1 DEF Puts
<1>5. D[0] = C[0] /\ D[m + 1] = Took(C[m], r) /\ \A k \in 0 .. m : D[k] = C[k]
  <2>1. 0 \in 0 .. m + 1 /\ m + 1 \in 0 .. m + 1 /\ ~(m + 1 <= m) /\ 0 <= m
    OBVIOUS
  <2>2. \A k \in 0 .. m : k \in 0 .. m + 1 /\ k <= m
    OBVIOUS
  <2> QED BY <2>1, <2>2
<1> HIDE DEF h, D
<1>6. /\ wire' \in Seq(Y) /\ Len(wire') = 2 * (m + 1) - e
      /\ \A i \in 1 .. 2 * m - e : wire'[i] = wire[i]
      /\ wire'[2 * (m + 1) - e] = h[2]
  <2>1. wire \in Seq(Y) /\ h \in Seq(Y)
    <3>1. X \subseteq Y /\ {r} \X (1 .. 2) \subseteq Y
      OBVIOUS
    <3> HIDE DEF Y
    <3> QED BY <1>2, <1>3, <3>1
  <2> HIDE DEF Y
  <2>2. /\ wire \o h \in Seq(Y) /\ Len(wire \o h) = Len(wire) + Len(h)
        /\ \A i \in 1 .. Len(wire) + Len(h) : (wire \o h)[i] = IF i <= Len(wire) THEN wire[i] ELSE h[i - Len(wire)]
    BY <2>1, ConcatProperties
  <2>3. Len(wire) + Len(h) = 2 * (m + 1) - e
    BY <1>2, <1>3
  <2>4. ASSUME NEW i \in 1 .. 2 * m - e PROVE (wire \o h)[i] = wire[i]
    <3>1. i \in 1 .. Len(wire) + Len(h) /\ i <= Len(wire)
      BY <1>2, <2>3
    <3> QED BY <2>2, <3>1
  <2>5. (wire \o h)[2 * (m + 1) - e] = h[2]
    <3> DEFINE j == 2 * (m + 1) - e
    <3>1. j \in 1 .. 2 * (m + 1) - e /\ ~(j <= Len(wire)) /\ j - Len(wire) = 2
      <4>1. j = 2 * m - e + 2 /\ j >= 1
        OBVIOUS
      <4> HIDE DEF j
      <4>2. 2 * m - e \in Int
        OBVIOUS
      <4>3. j \in Int /\ Len(wire) = 2 * m - e
        BY <1>2, <4>1
      <4>4. j \in 1 .. j /\ ~(j <= Len(wire)) /\ j - Len(wire) = 2
        BY <4>1, <4>2, <4>3
      <4> QED BY <4>4 DEF j
    <3> HIDE DEF j
    <3> QED BY <2>2, <2>3, <3>1 DEF j
  <2> QED BY <1>4, <2>2, <2>3, <2>4, <2>5
<1>7. inbox' \in Seq(Y) /\ Len(inbox') = e
  <2>1. X \subseteq Y
    OBVIOUS
  <2> HIDE DEF Y
  <2> QED BY <1>2, <1>4, <2>1
<1>8. D[0] = client'
  BY <1>4, <1>5 DEF Reading
<1>9. ASSUME NEW k \in 1 .. m + 1 PROVE D[k] = Took(D[k - 1], wire'[2 * k - e][1])
  <2>1. CASE k = m + 1
    <3>1. k - 1 = m /\ m \in 0 .. m
      BY <2>1
    <3> QED BY <1>3, <1>5, <1>6, <2>1, <3>1
  <2>2. CASE k # m + 1
    <3>1. k \in 1 .. m /\ k \in 0 .. m /\ k - 1 \in 0 .. m /\ 2 * k - e \in 1 .. 2 * m - e
      BY <2>2
    <3>2. C[k] = Took(C[k - 1], wire[2 * k - e][1])
      BY <3>1 DEF Reading
    <3>3. wire'[2 * k - e] = wire[2 * k - e]
      BY <1>6, <3>1
    <3> QED BY <1>5, <3>1, <3>2, <3>3
  <2> QED BY <2>1, <2>2
<1>10. server'.data \in Nat /\ Good(D[m + 1], server'.data)
  BY <1>1, <1>5, SyncedIsGood
<1>11. ASSUME NEW k \in 0 .. m PROVE Good(D[k], server'.data)
  <2>1. server.data \in Nat /\ Good(C[k], server.data)
    BY DEF Reading
  <2>2. PICK d \in 0 .. server.data : C[k].received = [i \in 1 .. d |-> i]
    BY <2>1 DEF Good
  <2>3. d \in 0 .. server'.data
    BY <1>10, <2>1
  <2>4. D[k] = C[k]
    BY <1>5
  <2>5. C[k].error = "none"
    BY <2>1 DEF Good
  <2> QED BY <2>2, <2>3, <2>4, <2>5 DEF Good
<1>12. ASSUME NEW k \in 0 .. m + 1 PROVE Good(D[k], server'.data)
  <2>1. k = m + 1 \/ k \in 0 .. m
    OBVIOUS
  <2> QED BY <1>10, <1>11, <2>1
<1>13. Reading(Y, D, m + 1, e)'
  <2> HIDE DEF Y
  <2>1. Synced(D[m + 1], server')
    BY <1>1, <1>5
  <2> QED BY <1>6, <1>7, <1>8, <1>9, <1>10, <1>12, <2>1 DEF Reading
<1>14. m + 1 \in Nat
  OBVIOUS
<1> HIDE DEF Y
<1> QED
  BY <1>13, <1>14 DEF TlsIInv

Taking(c, r, p) == Took(c, r)
Takes == INSTANCE FoldLemmas WITH Op <- Taking

(* What is read after a step.                                              *)
LEMMA ReadsOn ==
  ASSUME NEW X, NEW C, NEW m \in Nat, NEW e \in 0 .. 1,
         inbox' \in Seq(X), Len(inbox') = e, wire' \in Seq(X), Len(wire') = 2 * m - e,
         C[0] = client', \A k \in 1 .. m : C[k] = Took(C[k - 1], wire'[2 * k - e][1]), Synced(C[m], server'),
         server'.data \in Nat, \A k \in 0 .. m : Good(C[k], server'.data)
  PROVE  TlsIInv'
<1>1. Reading(X, C, m, e)'
  BY DEF Reading
<1> QED
  BY <1>1 DEF TlsIInv

(* feed: some halves more go into the inbox, and the whole records of it   *)
(* are taken.                                                              *)
LEMMA FeedKeeps ==
  ASSUME NEW X, NEW C, NEW m \in Nat, NEW e \in 0 .. 1, Reading(X, C, m, e), NEW n \in 1 .. Len(wire), Feed(n)
  PROVE  TlsIInv'
<1> DEFINE l == SubSeq(wire, 1, n)
           all == inbox \o l
           w == Len(all) \div 2
           nums == [i \in 1 .. w |-> all[2 * i][1]]
           f == e + n - 2 * w
           D == [k \in 0 .. m - w |-> C[k + w]]
<1>1. wire \in Seq(X) /\ Len(wire) = 2 * m - e /\ inbox \in Seq(X) /\ Len(inbox) = e
  BY DEF Reading
<1>2. n \in Nat /\ n >= 1 /\ e + n <= 2 * m
  BY <1>1
<1>3. l \in Seq(X) /\ Len(l) = n /\ \A i \in 1 .. n : l[i] = wire[i]
  <2>1. 1 \in Int /\ n \in Int /\ \A i \in 1 .. n : wire[i] \in X
    BY <1>1
  <2>2. l \in Seq(X) /\ Len(l) = (IF 1 <= n THEN n - 1 + 1 ELSE 0) /\ \A i \in 1 .. n - 1 + 1 : l[i] = wire[1 + i - 1]
    BY <2>1, SubSeqProperties
  <2> HIDE DEF l
  <2>3. n - 1 + 1 = n /\ \A i \in 1 .. n : 1 + i - 1 = i
    BY <1>2
  <2> QED BY <1>2, <2>2, <2>3
<1> HIDE DEF l
<1>4. /\ all \in Seq(X) /\ Len(all) = e + n
      /\ \A i \in 1 .. n : all[e + i] = wire[i]
  <2>1. /\ inbox \o l \in Seq(X) /\ Len(inbox \o l) = Len(inbox) + Len(l)
        /\ \A i \in 1 .. Len(inbox) + Len(l) : (inbox \o l)[i] = IF i <= Len(inbox) THEN inbox[i] ELSE l[i - Len(inbox)]
    BY <1>1, <1>3, ConcatProperties
  <2>2. ASSUME NEW i \in 1 .. n PROVE all[e + i] = wire[i]
    <3>1. e + i \in 1 .. Len(inbox) + Len(l) /\ ~(e + i <= Len(inbox)) /\ (e + i) - Len(inbox) = i
      <4>1. e + i \in 1 .. e + n /\ ~(e + i <= e) /\ (e + i) - e = i
        BY <1>2
      <4> QED BY <1>1, <1>3, <4>1
    <3> QED BY <1>3, <2>1, <3>1
  <2> QED BY <1>1, <1>3, <2>1, <2>2
<1> HIDE DEF all
<1>5. w \in Nat /\ f \in 0 .. 1 /\ w <= m /\ e + n = 2 * w + f
  <2>1. Len(all) \in Nat /\ Len(all) = e + n
    BY <1>2, <1>4
  <2>2. w \in Nat /\ Len(all) % 2 \in 0 .. 1 /\ Len(all) = 2 * w + (Len(all) % 2)
    BY <2>1, Halving
  <2> HIDE DEF w
  <2>3. f \in 0 .. 1 /\ e + n = 2 * w + f
    BY <2>1, <2>2
  <2>4. w <= m
    BY <1>2, <2>2, <2>3
  <2> QED BY <2>2, <2>3, <2>4
<1>6. client' = Takes!Run(client, nums, all) /\ inbox' = SubSeq(all, 2 * w + 1, Len(all))
      /\ wire' = SubSeq(wire, n + 1, Len(wire)) /\ server' = server
  <2> DEFINE both == inbox \o SubSeq(wire, 1, n)
  <2>1. client' = FoldLeft(Took, client, [i \in 1 .. Len(both) \div 2 |-> both[2 * i][1]])
        /\ inbox' = SubSeq(both, 2 * (Len(both) \div 2) + 1, Len(both))
        /\ wire' = SubSeq(wire, n + 1, Len(wire)) /\ server' = server
    BY Zenon DEF Feed
  <2>2. ASSUME NEW c, NEW q PROVE FoldLeft(Took, c, q) = Takes!Run(c, q, all)
    BY Zenon DEF FoldLeft, MapThenFoldSet, Max, Takes!Run, Takes!Walk, Takes!Top, Taking
  <2>3. all = both
    BY DEF all, l
  <2> HIDE DEF both
  <2> QED BY <2>1, <2>2, <2>3
<1> HIDE DEF w, f
<1>7. ASSUME NEW k \in 1 .. w PROVE C[k] = Took(C[k - 1], nums[k])
  <2>1. 2 * k - e \in 1 .. n /\ e + (2 * k - e) = 2 * k /\ k \in 1 .. m
    BY <1>2, <1>5
  <2>2. all[2 * k] = wire[2 * k - e]
    BY <1>4, <2>1
  <2>3. C[k] = Took(C[k - 1], wire[2 * k - e][1])
    BY <2>1 DEF Reading
  <2> QED BY <2>2, <2>3
<1>8. client' = C[w]
  <2> DEFINE P == {<<k, C[k]>> : k \in 0 .. w}
  <2>1. w \in Nat /\ DOMAIN nums = 1 .. w
    BY <1>5
  <2>2. <<0, client>> \in P
    <3>1. C[0] = client /\ 0 \in 0 .. w
      BY <2>1 DEF Reading
    <3> QED BY <3>1
  <2>3. ASSUME NEW k \in 1 .. w, NEW d, <<k - 1, d>> \in P PROVE <<k, Taking(d, nums[k], all)>> \in P
    <3>1. d = C[k - 1] /\ k \in 0 .. w
      BY <2>1, <2>3
    <3>2. C[k] = Took(C[k - 1], nums[k])
      BY <1>7
    <3> HIDE DEF nums
    <3> QED BY <3>1, <3>2 DEF Taking
  <2>4. <<w, Takes!Run(client, nums, all)>> \in P
    <3> HIDE DEF P, nums
    <3> QED BY <2>1, <2>2, <2>3, Takes!FoldKeeps, Zenon
  <2> DEFINE v == Takes!Run(client, nums, all)
  <2> HIDE DEF v, nums
  <2>5. v = C[w]
    BY <2>4 DEF v
  <2> QED BY <1>6, <2>5 DEF v
<1>9. inbox' \in Seq(X) /\ Len(inbox') = f
  <2>1. 2 * w + 1 \in Int /\ Len(all) \in Int /\ \A i \in 2 * w + 1 .. Len(all) : all[i] \in X
    <3>1. \A i \in 1 .. Len(all) : all[i] \in X
      BY <1>4
    <3>2. \A i \in 2 * w + 1 .. Len(all) : i \in 1 .. Len(all)
      BY <1>2, <1>4, <1>5
    <3> QED BY <1>2, <1>4, <1>5, <3>1, <3>2
  <2>2. inbox' \in Seq(X) /\ Len(inbox') = (IF 2 * w + 1 <= Len(all) THEN Len(all) - (2 * w + 1) + 1 ELSE 0)
    BY <1>6, <2>1, SubSeqProperties
  <2>3. Len(all) = 2 * w + f
    BY <1>4, <1>5
  <2> QED BY <1>5, <2>2, <2>3
<1>10. wire' \in Seq(X) /\ Len(wire') = 2 * (m - w) - f /\ \A i \in 1 .. 2 * (m - w) - f : wire'[i] = wire[n + i]
  <2>1. n + 1 \in Int /\ Len(wire) \in Int /\ \A i \in n + 1 .. Len(wire) : wire[i] \in X
    <3>1. \A i \in 1 .. Len(wire) : wire[i] \in X
      BY <1>1
    <3>2. \A i \in n + 1 .. Len(wire) : i \in 1 .. Len(wire)
      BY <1>1, <1>2
    <3> QED BY <1>1, <1>2, <3>1, <3>2
  <2>2. /\ wire' \in Seq(X) /\ Len(wire') = (IF n + 1 <= Len(wire) THEN Len(wire) - (n + 1) + 1 ELSE 0)
        /\ \A i \in 1 .. Len(wire) - (n + 1) + 1 : wire'[i] = wire[(n + 1) + i - 1]
    BY <1>6, <2>1, SubSeqProperties
  <2>3. Len(wire) - (n + 1) + 1 = 2 * (m - w) - f /\ (n + 1 <= Len(wire) <=> 2 * (m - w) - f > 0) /\ 2 * (m - w) - f >= 0
    BY <1>1, <1>2, <1>5
  <2>4. \A i \in 1 .. 2 * (m - w) - f : (n + 1) + i - 1 = n + i
    BY <1>2
  <2> QED BY <2>2, <2>3, <2>4
<1>11. m - w \in Nat /\ \A k \in 0 .. m - w : D[k] = C[k + w]
  BY <1>5
<1> HIDE DEF D, nums
<1>12. D[0] = client' /\ Synced(D[m - w], server')
  <2>1. 0 \in 0 .. m - w /\ 0 + w = w /\ m - w \in 0 .. m - w /\ (m - w) + w = m
    BY <1>5
  <2>2. D[0] = C[w] /\ D[m - w] = C[m]
    BY <1>11, <2>1
  <2> QED BY <1>6, <1>8, <2>2 DEF Reading
<1>13. ASSUME NEW k \in 1 .. m - w PROVE D[k] = Took(D[k - 1], wire'[2 * k - f][1])
  <2>1. k \in 0 .. m - w /\ k - 1 \in 0 .. m - w /\ k + w \in 1 .. m /\ (k - 1) + w = (k + w) - 1
        /\ 2 * k - f \in 1 .. 2 * (m - w) - f /\ n + (2 * k - f) = 2 * (k + w) - e
    BY <1>2, <1>5
  <2>2. D[k] = C[k + w] /\ D[k - 1] = C[(k + w) - 1]
    BY <1>11, <2>1
  <2>3. C[k + w] = Took(C[(k + w) - 1], wire[2 * (k + w) - e][1])
    BY <2>1 DEF Reading
  <2>4. wire'[2 * k - f] = wire[2 * (k + w) - e]
    BY <1>10, <2>1
  <2> QED BY <2>2, <2>3, <2>4
<1>14. \A k \in 0 .. m - w : Good(D[k], server'.data)
  <2>1. \A k \in 0 .. m - w : k + w \in 0 .. m
    BY <1>5
  <2> QED BY <1>6, <1>11, <2>1 DEF Reading
<1>15. inbox' \in Seq(X) /\ Len(inbox') = f /\ wire' \in Seq(X) /\ Len(wire') = 2 * (m - w) - f
  BY <1>9, <1>10
<1>16. server'.data \in Nat
  BY <1>6 DEF Reading
<1> QED
  BY <1>5, <1>11, <1>12, <1>13, <1>14, <1>15, <1>16, ReadsOn

(* Every step.                                                             *)
LEMMA TlsIInvStep ==
  ASSUME "update" \notin Asides, TlsIInv, [TlsNext]_tlsVars
  PROVE  TlsIInv'
<1>1. PICK X, C : \E m \in Nat, e \in 0 .. 1 : Reading(X, C, m, e)
  BY DEF TlsIInv
<1>2. PICK m \in Nat, e \in 0 .. 1 : Reading(X, C, m, e)
  BY <1>1
<1>3. CASE UNCHANGED tlsVars
  <2>1. Reading(X, C, m, e)'
    BY <1>2, <1>3 DEF Reading, tlsVars
  <2> QED BY <2>1 DEF TlsIInv
<1>4. ASSUME NEW n \in 1 .. Len(wire), Feed(n) PROVE TlsIInv'
  BY <1>2, <1>4, FeedKeeps
<1>5. ASSUME \/ \E n \in 1 .. Left(server) : ServerHandshake(n)
             \/ ServerChangesCipher \/ ServerData
             \/ \E aside \in Asides : ServerAside(aside)
      PROVE  TlsIInv'
  <2>1. Synced(C[m], server) /\ server.data \in Nat
    BY <1>2 DEF Reading
  <2>2. Speaks(C[m])
    BY <1>5, <2>1, ServerSpeaks
  <2>3. server'.data >= server.data
    <3>1. ASSUME NEW n, ServerHandshake(n) PROVE server'.data = server.data
      BY <3>1 DEF ServerHandshake
    <3>2. ServerChangesCipher => server'.data = server.data
      BY DEF ServerChangesCipher
    <3>3. ServerData => server'.data = server.data + 1
      BY DEF ServerData
    <3>4. ASSUME NEW aside \in Asides, ServerAside(aside) PROVE server'.data = server.data
      BY <3>4 DEF ServerAside
    <3> QED BY <1>5, <2>1, <3>1, <3>2, <3>3, <3>4
  <2> QED BY <1>2, <2>2, <2>3, SpeaksKeeps
<1> QED
  BY <1>3, <1>4, <1>5 DEF TlsNext

(* The client, fed what is on the wire and whatever cut it comes in, is    *)
(* always led to where the server is (tls.rs, feed, take and messages), as *)
(* long as the server does not change its keys.                            *)
THEOREM TlsFollows ==
  ASSUME "update" \notin Asides
  PROVE  TlsSpec => []TlsIInv
<1>1. TlsIInv /\ [TlsNext]_tlsVars => TlsIInv'
  BY TlsIInvStep
<1> QED
  BY <1>1, TlsIInvInit, PTL DEF TlsSpec

(* However the stream is cut, a client fed all of it has everything the    *)
(* server sent, without an error, and reads with the keys the server       *)
(* writes with (tls.rs, feed, take and messages), as long as the server    *)
(* does not change its keys: the client passes over that message.          *)
THEOREM StreamsAreUnderstood ==
  ASSUME "update" \notin Asides
  PROVE  TlsSpec => []AllIsUnderstood
<1>1. ASSUME TlsIInv PROVE AllIsUnderstood
  <2>1. SUFFICES ASSUME wire = <<>>
                 PROVE  /\ client.error = "none"
                        /\ client.received = [i \in 1 .. server.data |-> i]
                        /\ server.keys.epoch # "none" => client.read = server.keys
                        /\ client.stage = "Connected" => client.transcript = server.transcript
    BY Zenon DEF AllIsUnderstood
  <2>2. PICK X, C : \E m \in Nat, e \in 0 .. 1 : Reading(X, C, m, e)
    BY <1>1 DEF TlsIInv
  <2>3. PICK m \in Nat, e \in 0 .. 1 : Reading(X, C, m, e)
    BY <2>2
  <2>4. Len(wire) = 0
    BY <2>1
  <2>5. m = 0
    BY <2>3, <2>4 DEF Reading
  <2>6. Synced(client, server)
    BY <2>3, <2>5 DEF Reading
  <2>7. Good(client, server.data)
    BY <2>6, SyncedIsGood
  <2> QED BY <2>6, <2>7, SyncedIsGood DEF Good
<1> QED
  BY <1>1, TlsFollows, PTL

(* At any time the client is without an error and has the first of what    *)
(* the server has sent, in order and with nothing missing or twice         *)
(* (tls.rs, feed and take).                                                *)
THEOREM StreamsComeInOrder ==
  ASSUME "update" \notin Asides
  PROVE  TlsSpec => []Good(client, server.data)
<1>1. ASSUME TlsIInv PROVE Good(client, server.data)
  <2>1. PICK X, C : \E m \in Nat, e \in 0 .. 1 : Reading(X, C, m, e)
    BY <1>1 DEF TlsIInv
  <2>2. PICK m \in Nat, e \in 0 .. 1 : Reading(X, C, m, e)
    BY <2>1
  <2>3. 0 \in 0 .. m
    OBVIOUS
  <2> QED BY <2>2, <2>3 DEF Reading
<1> QED
  BY <1>1, TlsFollows, PTL
==============================================================================
