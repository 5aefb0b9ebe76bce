---------------------------- MODULE KernelUpdate ----------------------------
(***************************************************************************)
(* Installing an update from grenOS itself (kernel/src/install.rs), what   *)
(* it reads (update.rs), the disk it may write (storage.rs), the part of   *)
(* the main loop that drives it (main.rs) and the page of Parametres that  *)
(* asks for it (desktop.rs), across restarts and power cuts.               *)
(*                                                                         *)
(* A build is its stamp, and stands for its commit, its manifest and its   *)
(* kernel.  The disk has three things that matter: the two slots and the   *)
(* default entry of limine.conf.  Its controller keeps writes in a cache   *)
(* until a flush: "seen" is what a read gives, "may" every value the       *)
(* platters may hold if the power goes now.  Rewriting limine.conf changes *)
(* one digit of one sector: it holds the old or the new one.  The fetches  *)
(* are those of HttpFetch, reduced to how they end.                        *)
(***************************************************************************)
EXTENDS Integers, FiniteSetsExt

CONSTANTS Builds,       \* stamps of builds
          First,        \* the build both slots hold at first
          IsoBuild,     \* the build of the ISO
          Published,    \* the builds the release workflow publishes
          Local,        \* the builds made by hand, which have no commit
          Disks,        \* the AHCI disks, in order: [readable, signature, label]
          BootDisk,     \* the one the firmware starts
          Patience      \* UPDATE_PATIENCE, in steps of the clock

Slots == {"a", "b"}
Torn == 0
NoBuild == 0

ASSUME BuildsAssumption ==
    /\ Builds \subseteq Nat \ {0} /\ {First, IsoBuild} \subseteq Builds
    /\ Published \subseteq Builds /\ Local \subseteq Builds \ Published
    /\ \E b \in Published : \A c \in Published : b <= c
    /\ DOMAIN Disks \subseteq Nat \ {NoBuild} /\ BootDisk \in DOMAIN Disks /\ Patience \in Nat

VARIABLES disk,     \* seen and may of "a", "b" and "conf"
          touched,  \* history: the disks written to
          again,    \* history: a slot limine.conf may name was overwritten, not to the end
          up,       \* what the machine runs from: a slot, "iso", or "off"
          running,  \* the build it runs
          top,      \* the newest build published
          newest,   \* main.rs: what the last check that succeeded found
          check,    \* main.rs: whether a check is wanted, and the updater's fetch
          desk,     \* desktop.rs: update, found, install, and how long it waits
          inst      \* install.rs: the step, the manifest, the write under way

upVars == <<disk, touched, again, up, running, top, newest, check, desk, inst>>

NothingChecked == [wanted |-> FALSE, busy |-> FALSE]
NothingShown == [update |-> "idle", waited |-> 0, found |-> NoBuild, standing |-> "none",
                 ask |-> FALSE, install |-> "none"]
NoInstall == [step |-> "idle", build |-> NoBuild, write |-> "none"]

UpInit ==
    /\ disk = [o \in Slots \cup {"conf"} |->
                  IF o = "conf" THEN [seen |-> "a", may |-> {"a"}] ELSE [seen |-> First, may |-> {First}]]
    /\ touched = {} /\ again = FALSE
    /\ up = "off" /\ running = First
    /\ top = Min(Published)
    /\ newest = NoBuild
    /\ check = NothingChecked /\ desk = NothingShown /\ inst = NoInstall

(***************************************************************************)
(* The disk                                                                *)
(***************************************************************************)

\* Mutant: the first disk labelled GRENOS, whatever its signature.
Locate_ByLabel(s) ==
    LET ours == {i \in DOMAIN Disks : Disks[i].readable /\ Disks[i].label = "GRENOS"}
    IN  IF s \notin Slots \/ ours = {} THEN NoBuild ELSE Min(ours)

\* locate: the first readable disk with the signature of the one that
\* started, if it is labelled GRENOS; none when started from the ISO.
Locate(s) ==
    LET ours == {i \in DOMAIN Disks : Disks[i].readable /\ Disks[i].signature = Disks[BootDisk].signature}
    IN  IF s \notin Slots \/ ours = {} \/ Disks[Min(ours)].label # "GRENOS" THEN NoBuild ELSE Min(ours)

Store == Locate(up)
Target == IF up = "a" THEN "b" ELSE "a"

DiskWrite(o, v) ==
    /\ disk' = IF Store = BootDisk
               THEN [disk EXCEPT ![o] = [seen |-> v, may |-> @.may \cup {v} \cup {Torn : s \in {o} \cap Slots}]]
               ELSE disk
    /\ touched' = touched \cup {Store}

\* Mutant: a flush the disk is never asked for.
Flushed_Forgotten(d) == d

Flushed(d) == [o \in DOMAIN d |-> [seen |-> d[o].seen, may |-> {d[o].seen}]]

(***************************************************************************)
(* Checking                                                                *)
(***************************************************************************)

\* is_current and is_listed.
Standing(latest) ==
    IF running \in Local THEN "local"
    ELSE IF running = latest THEN "current"
    ELSE IF running \in Published /\ running < latest THEN "behind"
    ELSE "unlisted"

Publish == \E b \in Published : b > top /\ top' = b /\ UNCHANGED <<disk, touched, again, up, running, newest, check, desk, inst>>

IsUp == up # "off"
Writing == inst.write # "none"
LoopRuns == IsUp /\ ~Writing      \* install() runs to its end before the loop goes on

\* start_update; at the start of the machine, main.rs asks on its own.
ClickCheck ==
    /\ LoopRuns /\ desk.update # "checking"
    /\ desk' = [desk EXCEPT !.update = "checking", !.waited = 0]
    /\ check' = [check EXCEPT !.wanted = TRUE]
    /\ UNCHANGED <<disk, touched, again, up, running, top, newest, inst>>

StartCheck ==
    /\ LoopRuns /\ check.wanted /\ ~check.busy
    /\ check' = [wanted |-> FALSE, busy |-> TRUE]
    /\ UNCHANGED <<disk, touched, again, up, running, top, newest, desk, inst>>

\* update_result with what the index says, or why there is none.
CheckAnswered ==
    /\ LoopRuns /\ check.busy
    /\ check' = [check EXCEPT !.busy = FALSE]
    /\ \/ /\ newest' = top
          /\ desk' = [desk EXCEPT !.update = "done", !.found = top, !.standing = Standing(top)]
       \/ /\ desk' = [desk EXCEPT !.update = "done", !.found = NoBuild, !.standing = "none"]
          /\ UNCHANGED newest
    /\ UNCHANGED <<disk, touched, again, up, running, top, inst>>

OutOfPatience == desk.waited >= Patience

\* advance: the window stops waiting, the fetch goes on.
Advance ==
    /\ LoopRuns /\ desk.update = "checking"
    /\ desk' = IF OutOfPatience
               THEN [desk EXCEPT !.update = "done", !.found = NoBuild, !.standing = "none"]
               ELSE IF desk.waited < Patience THEN [desk EXCEPT !.waited = @ + 1] ELSE desk
    /\ UNCHANGED <<disk, touched, again, up, running, top, newest, check, inst>>

(***************************************************************************)
(* Installing                                                              *)
(***************************************************************************)
Installable == desk.standing \in {"behind", "unlisted"}

ClickInstall ==
    /\ LoopRuns /\ desk.install \in {"none", "failed"} /\ Installable
    /\ desk' = [desk EXCEPT !.install = "working", !.ask = TRUE]
    /\ UNCHANGED <<disk, touched, again, up, running, top, newest, check, inst>>

\* The installer stops; the loop tells the desktop.
InstallEnds(how) ==
    /\ inst' = [inst EXCEPT !.step = "finished", !.write = "none"]
    /\ desk' = [desk EXCEPT !.install = how, !.ask = FALSE]

\* start: the newest image may have no manifest.
StartInstall ==
    /\ LoopRuns /\ desk.ask
    /\ \/ /\ newest # NoBuild
          /\ inst' = [NoInstall EXCEPT !.step = "manifest"]
          /\ desk' = [desk EXCEPT !.ask = FALSE]
       \/ InstallEnds("failed")
    /\ UNCHANGED <<disk, touched, again, up, running, top, newest, check>>

Fetching == inst.step \in {"manifest", "signature", "kernel"}

FetchFails ==
    /\ LoopRuns /\ Fetching
    /\ InstallEnds("failed")
    /\ UNCHANGED <<disk, touched, again, up, running, top, newest, check>>

ManifestCame ==
    /\ LoopRuns /\ inst.step = "manifest"
    /\ \E b \in Published : b <= top /\ inst' = [inst EXCEPT !.step = "signature", !.build = b]
    /\ UNCHANGED <<disk, touched, again, up, running, top, newest, check, desk>>

IsNewer(candidate, old) == candidate > old

\* check_and_fetch_kernel: the manifest is signed and strictly written, or not.
SignatureCame(sound) ==
    /\ LoopRuns /\ inst.step = "signature"
    /\ IF sound /\ IsNewer(inst.build, running) /\ Store # NoBuild
       THEN inst' = [inst EXCEPT !.step = "kernel"] /\ UNCHANGED desk
       ELSE InstallEnds("failed")
    /\ UNCHANGED <<disk, touched, again, up, running, top, newest, check>>

\* write, install: the kernel has the size and the hash of the manifest, or not.
KernelCame(right) ==
    /\ LoopRuns /\ inst.step = "kernel"
    /\ IF right
       THEN inst' = [inst EXCEPT !.write = "begin"] /\ UNCHANGED desk
       ELSE InstallEnds("failed")
    /\ UNCHANGED <<disk, touched, again, up, running, top, newest, check>>

WriteThen(next) == inst' = [inst EXCEPT !.write = next] /\ UNCHANGED desk

WriteBegins ==
    /\ inst.write = "begin" /\ WriteThen("write")
    /\ DiskWrite(Target, Torn)
    /\ again' = (again \/ Target \in disk["conf"].may)
    /\ UNCHANGED <<up, running, top, newest, check>>

WriteEnds ==
    /\ inst.write = "write" /\ WriteThen("flush")
    /\ DiskWrite(Target, inst.build)
    /\ UNCHANGED <<again, up, running, top, newest, check>>

FlushKernel ==
    /\ inst.write = "flush" /\ WriteThen("hash")
    /\ disk' = Flushed(disk)
    /\ again' = FALSE
    /\ UNCHANGED <<touched, up, running, top, newest, check>>

\* The kernel is hashed back, and limine.conf written with its new digit.
SwitchDefault ==
    /\ inst.write = "hash" /\ WriteThen("settle")
    /\ DiskWrite("conf", Target)
    /\ UNCHANGED <<again, up, running, top, newest, check>>

FlushDefault ==
    /\ inst.write = "settle" /\ WriteThen("reread")
    /\ disk' = Flushed(disk)
    /\ UNCHANGED <<touched, again, up, running, top, newest, check>>

\* limine.conf is read back and names the new slot.
RereadDefault ==
    /\ inst.write = "reread" /\ InstallEnds("installed")
    /\ UNCHANGED <<disk, touched, again, up, running, top, newest, check>>

\* Any command to the disk may report an error, or limine.conf not be as
\* expected: nothing more is written.  The last read may fail too, which says
\* that nothing was installed although the default entry is switched.
DiskFails ==
    /\ Writing /\ InstallEnds("failed")
    /\ UNCHANGED <<disk, touched, again, up, running, top, newest, check>>

WriteStep == WriteBegins \/ WriteEnds \/ FlushKernel \/ SwitchDefault \/ FlushDefault \/ RereadDefault \/ DiskFails

(***************************************************************************)
(* Stopping and starting                                                   *)
(***************************************************************************)

\* The power goes, or the machine restarts: what is not flushed may be lost.
PowerOff ==
    /\ IsUp
    /\ \E a \in disk["a"].may, b \in disk["b"].may, d \in disk["conf"].may :
          disk' = [a |-> [seen |-> a, may |-> {a}], b |-> [seen |-> b, may |-> {b}],
                   conf |-> [seen |-> d, may |-> {d}]]
    /\ up' = "off"
    /\ newest' = NoBuild
    /\ check' = NothingChecked /\ desk' = NothingShown /\ inst' = NoInstall
    /\ UNCHANGED <<touched, again, running, top>>

\* Limine starts the default entry, or the one chosen in its menu; a machine
\* may start from the ISO too.  main.rs asks for a check once it has an address.
Boot(s) ==
    /\ up = "off"
    /\ up' = s
    /\ IF s \in Slots THEN disk[s].seen # Torn /\ running' = disk[s].seen ELSE running' = IsoBuild
    /\ check' = [NothingChecked EXCEPT !.wanted = TRUE]
    /\ UNCHANGED <<disk, touched, again, top, newest, desk, inst>>

UpNext ==
    \/ Publish \/ ClickCheck \/ StartCheck \/ CheckAnswered \/ Advance
    \/ ClickInstall \/ StartInstall \/ FetchFails \/ ManifestCame
    \/ \E ok \in BOOLEAN : SignatureCame(ok) \/ KernelCame(ok)
    \/ WriteStep \/ PowerOff
    \/ \E s \in Slots \cup {"iso"} : Boot(s)

\* The timer wakes the loop, every turn of which calls advance; a command to
\* the disk ends, by its own patience if need be.
UpFairness == SF_upVars(Advance) /\ WF_upVars(WriteStep)

UpSpec == UpInit /\ [][UpNext]_upVars /\ UpFairness

(***************************************************************************)
(* Properties                                                              *)
(***************************************************************************)
Kernels == Builds \cup {Torn}

UpTypeOK ==
    /\ DOMAIN disk = Slots \cup {"conf"}
    /\ \A s \in Slots : disk[s].seen \in Kernels /\ disk[s].may \subseteq Kernels
    /\ disk["conf"].seen \in Slots /\ disk["conf"].may \subseteq Slots
    /\ touched \subseteq DOMAIN Disks \cup {NoBuild} /\ again \in BOOLEAN
    /\ up \in Slots \cup {"iso", "off"} /\ running \in Builds
    /\ top \in Published /\ newest \in Published \cup {NoBuild}
    /\ check \in [wanted : BOOLEAN, busy : BOOLEAN]
    /\ desk \in [update : {"idle", "checking", "done"}, waited : 0..Patience,
                 found : Published \cup {NoBuild},
                 standing : {"none", "local", "current", "behind", "unlisted"},
                 ask : BOOLEAN, install : {"none", "working", "installed", "failed"}]
    /\ inst \in [step : {"idle", "manifest", "signature", "kernel", "finished"},
                 build : Published \cup {NoBuild},
                 write : {"none", "begin", "write", "flush", "hash", "settle", "reread"}]

\* Rules 1 and 2 (storage.rs, install.rs): no disk but the one the machine
\* started from is ever written to, and the kernel it runs stays on it whole,
\* whatever the power does.
OnlyTheOtherSlot ==
    /\ touched \subseteq {BootDisk}
    /\ up \in Slots => disk[up].may = {running}

\* A power cut at any moment of an installation leaves a default entry that
\* starts, unless the slot being overwritten is one the default entry may name
\* (it does when the machine was started from the other one through the menu,
\* or after a failure to switch).
DefaultStarts ==
    \A s \in disk["conf"].may : Torn \in disk[s].may => again

\* What Parametres says of an installation is true: the default entry is the
\* other slot, which holds a newer build than the one that runs, and a power
\* cut changes neither.
InstalledIsTrue ==
    desk.install = "installed" =>
        /\ disk["conf"].may = {Target}
        /\ disk[Target].may = {inst.build}
        /\ inst.build > running

\* The page of updates does not wait for ever, whatever becomes of the fetch.
CheckingEnds == desk.update = "checking" ~> desk.update # "checking"

\* The default entry starts, whatever happened: not so, see the README.
DefaultAlwaysStarts == \A s \in disk["conf"].may : Torn \notin disk[s].may
=============================================================================
