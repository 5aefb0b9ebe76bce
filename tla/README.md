# grenOS — TLA+ models and proofs

grenOS is two systems in one repository. The **factory** is a set of AI agents
that write the operating system: a person describes a mission in the dashboard,
a worker process plans it, hands tasks to models, commits what they write, and
a CI judges every commit. The **operating system** is what they write: a Rust
kernel for x86-64 with its own desktop, network stack, FAT32 driver and
updates, and a Debian edition with Python tools.

This directory holds TLA+ models of the parts whose correctness depends on the
order of things, the TLC runs that check them on small instances, and TLAPS
proofs of the facts that matter most. `PROJECT.json` lists the components, the
runs, the mutants (a plausible bug for every property, which the run must
find), the source lines behind every definition, the findings, the hazards and
the theorems. Paths below are relative to `src/`.

    tlc -workers 2 -config lifecycle_work.cfg MC_TaskLifecycle   # a run
    tlapm TaskLifecycle_proofs.tla                               # the proofs

## Inventory

### The factory

| Component | State | Operations | How it is driven |
|---|---|---|---|
| Worker: executor and dispatch (`worker/src/executor.ts`, `index.ts`) | what it executes, in memory; nothing on disk | start and requeue, dispatch, execute a task, put back, catch | a loop of ticks, one process; several executions at once, each an async function |
| Task rows, leases, runs (`packages/db/migrations`) | `tasks`, `leases`, `runs`, `missions`, `messages`, `settings` | `claim_next_task`, `acquire_leases`, `release_leases`, the triggers `resolve_run_task` and `apply_run_verdict` | called by the worker; triggers run inside the insert of a CI verdict |
| CI (`.github/workflows/verify.yml`, `linux.yml`) | one run per workflow and head | build, boot in QEMU, post the verdict if the commit is still the head | a push that touches the workflow's paths; a newer run of the same workflow cancels the older |
| Merge (`worker/src/merge.ts`) | events `branch_merged`, `merge_conflict` | merge the head of a done branch once | every tick |
| Master (`worker/src/master.ts`, `autopilot.ts`, `lineage.ts`) | missions, messages, notebook | propose, supersede, escalate, resume, complete, answer the human | every tick, when the state it reads has changed |
| Intake (`worker/src/intake.ts`) | `draft_messages` | answer a draft conversation, launch the mission | every tick, and woken by a message |
| Lock (`worker/src/lock.ts`) | the row `worker_lock` | acquire, heartbeat, take over, release | start-up and a 20 s timer |
| Router (`packages/router`) | cooldowns, refusals, recent calls, daily use | complete, available, panel | called by the agents, concurrently |
| Sandbox, envelope, pre-flight, context, prompts | none | pure functions and reads | called in an execution |
| Dashboard (`apps/web`) | none of its own | writes missions, messages, settings | a person |

The parts share the database and nothing else: the worker's awaits, the CI's
posts and the person's clicks interleave freely on the same rows, and almost
every update is "by id", without looking at what it replaces.

### The operating system

One processor, one address space, one loop: `main.rs` empties the ring of
events, hands each to the desktop, polls the card and the clients of the
network, and rests until the next interrupt. Interrupt handlers run between any
two of its steps; devices, disks and servers run when they like.

| Component | State | Operations |
|---|---|---|
| FAT32 (`fat.rs`) | the disk: allocation tables, directories, clusters | write, overwrite, make and remove files and directories; power may go at any write |
| Disk controller (`ahci.rs`) | one command slot, one bounce buffer | read, write, flush, each with a patience |
| Update and installation (`update.rs`, `install.rs`, `storage.rs`, `settings.rs`) | two image slots and a default entry on the boot disk | check, download, verify, write, flush, switch |
| Page fetch (`http.rs`) | one conversation per client, 16 segments | begin, poll, receive, redirect, give up |
| Addresses and names (`net.rs`, `dhcp.rs`) | the address, the ARP table, 8 datagrams, one resolver per client | ask, confirm, resolve, answer ARP; the wire loses, repeats and reorders |
| TLS client (`tls.rs`) | inbox, pending messages, transcript, keys | feed, send |
| Network card (`e1000.rs`) | two rings shared with the card | send, receive |
| Events, keyboard, mouse (`events.rs`, `idt.rs`, `ps2.rs`, `keyboard.rs`, `mouse.rs`) | a ring shared with the handlers, two decoders | push from an interrupt, pop from the loop, rest |
| Memory (`memory.rs`, `paging.rs`) | a stack of free frames, page tables | allocate, free, map |
| Windows, menus, lock (`desktop.rs`) | windows and their animations, order, menus, password | clicks, keys, one turn of the clock |
| Repaint (`desktop.rs`, `fb.rs`, `anim.rs`) | the rectangle to repaint, two buffers, the pointer | damage, frame, present |
| Browser (`desktop.rs`, `main.rs`) | the page, two trails, the answer, the address waiting | visit, back, forward, reload, take, news |
| Files in memory, shell, notes, protection (`fs.rs`, `shell.rs`, `desktop.rs`, `security.rs`) | a tree of files with a quarantine | commands, the explorer, the notepad, the scan |
| Linux edition (`linux/`) | packages, snapshots, boot counters, desktop settings | update at boot, roll back, first-run path, tools |

### What is hard, and what makes each part correct

- **Executions against everything else.** Verdicts, requeues, decisions of the
  Master and a person's cancellation land between any two awaits of an
  execution. *A row is moved only by the execution that owns it; a cancelled
  task goes no further; leases hold from acquisition to commit.*
- **Verdicts.** They are posted once, may be lost, late, or about an older
  commit. *A verdict moves only who waits for it; who waits has a verdict
  coming; what is merged has booted, and stays as it was merged.* (Of these the
  code keeps some, and some but for the cases below.)
- **Crashes and restarts of the worker.** *No row stays in progress for ever,
  and the concurrency limit survives.*
- **Liveness.** Put-backs and lease conflicts consume no attempt. *Every
  queued task ends, and a question gets its answer.*
- **One worker at a time.** The lock is read, then written. *Two workers do
  not execute at the same time, or not for long.*
- **The wire.** *What the browser calls a page is the whole page, and every
  fetch past connecting ends.*
  Several servers and two resolvers share one inbox. *An answer is read as the
  answer to its own question, and the address is that of the offer accepted.*
- **The disk.** *Power may go at any write: a file is the old one or the new
  one, and a slot that boots is named.* Its cache writes in any order between
  two flushes, and its controller works on after the driver gave up.
- **Shared rings.** Handlers and cards are on the other side of them. *No event
  waits for the next one, and no frame is sent twice or overwritten.*
- **Records.** *However a TLS stream is cut, both sides stay at the same point
  of one conversation.*
- **The person and the clock.** Clicks fall while animations run and pages are
  on their way, and each event repaints only what it says. *A window stays that
  was asked for, what comes answers the last question, and the screen shows
  what painting all of it would* (but for the places named below).

The full list of hazards, each at its line and with the properties that cover
it, is in `PROJECT.json` ("hazards").


## Modules

    TaskLifecycle   <- MC_TaskLifecycle, TaskLifecycle_proofs
    WorkerLock      <- MC_WorkerLock, WorkerLock_proofs
    HttpFetch       <- MC_HttpFetch, HttpFetch_proofs
    FatFs (implements AtomicFiles) <- MC_FatFs, FatFs_proofs
    KernelUpdate <- KernelUpdate_proofs, MC_Kernel
    KernelPages (implements BrowserHistory) <- MC_Kernel
    KernelFiles, KernelDesktop, KernelScreen <- MC_Kernel
    KernelFiles, KernelDesktop, KernelPages, KernelScreen <- KernelDesk_proofs
    KernelNet, KernelCard, KernelTls, KernelInput, KernelDisk, KernelMemory <- MC_Devices
    KernelNet, KernelCard, KernelInput, KernelDisk, KernelMemory <- KernelDevices_proofs
    KernelTls <- KernelUpdate_proofs
    FoldLemmas <- FatFs_proofs, KernelDesk_proofs, KernelDevices_proofs, KernelUpdate_proofs (an INSTANCE for each operator folded)

An MC module gives the constants of its module their values; a `_proofs`
module holds the theorems. Mutants (`X_Something`, defined before `X`) stand
beside the definition they change and are used by nothing else.

### TaskLifecycle: the life of a task

The database rows, the one worker that runs, the two CI workflows, the verdict
trigger and the merge pass. The executor of a task is a small program counter,
`phase`: every `await` of `executeTask` that reads or writes shared state ends
one action and begins another, so a verdict, a person or a crash falls between
any two.

| In the model | In the code |
|---|---|
| `status`, `attempt`, `failure`, `lease`, `green`, `mission` | columns of `tasks`, `leases`, `runs`, `missions` |
| `slots`, `started`, `phase`, `answer`, `closing` | locals and promises of `dispatchWorkers` and `executeTask`; lost in `Crash` |
| `head`, `content` | the task's branch: its last commit and the areas its commits touched |
| `jobs`, `posts` | workflow runs, and verdicts on their way to the `runs` table |
| `Start` (with `RequeueOrphans`), `BeginDispatch`, `Claim`, `StopDispatch`, `ClaimThrows`, `PutBack`, `Throw`, `Block` | `worker/src/index.ts`: `main`, `dispatchWorkers` |
| `Choose`, `FailAttempt`, `EndFailure`, `Acquire`, `Commit`, `Release`, `ParkOnGap`, `Record` | `worker/src/executor.ts`: `executeTask`, `failTask`, `recordFailure`, `attemptPatch` |
| `LoseWrite` | every update or release of the two files whose returned error nobody looks at |
| `Judge`, `LosePost`, `Deliver` | `verify.yml`, `linux.yml` (head check, post), the triggers of `0009_verdict_guard.sql` |
| `Propose`, `Escalate`, `Resume`, `Merge` | `master.ts` (what its cycle does to task rows and the mission), `merge.ts` |
| `Expire` | the recycling of leases older than their TTL in `acquire_leases`, whatever their holder does |

A failed execution ends in two writes, the row and then the leases: between them
it is in `closing`, and its row may already be claimed again. A claim that throws
(`ClaimThrows`) may have been made in the database: its row is then in progress
and nobody's.

`parked` and `quiet` are history variables: why a task was blocked, and which
attempts have no verdict to come, which the database does not keep. `Hazards`
names what may go wrong in an instance and `MaxFaults` bounds how often it does.

### WorkerLock: one worker at a time

Several worker processes, their lock row, and the rows they claim; a task here
is only ready, in progress or done. `Decide` and `Take` are the read and the
unconditional upsert of `acquireLock`; `Heartbeat` is the guarded update;
`RequeueOrphans` hands back the rows claimed before the process took its
`startedAt` (`older`), and may fail, which is only logged. Launchers start
workers for ever: `Instances` are the names processes bear, and a name neither a
live process nor the lock bears is given again. Time goes in ticks: a worker
that is awake never misses a heartbeat (`Tick` waits for it), one that sleeps
may. Clocks that disagree are a hazard (`skew`): a lock looks older or younger
than it is, and `older` misses a row or has one too many.

### HttpFetch: a page over a wire that cannot be trusted

`kernel/src/http.rs` with the resolver of `dhcp.rs` that it asks. The wire is
three sets (`syns`, `requests`, `segments`) from which nothing is removed:
what is in a set may be received never, once or often, and in any order, so
loss, repetition and reordering need no action of their own. A segment of data
is known by its connection and its number, as in the code by its ports and
sequence number. `Poll` groups the actions of one turn of `Fetch::poll` that do
not need a segment; `Receive` is one segment of the inbox. The server is
external: it may answer, forget, reset or fall silent.

### FatFs and AtomicFiles: files when the power goes

`write_file`, `make_dir` and `remove` of `kernel/src/fat.rs`, each as the
sequence `todo` of the sector writes it makes, with `Crash` between any two.
The disk is `fat` (every copy of the table), `data` (what clusters hold) and
`count` (FSInfo). What a path shows is computed from the disk the way
`directory`, `chain` and `long_name` do. `AtomicFiles` is the promise of the
file's header: a call does what it was asked to one path, or nothing. FatFs
implements it (`AtomicCalls`, a refinement) with `tree <- shown`, the tree a
reader saw when the last call ended, and `request <- asked`.

### The kernel, part by part

The kernel's modules are checked in two compositions: `MC_Kernel` for what the
person sees, `MC_Devices` for what the kernel does with its devices. The parts
of a composition write no state of one another (what one needs of another is
one of its inputs), so interleaving them would show nothing that each alone does
not: a behaviour chooses one (`part`) and leaves the others at rest.

**KernelUpdate** (`install.rs`, `update.rs`, `storage.rs`, and what `main.rs`
and `desktop.rs` do for them). A build is its stamp. The disk is its two slots
and the default entry, each with what a read gives (`seen`) and every value the
platters may hold if the power goes now (`may`): a write adds to `may`, a flush
leaves `seen` alone, `PowerOff` picks any. `ClickCheck`, `StartCheck`,
`CheckAnswered` and `Advance` are the check and its patience; `ClickInstall`,
`StartInstall`, `ManifestCame`, `SignatureCame`, `KernelCame` and `FetchFails`
the download; `WriteBegins`, `WriteEnds`, `FlushKernel`, `SwitchDefault`,
`FlushDefault`, `RereadDefault` and `DiskFails` the writing, step by step: the
default entry is read again after the last flush, and that read may fail with
the default already switched. `Locate` is the search
for the boot disk by its MBR signature.

**KernelFiles** (`fs.rs`, `shell.rs`, the explorer and the notepad of
`desktop.rs`, `security.rs`). The tree is a set of entries with their paths; the
shell's commands, the explorer's new folder, the notepad's save and the scan
with its quarantine are its actions. `Alike` is the names that begin with the
quarantine's, which the scan passes over, as it compares the path's beginning.
`astray` is history: `make_dir` makes a directory below a file.

**KernelDesktop** (`desktop.rs`). A click is on a thing that is drawn, a key is
a key, and `AdvanceMotions` is a turn of the loop that ends animations. `asked` is history: the person wants the
window there.

**KernelPages** (`desktop.rs`, `main.rs`). The person visits, goes back and
forward, reloads or resizes between two turns; a turn moves the fetch, takes the
address waiting, hands back what came and lays the page out, in the order of the
loop. How a fetch ends, and whether it does, is HttpFetch's. It implements `BrowserHistory`: a row of pages visited and a place in it.

**KernelScreen** (`desktop.rs`, `fb.rs`, `anim.rs`). A grid of a few cells
instead of pixels. Each event changes something and declares the rectangle that
its code declares; a frame paints under the union of them, over what the buffer
held, presents it and puts the pointer back. Unions, intersections, growth and
the easing of animations are the code's, with cells for pixels. The clock has
several widths, and windows list the names a terminal changes.

**KernelNet** (`net.rs`, `dhcp.rs`). DHCP servers, a name server and neighbours
are external; the wire is a set from which nothing is removed. The table of
addresses, the datagrams kept, the DHCP exchange and the resolvers are the
code's, each poll an action. A question takes any number, one in use included;
`reused` is history: it happened.

**KernelCard** (`e1000.rs`): both rings, with the card moving its head between
any two steps of the driver. **KernelTls** (`tls.rs`): records and messages in
halves, fed as many at a time as may be; keys are the transcript they come from.
**KernelInput** (`idt.rs`, `ps2.rs`, `events.rs`, `main.rs`, the decoders):
the controller holds bytes, interrupts come late or never, the timer sweeps;
`pop` is its reads and its store, and the loop looks again with interrupts off
before it halts. **KernelDisk** (`ahci.rs`): a call is cut in commands through
one buffer, the controller moves sectors in its own time, and an error leaves
the port stopped. **KernelMemory**
(`memory.rs`, `paging.rs`, the choice of the heap in `main.rs`): frames of a
memory map, allocation, release, and `map` creating the tables it misses, in an
address space where the bootloader has entries of its own, large pages (`Huge`)
among them.

## Runs

| Run | Shows | Bounds |
|---|---|---|
| `lifecycle_faults` | types; a row is moved only by its executor; the concurrency limit holds; what was merged is neither reopened nor given another commit; a task waits for nothing only if its verdict came early or was lost, or no workflow judges it; a cancelled task is never carried forward | 2 interchangeable tasks of writers on one path, every kind of answer, work on the kernel, on docs or under `tests/`, 2 attempts, 2 slots, any one of 9 faults |
| `lifecycle_work` | leases held from acquisition to commit; no answer wasted on a lease conflict | 3 tasks, one overlapping two disjoint ones, 2 attempts, 2 slots, no fault |
| `lifecycle_live` | every queued task ends; a live worker executes every row in progress | 2 tasks on one path, of a writer and of a verifier, work on the kernel or none, asked for the CI or not, a crash or a throw |
| `http_fetch` | types; announced pages are shown whole; the page shown is the one asked for; every fetch past connecting ends | 2 pages asked for, 1 redirect, 2 connections, 2 ports, pages of 1 to 3 segments of which 2 are kept |
| `lock_timely` | types; what a worker that takes the lock hands back, nobody who holds the lock executes | 3 names started for ever, 2 tasks, any two crashes or calls that do not reach the database |
| `lock_live` | two workers do not run side by side for ever; some worker works again and again as long as processes are started | 3 names started for ever, 1 task, any one of 5 faults |
| `fat_plain` | types; nothing points at garbage; every call is atomic across a crash | 4 clusters, 2 slots each, a file in the root and one in a directory, 8.3 names |
| `fat_books` | every call does what it was asked; tables, count and entries agree | 7 clusters, 3 slots each, three names of which two are long, no crash |
| `kernel_desk` | types of the five parts; only the other slot of the boot disk is written; a power cut leaves a default entry that starts; windows stay; the screen is what a full repaint would show, but in three places that are named; a scan loses no text; Back and Forward walk the pages visited; what comes answers the last page asked for, and no page is left loading with nothing on its way | 4 builds of which 2 published, 3 disks of which 2 share a label and 2 a signature; 2 applications; 3 pages and 3 visits; paths of 3 names; 3 windows, 2 widths of the clock, 5 x 4 cells and 3 events on the screen |
| `kernel_net` | each resolver reads its own answer, as long as no number in use was drawn; the address is that of the offer accepted; frames go and come once and in order; a TLS stream cut anywhere is understood; packets and keys stay in step and no event waits; a transfer that succeeds moved the right sectors; every frame of memory has one owner | 2 resolvers, 2 DHCP servers, an inbox of 1 datagram; rings of 3; 6 frames; 2 data records; 3 sectors, 2 to a command; 3 memory maps, tables of 2 entries on 3 levels |

and two runs that end in a violation, one for each finding (below).

`kernel_desk_more` checks more properties of the composition of `kernel_desk`,
which hold: `InstalledIsTrue`, `NoneUnreachable`, `NobodyShutOut`,
`ChosenIsShown`, `CheckingEnds` and `NewNoteIsNew`. So do, put in place of those
of `kernel_net`, the types of the devices (`DevicesTypeOK`), `PagesStay` and `OthersUntouched`; and
`ShownIsHere` and `ScrollInRange` of KernelPages in `kernel_desk`.

**Why the bounds are enough.** The interesting cases need two tasks that share
a path and a third that does not; two attempts, so that a second one meets what
the first left; one fault, since every fault is a single event and the
restarts it causes are free; two conversations and a port that comes round; a
directory that must grow, with a free slot left by a removal and a name that
needs more slots than it leaves. `MaxFaults`, `MaxConnections`,
`LastCluster` and `MaxAttempts` are the bounds; the commits of a task are
bounded by its attempts. The FAT configurations set `CHECK_DEADLOCK FALSE`
because a disk that is full refuses every call and a refusal is not a step; the
kernel's, because the wire, the devices and the person of a bounded behaviour
run out of things to send, and a machine that was shut down stays off.

In the kernel, the interesting cases need a disk that is not ours under our
label and one that cannot be read under our signature; a build made by hand,
which is on no list, and one older than what runs; two servers whose offers
cross and a second datagram that finds the inbox full; a ring that wraps twice;
a message shared by two records and a record with two messages; a call of two
commands; a region of memory that begins and ends within frames; three windows
that overlap, one of which lists what another changes, and three events between
two frames. In `kernel_net` a behaviour is not followed past the first question
whose number was in use (`NumbersApart`, a constraint), as the one property that
numbers matter to says nothing after it; the two resolvers are interchangeable,
and so are the names they ask for (`NetSymmetry`). `Patience`, `MaxVisits`,
`MaxTyped`, `Depth`, `MaxEvents`, `QueryIds`, `MaxFrames`, `MaxData`,
`MaxPackets` and `MaxCodes` are their bounds.

**Fairness.** `TaskLifecycle!Fairness`: the steps of the executor, the start of
the worker (its launcher restarts it), the CI's jobs, the delivery of verdicts
and the recycling of leases are weakly fair: they are the code's own loops and
timers. `Claim` is strongly fair: a dispatch stops early when no model is
available, and an outage ends. Nothing is assumed of the Master, of a person or
of crashes. `HttpFetch!FairSpec`: the main loop polls and the clock advances;
nothing is assumed of the network or of the server. `UpFairness`: the timer
wakes the loop, every turn of which calls `advance`, and a command to the disk
ends by its own patience. `WorkerLock!FairSpec`: time passes, every process
that was begun goes on (launchers start theirs again, timers fire, a machine
does not sleep for ever) and executions end. No run assumes that a fetch ends.

## Findings

Each is a run that TLC ends with a violation.

- **`lifecycle_v_merge`** (`MergedIsGreen`): any passed run of the task licenses
  the merge of whatever the head is now, that of the workflow which does not
  boot the kernel included (`worker/src/merge.ts:33`).
- **`fat_v_growth`** (`DirectoriesRead`): when a directory grows into a cluster of
  a later sector of the table, the link is written before the end mark, and a
  crash in between cuts off the directory (`kernel/src/fat.rs:747`).

The models have more properties that the documentation states and the code
does not keep. They stay in the modules with the configuration that finds the
counterexample, to be run by hand:

| Property | Configuration | What happens |
|---|---|---|
| `CancellationStands` | `lifecycle_v_cancel` | after the one read of `wasCancelled`, a put-back, a lease conflict or a failed attempt writes the row by id and the cancelled task returns to the queue |
| `OnlyGapsDiscarded` | `lifecycle_v_gap` | a task blocked on a question, whose earlier attempt left `spec_gap` in its row, is cancelled with the gaps |
| `DoneIsGreen` | `lifecycle_v_done` | a last attempt that touches nothing the CI judges is recorded done over a red kernel commit (`worker/src/executor.ts:225`), against `0005_ci.sql:49-50` |
| `VerdictIsOfHead` | `lifecycle_v_head` | a verdict posted just before a new push is applied to the task that waits for the new commit's |
| `QuestionIsResumed` | `lifecycle_v_question` | nothing writes `ready` on a blocked task: the answer resumes the mission only |
| `NewPortForRedirect` | `http_v_port` | a redirect that comes 7003 ms after its conversation began computes the same local port |
| `NobodyWaitsInVain` | `lifecycle_v_tests` | work under `tests/` alone waits for a verdict, and no workflow's paths include it (`worker/src/executor.ts:225`, `.github/workflows/verify.yml:15-20`) |
| `ConnectingEnds` | `http_v_connecting` | sending the SYN again restarts the clock of the step, so a fetch to a silent server never gives up (`kernel/src/http.rs:259`) |
| `OneBrain` | `lock_v_brain` | two workers started together both take the lock and work until the loser's heartbeat |
| `OrphansRunNowhere` | `lock_v_orphan` | a holder that slept through its takeover goes on executing what its successor requeues |
| `NothingStranded` | `lock_v_strand` | a rival that claimed a task after its successor started, then stops itself, leaves the row in progress until another start |
| `AnswerHolds` | `fat_v_names` | after a crash between the slots of a long name, the next entry takes the parts left before it for its own |
| `BooksBalance` | `fat_v_full` | a call that finds the disk full after it took its clusters returns its error and keeps them |
| `NamesGiven` | `fat_v_remove` | a crash during the removal of a file with a long name leaves it under its 8.3 alias |

and, in the kernel, with the property in place of those of `kernel_desk.cfg` or
`kernel_net.cfg` and the constants changed as said:

| Property | Change | What happens |
|---|---|---|
| `DefaultAlwaysStarts` | | the machine was started from the slot that is not the default: installing overwrites the default one, and a cut in the middle leaves an entry that does not start (`install.rs:231`) |
| `EveryFileScanned` | | a directory made below a file is out of every walk's reach, the scan's included |
| `LockClosesMenus` | | the lock leaves the menu open under it, and it is there again afterwards |
| `NothingIsBehind` | `Windows <- TwoWindows` | a clock that gets narrower repaints its new rectangle only (`desktop.rs:573`) |
| `NothingIsBehind` | `Clocks = {1}` | the terminal changes files, and the window that lists them is not repainted (`desktop.rs:3073`) |
| `MenuUnfolds` | `FrameTime = 2` | the last frame of the unfolding comes before its end, and none after it (`desktop.rs:593`, `626`) |
| `SplashClears` | `FrameTime = 2`, `SplashTime = 3`, `WakingTime = 4` | the frame after the fade falls beyond the last one that repaints everything (`desktop.rs:595`, `607`, `1383`) |
| `ClosingShrinks` | | a closing window's animation goes from its area to its area: it never shrinks (`desktop.rs:857-862`, comment at 842) |
| `FailsOnlyUnanswered` | `Tries = 2`, `DatagramLimit = 2`, one resolver, one name | a refusal read in the same turn after an acknowledgement: the exchange is given up with the address in use, and never begun again (`dhcp.rs:205`) |
| `NeverFull` | | a card a whole ring behind is handed all of it: head and tail meet, which to the card is an empty ring (`e1000.rs:117`) |
| `TransferIsTrue` | `Slow = TRUE` | a command that outlives `PATIENCE_MS` moves the buffer the next call has filled (`ahci.rs:333-339`) |
| `AllIsUnderstood` | `Asides = {"ticket", "update"}` | a change of keys by the server is ignored, and its next record does not open (`tls.rs:332`) |

The last four need a server, a card or a disk out of the ordinary.

Two more fail without any fault and have no configuration of their own.
`NoDoubleExecution` of WorkerLock, in `lock_timely`: two workers race at the
start, the one that overwrote the lock stops, and a third starts, takes over and
claims what the other still executes until its next heartbeat. What does hold is
`HolderKeepsItsTasks`: who executes such a task has lost the lock before.
`NobodyWaitsInVain`, of a task that waits with no verdict to come, fails in
`lifecycle_faults` also when the verdict comes before the row is written
(`executor.ts:277`) or its one post is lost (`verify.yml:463`);
`AwaitingHasJudge` names these three cases and says there is no other.

## Proofs

All theorems hold for every value of the constants that satisfies the
assumption of the module: any finite set of tasks, any paths and footprints,
any answers, attempts, slots and faults; any patience, port arithmetic,
answers, pages and connections; rings, disks, memory maps and trees of any
size. Where a theorem assumes more, `ASSUME` says it, and the assumption is one
that a fault or a configuration of the first table of findings breaks.

**TaskLifecycle_proofs.** `TypeCorrect` is by cases on the actions. On it rest

- `RowsAreOwned` (`ExecutionOwnsRow`), inductive with the types: each action
  that writes a row either belongs to its executor, or has a guard that the row
  is in a state no executed row is in (the trigger: `awaiting_verification`;
  the claim: `ready`), or kills every executor first (`Crash`, and `Start`
  after it);
- `CancelledStopsThere` (`CancelledNeverAdvances`), an action property, by
  cases;
- `InFlightIsBounded` (`InFlightBound`), from the cardinality facts of finite
  sets: a dispatch counts its slots from `InProgress`, a claim moves one from
  the first to the second, and nothing else makes either larger;
- `MergedStays` (`MergedStands`): a merged task is done and nobody executes it
  or may claim it, and a done row is written by nobody (`DoneStays`): not by the
  trigger, which looks for `awaiting_verification`, and not by the failure that
  is still to release its leases, which writes no row;
- `AwaitingIsJudged` (`AwaitingHasJudge`), for every hazard and answer. The
  invariant follows a commit: from the push to the record its jobs or posts are
  of the head, or the task is `quiet`; a push that cancels the runs of the former
  head starts its own or makes it so.

These hold for every set of hazards. Those that follow name the hazards they do
not hold with:

- `LeasesAreHeld` (`LeaseHeldWhileWriting`), when no claim throws and no commit
  outlasts its TTL (`LeaseAssumption`). A claim that throws lets the next
  dispatch start the same task beside its own failure, whose release then takes
  its leases; without it, the tick awaits every execution and every failure
  (`Awaited`), and a release gives back the releaser's own. `WritersExclude`
  (`ExclusiveCommit`) follows;
- `NothingIsOrphaned` (`NoOrphan`), when no write is lost and no claim throws:
  every transition out of an executor's last phase also takes the row out of
  `in_progress`;
- `NoAnswerIsWasted` (`NoWastedAnswer`), when no worker dies, no claim throws
  and no write is lost (`SpareAssumption`): who executes has been counted as
  started, no two that overlap execute at once, and a lease is that of an
  executor that took it;
- `PostsAreFresh` and `VerdictsAreOfTheHead` (`VerdictIsOfHead`), when the
  post of a verdict is not overtaken by a push (`PromptAssumption`), which is
  the case `lifecycle_v_head` is about.

Of `DoneIsGreen` and `MergedIsGreen` nothing is proved: the code keeps neither.

**WorkerLock_proofs.** `LockTypeCorrect`, for any number of workers.
`TakeoverSparesTheHolder` (`HolderKeepsItsTasks`), for any number of them
started any number of times, is under two assumptions: no sleeping machine, no
claim that nobody waits for and clocks that agree (`AwakeAndWaited`;
`lock_v_orphan` and `lock_v_strand` are the first two), and a presumption of death
that outlasts the heartbeats that may fail (`InTime`, which 20 s and 90 s give
for one fault). It is a race of clocks: `LockIInv` bounds the age of the lock by
the time since the holder's last heartbeat and the faults so far
(`HolderIsHeard`), so that whoever reads the lock of a live worker finds it
young, and takes nothing.

**HttpFetch_proofs.** `TypeCorrect`, `PagesAreWhole` (`WholePage`) and
`PagesAreRight` (`RightPage`). Neither page property is inductive: both speak
of the moment a page is shown and depend on all that was received before. The
invariant proved has four parts:

- `WireInv`: what is on the wire belongs to a connection, and data to one whose
  answer is settled and is as long as its last segment;
- `TakenInv`: what is kept is exactly the first segments of one answer, and
  `acknowledged` names the next;
- `PortsInv`: a connection's port is that of a SYN, and a SYN's that of this
  conversation or of an earlier one;
- `UrlInv`: on a port that no earlier conversation had, only the page asked for
  last is asked for and answered.

The lemmas follow the code: what `begin`, `finish` and giving up do to the
invariant (`BeginPage`, `FinishPage`, `FailPage`), what a segment does
(`ReceivePage`), and what a server that only adds connections and settles
answers does (`Grown`, `GrownPage`).

**FatFs_proofs.** `NothingPointsAtGarbage` (`NoGarbage`) and `DiskTypes`
(`TypeOK`), for every size of the partition, of a cluster and of a sector of the
table, every number of copies, all names and contents, with the power going or a
call given up at any write. One step is excluded, the one of the finding
`fat_v_growth`: `add_entry` is reached in a full directory whose last cluster has
its cell in a sector of the table before that of the first free cluster
(`GrowsAcross`); a behaviour that never gets there is sound throughout. On a
partition whose table is one sector, as in the runs, it cannot get there, and
`OneSectorIsSafe` excludes nothing.

`NoGarbage` speaks of the disk between two writes, and whether it survives the next
write depends on which write that is: the link to a cluster is harmless after the
cluster was stored and its cell written, and not before. So the invariant
(`Inv`) is of the disk and of what is left of the call:

- `DiskOK`: every directory reads and ends where its end marker says, every entry
  has its clusters, no cluster belongs to two; of the first copy of the table,
  which is the one that is read. It is an equation about chains: a list of
  clusters that a table links to its end (`Run`) is what the driver's walk finds,
  which takes no more steps than there are clusters (`LinkedIs`, `ChainRuns`).
- `Plan`: what is left is one of eight plans. Chains are made of clusters nobody
  has (`Making`); then an entry is to be added (`Adding`), or that of a file given
  the new chain and the old one freed (`Replacing`); an entry is written into
  vacant slots, its name first and itself last (`Patching`), in a directory that
  may get a cluster before (`Growing`); slots of an entry are deleted, itself last
  (`Removing`); a chain nobody has is freed (`Releasing`); or nothing that is left
  matters (`Ending`). A plan says what it relies on: that the chain is nobody's, that
  the slots are vacant, that the cell of a new cluster is written before or with
  the link to it.

`PlanGoes` is the step: the first write of a plan leaves a sound disk, and the
rest is a plan again; it holds of each of the eight (`MakingGoes`, `GrowingGoes`,
`PlacingGoes`, ...). Three writes are computed when they are reached, from what
the disk has become: `add_entry` (`AdditionGoes`), `free_chain`, and the calls
themselves (`WriteGoes`, `MakeDirGoes`, `RemoveGoes`). A crash or an error
only forgets the plan. The lemmas under these say which clusters a change of the
table, of a slot or of a block can concern (`Alike`: the directories, the
entries and the chains they had), what `allocate` gives and which sectors `flush`
writes, in which order.

**KernelUpdate_proofs.** Under `OneSignature` (no other readable disk has the
boot disk's signature, without which the search for the boot disk may answer
another one): `UpTypeCorrect`, `OtherSlotOnly` (`OnlyTheOtherSlot`),
`CutsAreSafe` (`DefaultStarts`) and `ToldIsTrue` (`InstalledIsTrue`). None is
inductive: what the platters may hold depends on how far the writing is. The
invariant adds `DiskInv` (a read gives one of the values that a cut may leave,
and the slot in use has one only), `InstallInv` (at each step of the writing, what
`may` of the target and of the default entry are) and `ToldInv` (what was said
stays true until the next installation begins). Each write, flush and power cut
is a case.

**Of the TLS client**, in the same module: `StreamsAreUnderstood` (`AllIsUnderstood`) and
`StreamsComeInOrder`: never in error, and what it has is the first of what was
sent. Both hold as long as the server does not change its keys; a change of keys
is passed over (above). The property speaks of a stream that has been fed whole,
and says nothing of one in the middle. The invariant does: there are clients,
one after each record that is on the wire, each made from the one before by
`Took`, the first of them the client as it is, and the last in step with
the server (`Reading`, `Synced`). Feeding, however much, moves along the row
(`FeedKeeps`), as `feed` is a fold of `Took`; what the server does adds one
(`SpeaksKeeps`). That a client in step stays so is a case for every record:
the hello, the flight cut anywhere, data, a ticket, the end (`TookHello`,
`TookFlight`, `TookData`), the two with messages by the fold of `Heard` over
the halves that have met (`MessagesAre`).

**FoldLemmas.** The code loops over sequences, and the models fold. The library's induction
takes an operator, which the provers cannot instantiate; this
module states it of sets (`NatSet`), and derives what a fold keeps
(`FoldKeeps`) and how it goes, element by element (`RunEnds`, `RunGoes`), of an
operator that is a CONSTANT: a module that folds takes an INSTANCE for it.

**KernelDevices_proofs.** One invariant for each device.

- Disk: `TransfersAreTrue` (`TransferIsTrue`) and `OthersAreUntouched`, under
  `~Slow`, no command outlasting the patience of the driver. `DiskIInv`: the
  order of the controller is the piece the call is at, what it has moved is
  equal on both sides of the buffer (`Carries`), and what the call has finished
  is equal on the disk and in its data (`Moved`).
- Card: `FramesStayInOrder` (`FramesInOrder`). `CardIInv` says for both rings,
  by the distance of a descriptor from the head (`Gap`), which side owns it and
  which frame it holds. What the driver counts (`accepted`) and what left
  differ by exactly the descriptors that are not done.
- Input: `DecodersStayInStep` (`InStep`) and `NoEventLeft` (`NoEventWaits`).
  `InIInv` follows every byte: what a decoder was not given yet is in the ring
  and then in the controller, each number once and in order (`Mixed`), the word
  read before the tail moves is still the first (`Reading`), and what was given
  has been decoded (`Turned`, `Packed`). A handler's pushes are a fold, and a
  ring that goes round is read from its tail (`PushIs`, `PopIs`). That no event
  waits is that the look and the rest are made with interrupts off.
- Network: `AddressStaysOurs` (`AddressIsOurs`) and `AnswersAreOnesOwn`
  (`EachItsOwnAnswer`). `NetIInv` speaks of everything in flight, on the
  wire or kept: an acknowledgement is of the server whose offer was taken
  (`Confirmed`), and a number that is a resolver's is of its last question, as
  long as none in use was drawn (`Numbered`).
- Memory: `FramesHaveOneOwner` (`OneOwner`) and `PagesStayMapped` (`PagesStay`),
  for memory maps whose usable regions do not overlap, which the boot protocol
  promises. `MemoryIInv`: the stack of free frames has none twice, the tables are a
  forest, and free, table and handed out exclude one another; the frames a
  region gives are whole and lie in no other. That `map` moves no page follows
  the walk from the root, level by level (`RunGoes`).

**KernelDesk_proofs.** `WindowsStayOpen` (`StaysOpen`), `NobodyIsShutOut`
(`NobodyShutOut`), `ChosenRowIsShown` (`ChosenIsShown`), `NewNotesAreNew`
(`NewNoteIsNew`) and `ScansKeepTexts` (`ScanKeepsTexts`). `FilesIInv`: the tree
is finite and has one entry of a path. It is finite because every walk makes
finitely many, and the free name that a new note or a caught file takes exists for
that reason (`FreeNameIsName`). Of the browser, `LastIsAnswered`
(`AnswersTheLast`), from `FetchInv`: the address waiting is the last page asked
for, and when none waits the fetch has it; and `HistoryIsWalked`
(`WalksHistory`): the refinement of `BrowserHistory`, whose lemmas say what each
step of the two trails does to the row they make (`RowFacts`, `RowBack`,
`RowForward`, `RowElsewhere`, `RowInPlace`).

Of loading, `LoadingStaysUnderWay` (`LoadingIsUnderWay`): a page said to
be loading waits, or is being fetched with its news still to come.

Of the screen, `ScreenStaysTrue` (`ScreenIsTrue`): for every size of it, list
and place of the windows, widths of the clock, length of an animation and number
of events, a screen at rest shows in each cell what painting everything would,
and the pointer once. It excepts the cells where the code declares less than it
changes: the part of the menu that unfolds, the strip a wider clock may have
left (`desktop.rs:573`), and a window that lists the names the terminal
changes (`desktop.rs:3073`). `ScreenTypes` is the types. At rest is the end of the argument,
not the middle, and `ScreenInv` speaks of the middle: as long as no window
moves, a cell of the back buffer that is not to be repainted shows what `Paint`
would put there (`Painted`); the front buffer is the back buffer with the
pointer on it where it was last put (`Presented`). A step that
precedes the frame is `Quiet`: what it does not declare looks as it did
(`Remains`), a case for every event; a window that begins or ends an animation
declares the whole screen. The frame repaints what was declared (`FrameIs`).
Under them, the layers are a pile compared from the top (`AlikeThere`), unions
and intersections are compared cell by cell (`UnionIs`, `OnScreenIs`), and the
easing of the menu stays inside the menu (`UnfoldedIs`).

**Model-checked only.** Liveness (`EveryTaskSettles`, `FetchSettles`,
`RivalsDoNotLast`, `BrainComesBack`, `CheckingEnds`): fairness is
out of the prover's reach. `AnswerHolds` and `AtomicCalls` of FatFs, which rest on
the name an entry shows under: a selection of the slots before it (`SelectSeq`),
which the prover does not define; and `BooksBalance`, which counts the clusters
that a plan of several parts will have taken. `AnswerHolds` and `BooksBalance`
hold where no machine stops and there is room (`fat_v_names`, `fat_v_full`).
Of the types of `MC_Kernel` those of the update and of the screen are proved
(`UpTypeCorrect`, `ScreenTypes`); those of the windows rest on `SelectSeq`,
which the prover does not define.

## What is left out

- `Propose` supersedes and inserts in one step; the two-step `acquire_leases`
  and the two-step trigger under READ COMMITTED are planned modules. Two failures
  of one task whose leases are still to be released count as one in `closing`.
- The count of rows in flight that comes back as an error is taken for zero by
  `count ?? 0`; an agent that is not known; both are configuration errors.
- HttpFetch has no TLS branch, and an inbox that overflows is a loss like any
  other. An answer delimited by the end of its connection may be cut short: the
  code cannot know, and `WholePage` does not speak of it.
- WorkerLock bounds a disagreement of clocks by what it does to two comparisons
  (the age of the lock, and which rows are older than the start), not by how
  long it lasts.
- FatFs gives the disk no cache: a write that is made is kept. The order the
  driver relies on has no flush between its steps. Overwriting a file in place
  (`overwrite`, used by updates) is in KernelUpdate, which has a cache. A long name of
  exactly 13 characters per slot has no terminator (`Full`): the name of the
  directory the storage test makes at every boot, `essai-dossier`, is one.
- KernelUpdate takes a fetch by how it ends, and a signature as good or bad.
  KernelNet has no checksum and no ping. KernelTls checks no certificate, as the
  code does not. KernelDesktop has no geometry (KernelScreen has it) and
  `StaysOpen` says nothing of a window opened again while it closes, which the
  end of the animation does close (`desktop.rs:830-842`). KernelScreen has three
  windows of eight, no glyphs, and not the caret of a window that is not in
  front.
- Seen while modelling, and in no property: Enter twice on the page of accounts removes the
  password (`desktop.rs:3127`); Enter in a menu with no row left starts the
  first item (`desktop.rs:3164`); a page loaded after a redirect overwrites the
  address being typed (`desktop.rs:676`); any error of the disk reads as "no
  settings file" (`storage.rs:71`); files caught under one name overwrite one
  another in quarantine (`security.rs:264`); datagrams nobody reads crowd out
  answers (`net.rs:393`); the codes of a fake shift set the shift
  (`keyboard.rs:96`).
- Not modelled: prompts, the sandbox's file access, the dashboard, HTML and
  layout, cryptography, the bring-up of devices, the heap, the Debian tools (see
  the notes of the components in `PROJECT.json`).

## Plan

In this order, the parts whose order of events matters most first:

1. **Leases**: `acquire_leases` as its statements under READ COMMITTED (expire,
   look for conflicts, upsert), with the serial one as its specification;
   **VerdictTrigger**: the trigger's read and its update by id, the same way.
   TaskLifecycle takes both as one step; these modules say when it may.
2. **MasterCycle** and **Intake**: what is read before the model answers and
   written after (missions, messages, drafts), with a person writing meanwhile.
3. **Router**: cooldowns, the per-minute gate and concurrent panels.
4. **BootUpdate**: the boot counters and snapshots of the Debian edition.
5. Pure algorithms, against reference definitions over bounded inputs: path
   overlap, chunked bodies, the choice of a base branch, the words of HTML.
6. **Factory**: TaskLifecycle over Leases and WorkerLock, and a **TaskContract**
   that the lifecycle implements. **Browser**: KernelPages over HttpFetch and
   KernelTls instead of a fetch reduced to how it ends.

Theorems to come: `AnswerHolds` and `BooksBalance` of FatFs where no machine stops;
`NothingStranded` of the lock where no claim is lost; the serial specification of Leases and of the trigger as refinements.
