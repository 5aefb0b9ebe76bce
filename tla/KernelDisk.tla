------------------------------ MODULE KernelDisk -----------------------------
(***************************************************************************)
(* The AHCI driver (kernel/src/ahci.rs): one command at a time, in slot 0, *)
(* through one bounce buffer, and a wait that gives up.  The controller    *)
(* and the disk are external: they move a command's sectors one by one, in *)
(* their own time, between the buffer and the platters.  When the driver   *)
(* gives up, they do not.                                                  *)
(***************************************************************************)
EXTENDS Naturals, Sequences

CONSTANTS Sectors,     \* the disk's size
          Stuff,       \* what a sector may hold
          PerCommand,  \* PER_COMMAND, 128 in the code
          Slow,        \* whether a command may outlast PATIENCE_MS
          Faulty       \* whether the disk may report an error

ASSUME DiskAssumption == Sectors \in Nat \ {0} /\ PerCommand \in Nat \ {0} /\ {Slow, Faulty} \subseteq BOOLEAN

VARIABLES platter,
          bounce,
          order,  \* the command the controller carries out, and how far it is
          call,   \* the call of read or write: operation, first sector, data, how far, step
          result  \* of the last call

diskVars == <<platter, bounce, order, call, result>>

NoOrder == [ata |-> "none", lba |-> 0, count |-> 0, moved |-> 0]
NoCall == [op |-> "none", lba |-> 0, data |-> <<>>, at |-> 0, step |-> "none"]

DiskInit ==
    /\ platter \in [1 .. Sectors -> Stuff]
    /\ bounce \in [1 .. PerCommand -> Stuff]
    /\ order = NoOrder /\ call = NoCall /\ result = "none"

(***************************************************************************)
(* The controller and the disk                                             *)
(***************************************************************************)
Working == order.ata \in {"read", "write"}

DiskMoves ==
    /\ Working /\ order.moved < order.count
    /\ LET i == order.moved + 1
       IN  IF order.ata = "read" THEN bounce' = [bounce EXCEPT ![i] = platter[order.lba + i]] /\ UNCHANGED platter
                                 ELSE platter' = [platter EXCEPT ![order.lba + i] = bounce[i]] /\ UNCHANGED bounce
    /\ order' = [order EXCEPT !.moved = @ + 1]
    /\ UNCHANGED <<call, result>>

DiskEnds ==
    /\ Working
    /\ \/ order.moved = order.count /\ order' = [NoOrder EXCEPT !.ata = "done"]
       \/ Faulty /\ order' = [NoOrder EXCEPT !.ata = "error"]
    /\ UNCHANGED <<platter, bounce, call, result>>

(***************************************************************************)
(* The driver                                                              *)
(***************************************************************************)
Shorter(a, b) == IF a <= b THEN a ELSE b

\* check, then the first piece.
Call(op, lba, data) ==
    /\ call.step = "none"
    /\ IF lba + Len(data) > Sectors THEN result' = "refused" /\ UNCHANGED call
       ELSE result' = "none" /\ call' = [op |-> op, lba |-> lba, data |-> data, at |-> 0, step |-> "load"]
    /\ UNCHANGED <<platter, bounce, order>>

\* chunks: what is left, or a command's worth.
Piece == Shorter(PerCommand, Len(call.data) - call.at)

\* load_bounce, for a write.
Load ==
    /\ call.step = "load"
    /\ bounce' = IF call.op = "write"
                 THEN [i \in DOMAIN bounce |-> IF i <= Piece THEN call.data[call.at + i] ELSE bounce[i]]
                 ELSE bounce
    /\ call' = [call EXCEPT !.step = "issue"]
    /\ UNCHANGED <<platter, order, result>>

\* Mutant: pieces one sector apart.
FirstOf_Next(c) == c.lba + c.at \div PerCommand

FirstOf(c) == c.lba + c.at

\* command, up to CI: once the disk is not busy.  A port that has met an error
\* is never started again, and its error stays.
Issue ==
    /\ call.step = "issue" /\ ~Working
    /\ order' = IF order.ata = "error" THEN order
                ELSE [ata |-> call.op, lba |-> FirstOf(call), count |-> Piece, moved |-> 0]
    /\ call' = [call EXCEPT !.step = "wait"]
    /\ UNCHANGED <<platter, bounce, result>>

Ended(why) == call' = NoCall /\ result' = why

\* Out of patience: with the disk busy, or for the answer.
GivesUp ==
    /\ Slow /\ call.step \in {"issue", "wait"} /\ Working
    /\ Ended("no answer")
    /\ UNCHANGED <<platter, bounce, order>>

\* command, from its end; unload_bounce, for a read; the next piece.
Answered ==
    /\ call.step = "wait" /\ order.ata \in {"done", "error"}
    /\ IF order.ata = "error" THEN Ended("error")
       ELSE LET data == [i \in DOMAIN call.data |->
                            IF call.op = "read" /\ i - call.at \in 1 .. Piece THEN bounce[i - call.at] ELSE call.data[i]]
                at == call.at + Piece
            IN  /\ call' = [call EXCEPT !.data = data, !.at = at, !.step = IF at = Len(data) THEN "end" ELSE "load"]
                /\ UNCHANGED result
    /\ order' = IF order.ata = "error" THEN order ELSE NoOrder
    /\ UNCHANGED <<platter, bounce>>

Return == call.step = "end" /\ Ended("ok") /\ UNCHANGED <<platter, bounce, order>>

Transfers == UNION {[1 .. n -> Stuff] : n \in 1 .. Sectors}

DiskNext ==
    \/ DiskMoves \/ DiskEnds
    \/ \E lba \in 0 .. Sectors - 1, data \in Transfers : Call("write", lba, data)
    \/ \E lba \in 0 .. Sectors - 1, n \in 1 .. Sectors, v \in Stuff : Call("read", lba, [i \in 1 .. n |-> v])
    \/ Load \/ Issue \/ GivesUp \/ Answered \/ Return

DiskSpec == DiskInit /\ [][DiskNext]_diskVars

(***************************************************************************)
(* Properties                                                              *)
(***************************************************************************)
DiskTypeOK ==
    /\ platter \in [1 .. Sectors -> Stuff] /\ bounce \in [1 .. PerCommand -> Stuff]
    /\ order.moved <= order.count /\ call.at <= Len(call.data)
    /\ result \in {"none", "ok", "refused", "error", "no answer"}

\* A transfer that succeeds has moved every sector, and the right ones, in
\* however many commands; so has the part done of one that goes on.
\* Not so once a command has outlasted PATIENCE_MS: see the README.
TransferIsTrue ==
    call.step \in {"load", "issue", "end"} => \A i \in 1 .. call.at : call.data[i] = platter[call.lba + i]

\* A write touches no sector but its own, even when it fails.
OthersUntouched ==
    [][\A s \in 1 .. Sectors : platter'[s] # platter[s] =>
          call.op = "write" /\ s \in call.lba + 1 .. call.lba + Len(call.data)]_diskVars
=============================================================================
