------------------------- MODULE KernelDevices_proofs ------------------------
(***************************************************************************)
(* Proofs about what the kernel does with its devices and its memory: the  *)
(* disk, the network card, the keyboard and the mouse, the network stack,  *)
(* and the frames of memory.                                               *)
(***************************************************************************)
EXTENDS Integers, KernelDisk, KernelCard, KernelNet, KernelInput, KernelMemory, TLAPS

(***************************************************************************)
(* Sequences                                                               *)
(***************************************************************************)

(* A function on the indices of a sequence is a sequence of its length.    *)
LEMMA SameLength ==
  ASSUME NEW S, NEW s \in Seq(S), NEW t \in [DOMAIN s -> S]
  PROVE  t \in Seq(S) /\ Len(t) = Len(s) /\ DOMAIN t = DOMAIN s
<1>1. DOMAIN s = 1 .. Len(s) /\ Len(s) \in Nat
  OBVIOUS
<1> QED
  BY <1>1

(* What is taken out of, or put at the end of, a sequence.                 *)
LEMMA ToSetFacts ==
  ASSUME NEW S, NEW q \in Seq(S), NEW x \in S
  PROVE  /\ ToSet(q) \subseteq S /\ Append(q, x) \in Seq(S) /\ ToSet(Append(q, x)) = ToSet(q) \cup {x}
         /\ q # <<>> => Tail(q) \in Seq(S) /\ ToSet(Tail(q)) \subseteq ToSet(q)
<1>1. Append(q, x) \in Seq(S) /\ Len(Append(q, x)) = Len(q) + 1 /\ Append(q, x)[Len(q) + 1] = x
      /\ \A i \in 1 .. Len(q) : Append(q, x)[i] = q[i]
  OBVIOUS
<1>2. DOMAIN q = 1 .. Len(q) /\ DOMAIN Append(q, x) = 1 .. Len(q) + 1 /\ Len(q) \in Nat /\ Len(q) + 1 \in DOMAIN Append(q, x)
  OBVIOUS
<1>3. ToSet(Append(q, x)) = ToSet(q) \cup {x}
  <2>1. ASSUME NEW i \in DOMAIN Append(q, x) PROVE Append(q, x)[i] \in ToSet(q) \cup {x}
    <3>1. i = Len(q) + 1 \/ i \in 1 .. Len(q)
      BY <1>2
    <3> QED BY <1>1, <1>2, <3>1 DEF ToSet
  <2>2. ASSUME NEW i \in DOMAIN q PROVE q[i] \in ToSet(Append(q, x))
    <3>1. i \in DOMAIN Append(q, x) /\ Append(q, x)[i] = q[i]
      BY <1>1, <1>2
    <3> QED BY <3>1 DEF ToSet
  <2>3. x \in ToSet(Append(q, x))
    BY <1>1, <1>2 DEF ToSet
  <2> QED BY <2>1, <2>2, <2>3 DEF ToSet
<1>4. ASSUME q # <<>> PROVE Tail(q) \in Seq(S) /\ ToSet(Tail(q)) \subseteq ToSet(q)
  <2>1. Tail(q) \in Seq(S) /\ \A i \in DOMAIN Tail(q) : i + 1 \in DOMAIN q /\ Tail(q)[i] = q[i + 1]
    BY <1>4
  <2> QED BY <2>1 DEF ToSet
<1> QED
  BY <1>1, <1>3, <1>4 DEF ToSet

(***************************************************************************)
(* The disk                                                                *)
(***************************************************************************)
Calling == {"load", "issue", "wait", "end"}

DiskTypes ==
    /\ platter \in [1 .. Sectors -> Stuff] /\ bounce \in [1 .. PerCommand -> Stuff]
    /\ order \in [ata : {"none", "read", "write", "done", "error"}, lba : Nat, count : Nat, moved : Nat]
    /\ call \in [op : {"none", "read", "write"}, lba : Nat, data : Seq(Stuff), at : Nat, step : {"none", "load", "issue", "wait", "end"}]
    /\ order.moved <= order.count /\ call.at <= Len(call.data)
    /\ result \in {"none", "ok", "refused", "error", "no answer"}

\* A call stays on the disk.
Fits == call.lba + Len(call.data) <= Sectors /\ (call.step \in Calling => call.op \in {"read", "write"})

\* The controller works for the call under way, on the piece it is at.
Serves ==
    /\ call.step # "wait" => order.ata \in {"none", "error"}
    /\ Working => order.ata = call.op /\ order.lba = FirstOf(call) /\ order.count = Piece

\* How far the piece under way has come.
Reached == IF order.ata = "done" THEN Piece ELSE IF Working THEN order.moved ELSE 0

\* What the buffer holds of it.
Carries ==
    /\ call.step \in {"issue", "wait"} /\ call.op = "write" =>
          \A i \in 1 .. Piece : bounce[i] = call.data[call.at + i]
    /\ call.step = "wait" => \A i \in 1 .. Reached : bounce[i] = platter[FirstOf(call) + i]

\* The pieces before it are moved.
Moved == call.step \in Calling => \A i \in 1 .. call.at : call.data[i] = platter[call.lba + i]

DiskIInv == DiskTypes /\ Fits /\ Serves /\ Carries /\ Moved

\* A piece of a call lies within the call, and the call within the disk.
LEMMA Within ==
  ASSUME NEW size \in Nat, NEW lba \in Nat, NEW n \in Nat, NEW at \in Nat, NEW piece \in Nat,
         lba + n <= size, at + piece <= n, NEW i \in 1 .. piece
  PROVE  (lba + at) + i \in 1 .. size /\ at + i \in 1 .. n /\ (lba + at) + i \in lba + 1 .. lba + n
OBVIOUS

\* What the types and the bounds say, in one place.
LEMMA CallFacts ==
  ASSUME DiskTypes, Fits
  PROVE  /\ Sectors \in Nat /\ PerCommand \in Nat
         /\ call.at \in Nat /\ call.lba \in Nat /\ call.data \in Seq(Stuff) /\ Len(call.data) \in Nat
         /\ call.at <= Len(call.data) /\ call.lba + Len(call.data) <= Sectors
         /\ order.moved \in Nat /\ order.count \in Nat
         /\ Piece \in Nat /\ Piece <= PerCommand /\ call.at + Piece <= Len(call.data)
         /\ FirstOf(call) \in Nat /\ FirstOf(call) = call.lba + call.at
<1>1. Sectors \in Nat /\ PerCommand \in Nat
  BY DiskAssumption
<1>2. call.at \in Nat /\ call.lba \in Nat /\ order.moved \in Nat /\ order.count \in Nat
  BY DEF DiskTypes
<1>3. call.data \in Seq(Stuff)
  BY DEF DiskTypes
<1>4. Len(call.data) \in Nat
  BY <1>3
<1>5. call.at <= Len(call.data) /\ call.lba + Len(call.data) <= Sectors
  BY DEF DiskTypes, Fits
<1>6. Piece \in Nat /\ Piece <= PerCommand /\ call.at + Piece <= Len(call.data)
  BY <1>1, <1>2, <1>4, <1>5 DEF Piece, Shorter
<1> QED
  BY <1>1, <1>2, <1>3, <1>4, <1>5, <1>6 DEF FirstOf

(* Before the first transfer nothing has moved.                            *)
LEMMA DiskStarts == DiskInit => DiskIInv
BY DiskAssumption DEF DiskInit, DiskIInv, DiskTypes, Fits, Serves, Carries, Moved, NoOrder, NoCall, Calling,
   Working, Reached, Piece, Shorter

\* A call that has ended, with the controller at rest.
LEMMA DiskRests ==
  ASSUME DiskTypes, call' = NoCall, result' \in {"ok", "error"}, UNCHANGED <<platter, bounce>>, order' = NoOrder \/ order' = order,
         order'.ata \in {"none", "error"}
  PROVE  DiskIInv'
<1>1. call'.at = 0 /\ call'.data = <<>> /\ call'.lba = 0 /\ call'.op = "none" /\ call'.step = "none"
  BY DEF NoCall
<1>2. /\ order' \in [ata : {"none", "read", "write", "done", "error"}, lba : Nat, count : Nat, moved : Nat]
      /\ order'.moved <= order'.count
  <2>1. CASE order' = NoOrder
    BY <2>1 DEF NoOrder
  <2>2. CASE order' = order
    BY <2>2 DEF DiskTypes
  <2> QED BY <2>1, <2>2
<1>3. call' \in [op : {"none", "read", "write"}, lba : Nat, data : Seq(Stuff), at : Nat,
                 step : {"none", "load", "issue", "wait", "end"}]
  BY DEF NoCall
<1>4. Len(<<>>) = 0 /\ Sectors \in Nat /\ 0 + 0 <= Sectors
  BY DiskAssumption
<1>5. call'.at <= Len(call'.data) /\ call'.lba + Len(call'.data) <= Sectors
  BY <1>1, <1>4
<1>6. DiskTypes'
  BY <1>2, <1>3, <1>5 DEF DiskTypes
<1>7. Fits'
  BY <1>1, <1>5 DEF Fits, Calling
<1> QED
  BY <1>1, <1>6, <1>7 DEF DiskIInv, Serves, Carries, Moved, Working, Calling

\* A sector moves: one more of the piece under way, and none before it.
LEMMA DiskMovesOK == ASSUME DiskIInv, DiskMoves PROVE DiskIInv'
<1>1. order.ata = call.op /\ order.lba = FirstOf(call) /\ order.count = Piece /\ Working /\ call.step = "wait"
  BY DEF DiskIInv, Serves, DiskMoves, Working
<1>2. /\ Sectors \in Nat /\ PerCommand \in Nat
      /\ call.at \in Nat /\ call.lba \in Nat /\ Len(call.data) \in Nat
      /\ call.at <= Len(call.data) /\ call.lba + Len(call.data) <= Sectors
      /\ order.moved \in Nat
      /\ Piece \in Nat /\ Piece <= PerCommand /\ call.at + Piece <= Len(call.data)
      /\ FirstOf(call) \in Nat /\ FirstOf(call) = call.lba + call.at
  BY CallFacts DEF DiskIInv
<1> DEFINE i == order.moved + 1
<1>3. i \in 1 .. Piece
  BY <1>1, <1>2 DEF DiskMoves
<1>4. i \in 1 .. PerCommand /\ FirstOf(call) + i \in 1 .. Sectors /\ i \in Nat
  <2>1. i \in 1 .. PerCommand /\ i \in Nat
    BY <1>2, <1>3
  <2> HIDE DEF i
  <2>2. (call.lba + call.at) + i \in 1 .. Sectors
    BY <1>2, <1>3, Within
  <2> QED BY <1>2, <2>1, <2>2
<1>5. order' = [order EXCEPT !.moved = i] /\ UNCHANGED <<call, result>>
  BY DEF DiskMoves
<1>6. /\ order'.ata = order.ata /\ order'.lba = order.lba /\ order'.count = order.count /\ order'.moved = i
      /\ order' \in [ata : {"none", "read", "write", "done", "error"}, lba : Nat, count : Nat, moved : Nat]
  <2> HIDE DEF i
  <2>1. order \in [ata : {"none", "read", "write", "done", "error"}, lba : Nat, count : Nat, moved : Nat]
    BY DEF DiskIInv, DiskTypes
  <2> QED BY <1>4, <1>5, <2>1
<1>7. Piece' = Piece /\ FirstOf(call)' = FirstOf(call) /\ Working'
  BY <1>1, <1>5, <1>6 DEF Working, Piece, FirstOf
<1>8. platter \in [1 .. Sectors -> Stuff] /\ bounce \in [1 .. PerCommand -> Stuff]
  BY DEF DiskIInv, DiskTypes
<1>9. DiskTypes'
  <2>1. platter' \in [1 .. Sectors -> Stuff] /\ bounce' \in [1 .. PerCommand -> Stuff]
    BY <1>1, <1>4, <1>8 DEF DiskMoves
  <2>2. order'.moved <= order'.count
    BY <1>1, <1>3, <1>6
  <2> QED BY <1>5, <1>6, <2>1, <2>2 DEF DiskIInv, DiskTypes
<1>10. Fits' /\ Serves'
  BY <1>1, <1>5, <1>6, <1>7 DEF DiskIInv, Fits, Serves
<1>11. Reached = order.moved /\ Reached' = i
  BY <1>1, <1>6, <1>7 DEF Reached, Working
<1>12. Carries'
  <2>1. \A j \in 1 .. order.moved : bounce[j] = platter[FirstOf(call) + j]
    BY <1>1, <1>11 DEF DiskIInv, Carries
  <2>2. \A j \in 1 .. i : j = i \/ (j \in 1 .. order.moved /\ j # i)
    BY <1>2
  <2>3. \A j \in 1 .. i : j \in 1 .. PerCommand /\ FirstOf(call) + j \in 1 .. Sectors
    <3> SUFFICES ASSUME NEW j \in 1 .. i PROVE j \in 1 .. PerCommand /\ FirstOf(call) + j \in 1 .. Sectors
      OBVIOUS
    <3>1. j \in 1 .. Piece
      BY <1>2, <1>3
    <3>2. (call.lba + call.at) + j \in 1 .. Sectors
      BY <1>2, <3>1, Within
    <3> QED BY <1>2, <3>1, <3>2
  <2>4. CASE order.ata = "read"
    <3>1. bounce' = [bounce EXCEPT ![i] = platter[FirstOf(call) + i]] /\ UNCHANGED platter
      BY <1>1, <2>4 DEF DiskMoves
    <3>2. \A j \in 1 .. i : bounce'[j] = platter'[FirstOf(call) + j]
      BY <1>8, <2>1, <2>2, <2>3, <3>1
    <3> QED BY <1>1, <1>5, <1>7, <1>11, <2>4, <3>2 DEF Carries
  <2>5. CASE order.ata = "write"
    <3>1. platter' = [platter EXCEPT ![FirstOf(call) + i] = bounce[i]] /\ UNCHANGED bounce
      BY <1>1, <2>5 DEF DiskMoves
    <3>2. \A j \in 1 .. i : j # i => FirstOf(call) + j # FirstOf(call) + i
      BY <1>2
    <3>3. \A j \in 1 .. i : bounce'[j] = platter'[FirstOf(call) + j]
      BY <1>8, <2>1, <2>2, <2>3, <3>1, <3>2
    <3>4. \A j \in 1 .. Piece : bounce[j] = call.data[call.at + j]
      BY <1>1, <2>5 DEF DiskIInv, Carries
    <3> QED BY <1>5, <1>7, <1>11, <3>1, <3>3, <3>4 DEF Carries
  <2> QED BY <1>1, <2>4, <2>5 DEF Working
<1>13. Moved'
  <2>1. \A j \in 1 .. call.at : call.lba + j \in 1 .. Sectors /\ call.lba + j # FirstOf(call) + i
    <3> SUFFICES ASSUME NEW j \in 1 .. call.at
                 PROVE  call.lba + j \in 1 .. Sectors /\ call.lba + j # FirstOf(call) + i
      OBVIOUS
    <3>1. call.at \in Nat /\ call.lba \in Nat /\ Len(call.data) \in Nat /\ Sectors \in Nat
          /\ call.at <= Len(call.data) /\ call.lba + Len(call.data) <= Sectors
      BY <1>2
    <3>2. j \in Nat /\ 1 <= j /\ j <= call.at
      BY <3>1
    <3>3. j <= Len(call.data)
      BY <3>1, <3>2
    <3>4. call.lba + j <= Sectors
      BY <3>1, <3>2, <3>3
    <3>5. call.lba + j # FirstOf(call) + i
      BY <1>2, <3>2
    <3> QED BY <3>1, <3>2, <3>4, <3>5
  <2>2. \A j \in 1 .. call.at : platter'[call.lba + j] = platter[call.lba + j]
    BY <1>1, <1>8, <2>1 DEF DiskMoves
  <2> QED BY <1>5, <2>2 DEF Moved, DiskIInv
<1> QED BY <1>9, <1>10, <1>12, <1>13 DEF DiskIInv

(* The controller ends the transfer it was given.                          *)
LEMMA DiskEndsOK == ASSUME DiskIInv, DiskEnds PROVE DiskIInv'
<1> USE DEF DiskIInv
<1>1. order' = [NoOrder EXCEPT !.ata = "done"] \/ order' = [NoOrder EXCEPT !.ata = "error"]
  BY DEF DiskEnds
<1>2. UNCHANGED <<platter, bounce, call, result>> /\ Working
  BY DEF DiskEnds
<1>3. DiskTypes' /\ Fits'
  <2>1. /\ order' \in [ata : {"none", "read", "write", "done", "error"}, lba : Nat, count : Nat, moved : Nat]
        /\ order'.moved = 0 /\ order'.count = 0
    BY <1>1 DEF NoOrder
  <2>2. order'.moved <= order'.count
    BY <2>1
  <2> QED BY <1>2, <2>1, <2>2 DEF DiskTypes, Fits
<1>4. call.step = "wait" /\ order.count = Piece
  BY <1>2 DEF Serves, Working
<1>5. Serves'
  BY <1>1, <1>2, <1>4 DEF Serves, Working, NoOrder
<1>6. Carries'
  <2>1. CASE order' = [NoOrder EXCEPT !.ata = "done"] /\ order.moved = order.count
    <3>1. Reached' = Piece /\ Reached = Piece /\ Piece' = Piece
      BY <1>2, <1>4, <2>1 DEF Reached, NoOrder, Working, Piece
    <3> QED BY <1>2, <1>4, <3>1 DEF Carries, FirstOf
  <2>2. CASE order' = [NoOrder EXCEPT !.ata = "error"]
    <3>1. Reached' = 0 /\ Piece' = Piece
      BY <1>2, <2>2 DEF Reached, NoOrder, Working, Piece
    <3> QED BY <1>2, <1>4, <3>1 DEF Carries, FirstOf
  <2> QED BY <2>1, <2>2 DEF DiskEnds
<1>7. Moved'
  BY <1>2 DEF Moved
<1> QED BY <1>3, <1>5, <1>6, <1>7

(* A call refused moves nothing; one taken starts at its first piece.      *)
LEMMA CallOK ==
  ASSUME DiskIInv, NEW op \in {"read", "write"}, NEW lba \in Nat, NEW data \in Seq(Stuff), Call(op, lba, data)
  PROVE  DiskIInv'
<1> USE DEF DiskIInv
<1>1. order.ata \in {"none", "error"} /\ UNCHANGED <<platter, bounce, order>>
  BY DEF Call, Serves
<1>2. CASE UNCHANGED call /\ result' = "refused"
  BY <1>1, <1>2 DEF DiskTypes, Fits, Serves, Carries, Moved, Working, Reached, Piece, Shorter, FirstOf, Call, Calling
<1>3. CASE /\ lba + Len(data) <= Sectors /\ result' = "none"
           /\ call' = [op |-> op, lba |-> lba, data |-> data, at |-> 0, step |-> "load"]
  <2>1. call' \in [op : {"none", "read", "write"}, lba : Nat, data : Seq(Stuff), at : Nat,
                   step : {"none", "load", "issue", "wait", "end"}]
    BY <1>3
  <2>2. call'.at = 0 /\ call'.data = data /\ call'.lba = lba /\ call'.op = op /\ 0 <= Len(data)
    BY <1>3
  <2>3. DiskTypes' /\ Fits'
    BY <1>1, <1>3, <2>1, <2>2 DEF DiskTypes, Fits
  <2>4. Serves' /\ Carries' /\ Moved'
    BY <1>1, <1>3 DEF Serves, Carries, Moved, Working
  <2> QED BY <2>3, <2>4
<1>4. lba + Len(data) > Sectors \/ lba + Len(data) <= Sectors
  BY DiskAssumption
<1> QED BY <1>2, <1>3, <1>4 DEF Call

(* A piece to write is copied to the bounce buffer.                        *)
LEMMA LoadOK == ASSUME DiskIInv, Load PROVE DiskIInv'
<1> USE DEF DiskIInv
<1>1. order.ata \in {"none", "error"} /\ UNCHANGED <<platter, order, result>> /\ call.step = "load" /\ call' = [call EXCEPT !.step = "issue"]
  BY DEF Load, Serves
<1>2. /\ Sectors \in Nat /\ PerCommand \in Nat
      /\ call.at \in Nat /\ call.lba \in Nat /\ call.data \in Seq(Stuff) /\ Len(call.data) \in Nat
      /\ call.at <= Len(call.data) /\ call.lba + Len(call.data) <= Sectors
      /\ Piece \in Nat /\ Piece <= PerCommand /\ call.at + Piece <= Len(call.data)
      /\ FirstOf(call) \in Nat /\ FirstOf(call) = call.lba + call.at
  BY CallFacts
<1>4. call'.op = call.op /\ call'.lba = call.lba /\ call'.data = call.data /\ call'.at = call.at /\ call'.step = "issue"
  BY <1>1 DEF DiskTypes
<1>5. Piece' = Piece
  BY <1>4 DEF Piece
<1>6. bounce' \in [1 .. PerCommand -> Stuff] /\ (call.op = "write" => \A i \in 1 .. Piece : bounce'[i] = call.data[call.at + i])
  <2>1. CASE call.op = "write"
    <3>1. bounce' = [i \in 1 .. PerCommand |-> IF i <= Piece THEN call.data[call.at + i] ELSE bounce[i]]
      BY <2>1 DEF Load, DiskTypes
    <3>2. call.data \in Seq(Stuff) /\ bounce \in [1 .. PerCommand -> Stuff]
      BY DEF DiskTypes
    <3>3. \A i \in 1 .. Piece : call.at + i \in 1 .. Len(call.data) /\ i \in 1 .. PerCommand
      BY <1>2
    <3>4. \A i \in 1 .. PerCommand : i <= Piece => i \in 1 .. Piece
      OBVIOUS
    <3>5. \A i \in 1 .. PerCommand : bounce'[i] \in Stuff
      BY <3>1, <3>2, <3>3, <3>4
    <3>6. bounce' \in [1 .. PerCommand -> Stuff]
      BY <3>1, <3>5
    <3> QED BY <1>2, <3>1, <3>3, <3>4, <3>6
  <2>2. CASE call.op # "write"
    BY <2>2 DEF Load, DiskTypes
  <2> QED BY <2>1, <2>2
<1>7. DiskTypes'
  BY <1>1, <1>4, <1>6 DEF DiskTypes, Calling
<1>8. Fits' /\ Serves' /\ Moved'
  BY <1>1, <1>4 DEF Fits, Serves, Moved, Working, Calling
<1>9. Carries'
  BY <1>4, <1>5, <1>6 DEF Carries
<1> QED BY <1>7, <1>8, <1>9

(* A command is issued for the piece at hand.                              *)
LEMMA IssueOK == ASSUME DiskIInv, Issue PROVE DiskIInv'
<1> USE DEF DiskIInv
<1>1. call.step = "issue" /\ UNCHANGED <<platter, bounce, result>> /\ call' = [call EXCEPT !.step = "wait"]
  BY DEF Issue
<1>2. /\ Sectors \in Nat /\ PerCommand \in Nat
      /\ call.at \in Nat /\ call.lba \in Nat /\ call.data \in Seq(Stuff) /\ Len(call.data) \in Nat
      /\ call.at <= Len(call.data) /\ call.lba + Len(call.data) <= Sectors
      /\ Piece \in Nat /\ Piece <= PerCommand /\ call.at + Piece <= Len(call.data)
      /\ FirstOf(call) \in Nat /\ FirstOf(call) = call.lba + call.at
  BY CallFacts
<1>4. call'.op = call.op /\ call'.lba = call.lba /\ call'.data = call.data /\ call'.at = call.at /\ call'.step = "wait"
  BY <1>1 DEF DiskTypes
<1>5. Piece' = Piece /\ FirstOf(call') = FirstOf(call) /\ call.op \in {"read", "write"}
  BY <1>1, <1>4 DEF Piece, FirstOf, Fits, Calling
<1>6. \/ order' = [ata |-> call.op, lba |-> FirstOf(call), count |-> Piece, moved |-> 0]
      \/ order' = order /\ order.ata = "error"
  BY DEF Issue
<1>7. DiskTypes'
  <2>1. call' \in [op : {"none", "read", "write"}, lba : Nat, data : Seq(Stuff), at : Nat,
                   step : {"none", "load", "issue", "wait", "end"}]
    BY <1>1 DEF DiskTypes
  <2>2. CASE order' = [ata |-> call.op, lba |-> FirstOf(call), count |-> Piece, moved |-> 0]
    <3>1. /\ order' \in [ata : {"none", "read", "write", "done", "error"}, lba : Nat, count : Nat, moved : Nat]
          /\ order'.moved <= order'.count
      BY <1>2, <1>5, <2>2
    <3> QED BY <1>1, <1>4, <2>1, <3>1 DEF DiskTypes
  <2>3. CASE order' = order
    BY <1>1, <1>4, <2>1, <2>3 DEF DiskTypes
  <2> QED BY <1>6, <2>2, <2>3
<1>8. Fits' /\ Serves' /\ Moved'
  BY <1>1, <1>4, <1>5, <1>6 DEF Fits, Serves, Moved, Working, Calling
<1>9. Reached' = 0
  BY <1>5, <1>6 DEF Reached, Working
<1>10. Carries'
  BY <1>1, <1>4, <1>5, <1>9 DEF Carries
<1> QED BY <1>7, <1>8, <1>10

\* The piece is taken out of the buffer, or was put on the disk from it.
LEMMA AnsweredOK == ASSUME DiskIInv, Answered PROVE DiskIInv'
<1> USE DEF DiskIInv
<1>1. call.step = "wait" /\ UNCHANGED <<platter, bounce>> /\ order' = IF order.ata = "error" THEN order ELSE NoOrder
  BY DEF Answered
<1>2. /\ Sectors \in Nat /\ PerCommand \in Nat
      /\ call.at \in Nat /\ call.lba \in Nat /\ call.data \in Seq(Stuff) /\ Len(call.data) \in Nat
      /\ call.at <= Len(call.data) /\ call.lba + Len(call.data) <= Sectors
      /\ Piece \in Nat /\ Piece <= PerCommand /\ call.at + Piece <= Len(call.data)
      /\ FirstOf(call) \in Nat /\ FirstOf(call) = call.lba + call.at
  BY CallFacts
<1>3. bounce \in [1 .. PerCommand -> Stuff]
  BY DEF DiskTypes
<1>4. CASE order.ata = "error"
  <2>1. call' = NoCall /\ result' = "error"
    BY <1>4 DEF Answered, Ended
  <2> QED BY <1>1, <2>1, DiskRests DEF NoOrder
<1>5. CASE order.ata = "done"
  <2> DEFINE data == [i \in DOMAIN call.data |->
                         IF call.op = "read" /\ i - call.at \in 1 .. Piece THEN bounce[i - call.at] ELSE call.data[i]]
             at == call.at + Piece
  <2>0. order' = NoOrder
    BY <1>1, <1>5
  <2>1. call' = [call EXCEPT !.data = data, !.at = at, !.step = IF at = Len(data) THEN "end" ELSE "load"] /\ UNCHANGED result
    BY <1>5 DEF Answered
  <2>2. data \in [DOMAIN call.data -> Stuff]
    <3>1. \A i \in DOMAIN call.data : call.data[i] \in Stuff
      BY <1>2
    <3>2. \A j \in 1 .. Piece : j \in 1 .. PerCommand
      BY <1>2
    <3>3. \A j \in 1 .. PerCommand : bounce[j] \in Stuff
      BY <1>3
    <3>4. \A i \in DOMAIN call.data : data[i] \in Stuff
      BY <3>1, <3>2, <3>3
    <3> QED BY <3>4
  <2>3. data \in Seq(Stuff) /\ Len(data) = Len(call.data) /\ DOMAIN data = 1 .. Len(call.data)
    <3> HIDE DEF data
    <3> QED BY <1>2, <2>2, SameLength
  <2>4. call'.op = call.op /\ call'.lba = call.lba /\ call'.data = data /\ call'.at = at /\ call'.step \in {"end", "load"}
    <3> HIDE DEF data
    <3> QED BY <2>1 DEF DiskTypes
  <2>5. DiskTypes'
    <3> HIDE DEF data
    <3>1. call' \in [op : {"none", "read", "write"}, lba : Nat, data : Seq(Stuff), at : Nat, step : {"none", "load", "issue", "wait", "end"}]
      <4>1. at \in Nat
        BY <1>2
      <4> HIDE DEF at
      <4>2. call \in [op : {"none", "read", "write"}, lba : Nat, data : Seq(Stuff), at : Nat,
                      step : {"none", "load", "issue", "wait", "end"}]
        BY DEF DiskTypes
      <4> QED BY <2>1, <2>3, <4>1, <4>2
    <3>2. at <= Len(data)
      BY <1>2, <2>3
    <3>3. order' \in [ata : {"none", "read", "write", "done", "error"}, lba : Nat, count : Nat, moved : Nat]
      BY <2>0 DEF NoOrder
    <3>4. order'.moved <= order'.count
      BY <2>0 DEF NoOrder
    <3> HIDE DEF at
    <3> QED BY <1>1, <2>0, <2>1, <2>4, <3>1, <3>2, <3>3, <3>4 DEF DiskTypes
  <2>6. Fits' /\ Serves' /\ Carries'
    <3> HIDE DEF data
    <3> QED BY <1>1, <2>0, <2>3, <2>4 DEF Fits, Serves, Carries, NoOrder, Working, Calling
  <2>7. Reached = Piece
    BY <1>5 DEF Reached
  <2>8. \A i \in 1 .. at : data[i] = platter[call.lba + i]
    <3> SUFFICES ASSUME NEW i \in 1 .. at PROVE data[i] = platter[call.lba + i]
      OBVIOUS
    <3>1. i \in DOMAIN call.data
      BY <1>2, <1>3
    <3>2. CASE i <= call.at
      <4>1. i - call.at \notin 1 .. Piece /\ i \in 1 .. call.at
        BY <1>2, <3>2
      <4>2. data[i] = call.data[i]
        BY <3>1, <4>1
      <4> QED BY <1>1, <4>1, <4>2 DEF Moved, Calling
    <3>3. CASE i > call.at
      <4>1. i - call.at \in 1 .. Piece /\ FirstOf(call) + (i - call.at) = call.lba + i /\ call.at + (i - call.at) = i
        <5>1. \A a, n, j \in Nat : j > a /\ j <= a + n => j - a \in 1 .. n /\ \A b \in Nat : (b + a) + (j - a) = b + j
          OBVIOUS
        <5>2. i \in Nat /\ i > call.at /\ i <= call.at + Piece
          BY <1>2, <3>3
        <5>3. i - call.at \in 1 .. Piece /\ (call.lba + call.at) + (i - call.at) = call.lba + i
          BY <1>2, <5>1, <5>2
        <5>4. call.at + (i - call.at) = i
          BY <1>2, <5>2
        <5> QED BY <1>2, <5>3, <5>4
      <4>2. bounce[i - call.at] = platter[call.lba + i]
        BY <1>1, <2>7, <4>1 DEF Carries
      <4>3. CASE call.op = "read"
        BY <3>1, <4>1, <4>2, <4>3
      <4>4. CASE call.op = "write"
        <5>1. data[i] = call.data[i]
          BY <3>1, <4>4
        <5>2. bounce[i - call.at] = call.data[i]
          BY <1>1, <4>1, <4>4 DEF Carries
        <5> QED BY <4>2, <5>1, <5>2
      <4>5. call.op \in {"read", "write"}
        BY <1>1 DEF Fits, Calling
      <4> QED BY <4>3, <4>4, <4>5
    <3> QED BY <1>2, <3>2, <3>3
  <2>9. Moved'
    <3> HIDE DEF data
    <3> QED BY <1>1, <2>4, <2>8 DEF Moved
  <2> QED BY <2>5, <2>6, <2>9
<1> QED BY <1>4, <1>5 DEF Answered

(* The driver returns to its caller.                                       *)
LEMMA ReturnOK == ASSUME DiskIInv, Return PROVE DiskIInv'
<1>1. call' = NoCall /\ result' = "ok" /\ UNCHANGED <<platter, bounce, order>> /\ order.ata \in {"none", "error"}
  BY DEF Return, Ended, DiskIInv, Serves
<1> QED
  BY <1>1, DiskRests DEF DiskIInv

(* Each step keeps what moved, and what did not, as called.                *)
LEMMA DiskKeeps == ASSUME ~Slow, DiskIInv, [DiskNext]_diskVars PROVE DiskIInv'
<1>1. ASSUME NEW lba \in 0 .. Sectors - 1, NEW data \in Transfers, Call("write", lba, data) PROVE DiskIInv'
  <2>1. data \in Seq(Stuff) /\ lba \in Nat
    BY DiskAssumption DEF Transfers
  <2> QED BY <1>1, <2>1, CallOK
<1>2. ASSUME NEW lba \in 0 .. Sectors - 1, NEW n \in 1 .. Sectors, NEW v \in Stuff, Call("read", lba, [i \in 1 .. n |-> v])
      PROVE  DiskIInv'
  <2>1. [i \in 1 .. n |-> v] \in Seq(Stuff) /\ lba \in Nat
    BY DiskAssumption
  <2> QED BY <1>2, <2>1, CallOK
<1>3. CASE UNCHANGED diskVars
  BY <1>3 DEF diskVars, DiskIInv, DiskTypes, Fits, Serves, Carries, Moved, Working, Reached, Piece, Shorter, FirstOf
<1> QED
  BY <1>1, <1>2, <1>3, DiskMovesOK, DiskEndsOK, LoadOK, IssueOK, AnsweredOK, ReturnOK DEF DiskNext, GivesUp

\* Provided that no command outlasts PATIENCE_MS.
THEOREM DiskInvariant == ASSUME ~Slow PROVE DiskSpec => []DiskIInv
<1>1. DiskIInv /\ [DiskNext]_diskVars => DiskIInv'
  BY DiskKeeps
<1> QED
  BY <1>1, DiskStarts, PTL DEF DiskSpec

\* A transfer that succeeds has moved every sector, and the right ones, in
\* however many commands, on a disk of any size (read, write and chunks of
\* ahci.rs), provided that no command outlasts PATIENCE_MS.
THEOREM TransfersAreTrue == ASSUME ~Slow PROVE DiskSpec => []TransferIsTrue
<1>1. DiskIInv => TransferIsTrue
  BY DEF DiskIInv, Moved, TransferIsTrue, Calling
<1> QED
  BY <1>1, DiskInvariant, PTL

\* A write touches no sector but its own, even when it fails: the order the
\* controller carries out is always the piece the call is at.
THEOREM OthersAreUntouched == ASSUME ~Slow PROVE DiskSpec => OthersUntouched
<1> DEFINE Own(s) == call.op = "write" /\ s \in call.lba + 1 .. call.lba + Len(call.data)
           Apart == \A s \in 1 .. Sectors : platter'[s] # platter[s] => Own(s)
<1>1. ASSUME DiskIInv, DiskMoves PROVE Apart
  <2>1. order.ata = call.op /\ order.lba = FirstOf(call) /\ order.count = Piece
    BY <1>1 DEF DiskIInv, Serves, DiskMoves
  <2>2. /\ call.at \in Nat /\ call.lba \in Nat /\ Len(call.data) \in Nat /\ Sectors \in Nat
        /\ call.lba + Len(call.data) <= Sectors /\ order.moved \in Nat /\ Piece \in Nat
        /\ call.at + Piece <= Len(call.data) /\ FirstOf(call) = call.lba + call.at
    BY <1>1, CallFacts DEF DiskIInv
  <2>3. order.moved + 1 \in 1 .. Piece
    BY <1>1, <2>1, <2>2 DEF DiskMoves
  <2>4. \A i \in 1 .. Piece : (call.lba + call.at) + i \in call.lba + 1 .. call.lba + Len(call.data)
    BY <2>2, Within
  <2>5. FirstOf(call) + (order.moved + 1) \in call.lba + 1 .. call.lba + Len(call.data)
    BY <2>2, <2>3, <2>4
  <2>6. CASE order.ata = "write"
    <3>1. platter' = [platter EXCEPT ![FirstOf(call) + (order.moved + 1)] = bounce[order.moved + 1]]
      BY <1>1, <2>1, <2>6 DEF DiskMoves
    <3>2. \A s \in 1 .. Sectors : platter'[s] # platter[s] => s = FirstOf(call) + (order.moved + 1)
      BY <1>1, <3>1 DEF DiskIInv, DiskTypes
    <3> QED BY <2>1, <2>5, <2>6, <3>2
  <2>7. CASE order.ata = "read"
    BY <1>1, <2>7 DEF DiskMoves
  <2> QED BY <1>1, <2>6, <2>7 DEF DiskMoves, Working
<1>2. ASSUME UNCHANGED platter PROVE Apart
  BY <1>2
<1>3. DiskIInv /\ [DiskNext]_diskVars => [Apart]_diskVars
  <2> HIDE DEF Apart
  <2> QED BY <1>1, <1>2 DEF DiskNext, diskVars, DiskEnds, Call, Load, Issue, GivesUp, Answered, Return
<1> QED
  BY <1>3, DiskInvariant, PTL DEF DiskSpec, OthersUntouched

(***************************************************************************)
(* The network card                                                        *)
(***************************************************************************)
Slots == 0 .. Ring - 1

\* How far round the ring a descriptor is from another.
Gap(a, i) == IF i >= a THEN i - a ELSE i - a + Ring

\* What going one descriptor on, or back, does to the distances.
LEMMA GapFacts ==
  ASSUME NEW a \in Slots, NEW i \in Slots
  PROVE  /\ Ring \in Nat /\ Ring > 1 /\ Following(a) \in Slots /\ Before(a) \in Slots
         /\ Gap(a, i) \in Slots /\ Gap(a, a) = 0 /\ (Gap(a, i) = 0 => i = a) /\ Before(a) # a /\ Gap(a, Before(a)) = Ring - 1
         /\ Gap(Following(a), i) = IF i = a THEN Ring - 1 ELSE Gap(a, i) - 1
         /\ Gap(a, Following(i)) = IF Gap(a, i) = Ring - 1 THEN 0 ELSE Gap(a, i) + 1
         /\ \A j \in Slots : Gap(a, i) = Gap(a, j) => i = j
<1>1. Ring \in Nat /\ Ring > 1
  BY CardAssumption
<1>2. Following(a) = (IF a = Ring - 1 THEN 0 ELSE a + 1) /\ Following(i) = (IF i = Ring - 1 THEN 0 ELSE i + 1)
  BY <1>1 DEF Following, Slots
<1>3. \A k \in Slots : Before(k) = IF k = 0 THEN Ring - 1 ELSE k - 1
  BY <1>1 DEF Before, Slots
<1> QED
  BY <1>1, <1>2, <1>3 DEF Gap, Slots

\* Two descriptors at one distance are one.
LEMMA GapApart ==
  ASSUME NEW a \in Slots, NEW i \in Slots, NEW j \in Slots, i # j
  PROVE  Gap(a, i) # Gap(a, j)
BY CardAssumption DEF Gap, Slots

\* From one descriptor on, every other one is nearer by one.
LEMMA GapOn ==
  ASSUME NEW a \in Slots, NEW i \in Slots, i # a
  PROVE  Gap(Following(a), i) = Gap(a, i) - 1 /\ Gap(a, i) \in Nat /\ Gap(a, i) # 0
<1>1. Gap(a, i) \in Nat
  BY GapFacts DEF Slots
<1>2. Gap(Following(a), i) = Gap(a, i) - 1
  BY GapFacts
<1> QED
  BY <1>1, <1>2, GapFacts

\* The one after a descriptor is farther by one, unless that goes round.
LEMMA GapFarther ==
  ASSUME NEW a \in Slots, NEW i \in Slots, Gap(a, i) # Ring - 1
  PROVE  Gap(a, Following(i)) = Gap(a, i) + 1
BY GapFacts

CardTypes ==
    /\ {tx, rx} \subseteq [done : [Slots -> BOOLEAN], buffer : [Slots -> Nat], at : Slots, head : Slots, tail : Slots]
    /\ accepted \in 0 .. MaxFrames /\ came \in 0 .. MaxFrames
    /\ out \in Seq(Nat) /\ read \in Seq(Nat)

\* Frames accepted and not sent yet: as many descriptors from the head on hold
\* them, in order, and none of these is done.  When there are as many as the
\* ring has, the driver is back at the head.
Left == accepted - Len(out)
Sending ==
    /\ Left \in 0 .. Ring /\ tx.tail = tx.at
    /\ Gap(tx.head, tx.at) = IF Left = Ring THEN 0 ELSE Left
    /\ \A i \in Slots : Gap(tx.head, i) < Left => ~tx.done[i] /\ tx.buffer[i] = Len(out) + 1 + Gap(tx.head, i)
    /\ \A i \in DOMAIN out : out[i] = i

\* Frames come and not read yet: they are in the descriptors from the driver's
\* place up to the card's head, which goes no further than the tail, and only
\* these are done.
Span == Gap(rx.at, rx.head)
Receiving ==
    /\ Span <= Gap(rx.at, rx.tail)
    /\ \A i \in Slots : rx.done[i] <=> Gap(rx.at, i) < Span
    /\ \A i, j \in Slots : Gap(rx.at, i) < Gap(rx.at, j) /\ Gap(rx.at, j) < Span => rx.buffer[i] < rx.buffer[j]
    /\ \A i \in Slots : Gap(rx.at, i) < Span => rx.buffer[i] <= came /\ \A k \in DOMAIN read : read[k] < rx.buffer[i]
    /\ \A k \in DOMAIN read : read[k] <= came /\ (k > 1 => read[k - 1] < read[k])

CardIInv == CardTypes /\ Sending /\ Receiving

(* Both rings start with every descriptor the right side's.                *)
LEMMA CardStarts == CardInit => CardIInv
<1> SUFFICES ASSUME CardInit PROVE CardIInv
  OBVIOUS
<1>1. 0 \in Slots /\ Ring - 1 \in Slots /\ Gap(0, 0) = 0 /\ Gap(0, Ring - 1) = Ring - 1 /\ Ring \in Nat /\ Ring > 1 /\ MaxFrames \in Nat
      /\ \A i \in Slots : Gap(0, i) = i
  BY CardAssumption DEF Slots, Gap
<1>2. tx \in [done : [Slots -> BOOLEAN], buffer : [Slots -> Nat], at : Slots, head : Slots, tail : Slots]
      /\ rx \in [done : [Slots -> BOOLEAN], buffer : [Slots -> Nat], at : Slots, head : Slots, tail : Slots]
  BY <1>1 DEF CardInit, EmptyRing, Slots
<1>3. tx.at = 0 /\ tx.head = 0 /\ tx.tail = 0 /\ rx.at = 0 /\ rx.head = 0 /\ rx.tail = Ring - 1
      /\ rx.done = [i \in Slots |-> FALSE] /\ accepted = 0 /\ came = 0 /\ out = <<>> /\ read = <<>> /\ Len(out) = 0
  BY DEF CardInit, EmptyRing, Slots
<1>4. CardTypes
  BY <1>1, <1>2, <1>3 DEF CardTypes
<1>5. Left = 0 /\ Span = 0
  <2>1. Left = 0 - 0
    BY <1>3 DEF Left
  <2>2. Span = Gap(0, 0)
    BY <1>3 DEF Span
  <2> QED BY <1>1, <2>1, <2>2
<1>6. Sending
  BY <1>1, <1>3, <1>5 DEF Sending, Slots
<1>7. Receiving
  BY <1>1, <1>3, <1>5 DEF Receiving, Slots
<1> QED
  BY <1>4, <1>6, <1>7 DEF CardIInv

\* The types of the two rings, one by one.
LEMMA RingFacts ==
  ASSUME CardTypes
  PROVE  /\ tx \in [done : [Slots -> BOOLEAN], buffer : [Slots -> Nat], at : Slots, head : Slots, tail : Slots]
         /\ rx \in [done : [Slots -> BOOLEAN], buffer : [Slots -> Nat], at : Slots, head : Slots, tail : Slots]
         /\ tx.at \in Slots /\ tx.head \in Slots /\ rx.at \in Slots /\ rx.head \in Slots /\ rx.tail \in Slots
         /\ accepted \in Nat /\ came \in Nat /\ Len(out) \in Nat /\ Len(read) \in Nat /\ Left \in Int
BY CardAssumption DEF CardTypes, Left

\* What a ring becomes when one descriptor is written and one place moves on.
LEMMA SendFrameOK == ASSUME CardIInv, SendFrame PROVE CardIInv'
<1>1. /\ tx \in [done : [Slots -> BOOLEAN], buffer : [Slots -> Nat], at : Slots, head : Slots, tail : Slots]
      /\ tx.at \in Slots /\ tx.head \in Slots
      /\ accepted \in Nat /\ Len(out) \in Nat /\ Left \in 0 .. Ring
  BY RingFacts DEF CardIInv, Sending
<1>2. Ring \in Nat /\ Ring > 1
  BY CardAssumption
<1>3. Left = accepted - Len(out) /\ accepted < MaxFrames /\ MaxFrames \in Nat
  BY CardAssumption DEF Left, SendFrame
<1>4. Left < Ring
  <2> SUFFICES ASSUME Left = Ring PROVE FALSE
    BY <1>1, <1>2
  <2>1. Gap(tx.head, tx.at) = 0
    BY DEF CardIInv, Sending
  <2>2. ~tx.done[tx.at]
    BY <1>1, <1>2, <2>1 DEF CardIInv, Sending
  <2>3. accepted >= Ring
    BY <1>1, <1>2, <1>3
  <2> QED BY <2>2, <2>3 DEF SendFrame, Refuses
<1>5. /\ tx'.head = tx.head /\ tx'.at = Following(tx.at) /\ tx'.tail = Following(tx.at)
      /\ tx'.done = [tx.done EXCEPT ![tx.at] = FALSE] /\ tx'.buffer = [tx.buffer EXCEPT ![tx.at] = accepted + 1]
      /\ UNCHANGED <<rx, out, came, read>> /\ accepted' = accepted + 1
  BY <1>1 DEF SendFrame
<1>6. Following(tx.at) \in Slots
  BY <1>1, GapFacts
<1>7. CardTypes'
  <2>1. tx' \in [done : [Slots -> BOOLEAN], buffer : [Slots -> Nat], at : Slots, head : Slots, tail : Slots]
    <3>1. [tx.done EXCEPT ![tx.at] = FALSE] \in [Slots -> BOOLEAN] /\ [tx.buffer EXCEPT ![tx.at] = accepted + 1] \in [Slots -> Nat]
      BY <1>1
    <3>2. tx' = [done |-> [tx.done EXCEPT ![tx.at] = FALSE], buffer |-> [tx.buffer EXCEPT ![tx.at] = accepted + 1],
                 at |-> Following(tx.at), head |-> tx.head, tail |-> Following(tx.at)]
      BY <1>1 DEF SendFrame
    <3> QED BY <1>1, <1>6, <3>1, <3>2
  <2>2. accepted' \in 0 .. MaxFrames
    BY <1>1, <1>3, <1>5
  <2> QED BY <1>5, <2>1, <2>2 DEF CardIInv, CardTypes
<1>8. Left' = Left + 1
  BY <1>1, <1>3, <1>5 DEF Left
<1>9. Sending'
  <2>1. Left' \in 0 .. Ring
    BY <1>1, <1>2, <1>4, <1>8
  <2>2. Gap(tx.head, tx.at) = Left
    BY <1>4, <1>1, <1>2 DEF CardIInv, Sending
  <2>3. Gap(tx.head, Following(tx.at)) = IF Gap(tx.head, tx.at) = Ring - 1 THEN 0 ELSE Gap(tx.head, tx.at) + 1
    BY <1>1, GapFacts
  <2>4. Gap(tx'.head, tx'.at) = IF Left' = Ring THEN 0 ELSE Left'
    BY <1>1, <1>2, <1>5, <1>8, <2>2, <2>3
  <2>5. ASSUME NEW i \in Slots, Gap(tx.head, i) < Left'
        PROVE  ~tx'.done[i] /\ tx'.buffer[i] = Len(out) + 1 + Gap(tx.head, i)
    <3>1. CASE i = tx.at
      BY <1>1, <1>3, <1>5, <2>2, <3>1
    <3>2. CASE i # tx.at
      <4>1. Gap(tx.head, i) = Gap(tx.head, tx.at) => i = tx.at
        BY <1>1, GapApart
      <4>2. Gap(tx.head, i) \in Nat
        BY <1>1, GapFacts DEF Slots
      <4>3. Gap(tx.head, i) < Left
        BY <1>1, <1>8, <2>2, <2>5, <3>2, <4>1, <4>2
      <4> QED BY <1>1, <1>5, <3>2, <4>3 DEF CardIInv, Sending
    <3> QED BY <3>1, <3>2
  <2> QED BY <1>5, <2>1, <2>4, <2>5 DEF CardIInv, Sending
<1>10. Receiving'
  BY <1>5 DEF CardIInv, Receiving, Span, Gap
<1> QED BY <1>7, <1>9, <1>10 DEF CardIInv

\* The frame at the head is the next one.
LEMMA CardSendsOK == ASSUME CardIInv, CardSends PROVE CardIInv'
<1>1. /\ tx \in [done : [Slots -> BOOLEAN], buffer : [Slots -> Nat], at : Slots, head : Slots, tail : Slots]
      /\ tx.at \in Slots /\ tx.head \in Slots
      /\ accepted \in Nat /\ Len(out) \in Nat /\ Left \in 0 .. Ring /\ out \in Seq(Nat)
  BY RingFacts DEF CardIInv, CardTypes, Sending
<1>2. Ring \in Nat /\ Ring > 1 /\ Left = accepted - Len(out)
  BY CardAssumption DEF Left
<1>3. Left > 0 /\ Left < Ring /\ Gap(tx.head, tx.at) = Left
  <2>1. tx.head # tx.at
    BY DEF CardSends, CardIInv, Sending
  <2>2. Gap(tx.head, tx.at) # 0
    BY <1>1, <2>1, GapFacts
  <2>3. Left # Ring /\ Gap(tx.head, tx.at) = Left
    BY <2>2 DEF CardIInv, Sending
  <2>4. Left \in Int /\ Left >= 0 /\ Left <= Ring
    BY <1>1
  <2>5. Left # 0
    BY <2>2, <2>3
  <2> QED BY <1>2, <2>3, <2>4, <2>5
<1>4. Gap(tx.head, tx.head) = 0
  BY <1>1, GapFacts
<1>5. tx.buffer[tx.head] = Len(out) + 1
  <2>1. tx.buffer[tx.head] = Len(out) + 1 + Gap(tx.head, tx.head)
    BY <1>1, <1>3, <1>4 DEF CardIInv, Sending
  <2> QED BY <1>1, <1>4, <2>1
<1>6. /\ tx'.head = Following(tx.head) /\ tx'.at = tx.at /\ tx'.tail = tx.tail
      /\ tx'.done = [tx.done EXCEPT ![tx.head] = TRUE] /\ tx'.buffer = tx.buffer
      /\ UNCHANGED <<rx, accepted, came, read>> /\ out' = Append(out, Len(out) + 1)
  BY <1>1, <1>5 DEF CardSends
<1>7. Following(tx.head) \in Slots
  BY <1>1, GapFacts
<1>8. Len(out') = Len(out) + 1 /\ out' \in Seq(Nat) /\ (\A i \in DOMAIN out' : i = Len(out) + 1 \/ (i \in DOMAIN out /\ out'[i] = out[i]))
      /\ out'[Len(out) + 1] = Len(out) + 1
  BY <1>1, <1>6
<1>9. CardTypes'
  <2>1. tx' \in [done : [Slots -> BOOLEAN], buffer : [Slots -> Nat], at : Slots, head : Slots, tail : Slots]
    BY <1>1, <1>7 DEF CardSends
  <2> QED BY <1>6, <1>8, <2>1 DEF CardIInv, CardTypes
<1>10. Left' = Left - 1
  BY <1>1, <1>2, <1>6, <1>8 DEF Left
<1>11. Sending'
  <2>1. Left' \in 0 .. Ring /\ Left' # Ring
    BY <1>1, <1>2, <1>3, <1>10
  <2>2. Gap(tx'.head, tx'.at) = Left'
    <3>1. tx.at # tx.head
      BY <1>3, <1>4
    <3>2. Gap(Following(tx.head), tx.at) = Gap(tx.head, tx.at) - 1
      BY <1>1, <3>1, GapFacts
    <3> QED BY <1>3, <1>6, <1>10, <3>2
  <2>3. ASSUME NEW i \in Slots, Gap(tx'.head, i) < Left'
        PROVE  ~tx'.done[i] /\ tx'.buffer[i] = Len(out') + 1 + Gap(tx'.head, i)
    <3>1. Gap(tx'.head, i) = IF i = tx.head THEN Ring - 1 ELSE Gap(tx.head, i) - 1
      BY <1>1, <1>6, GapFacts
    <3>2. i # tx.head
      BY <1>1, <1>2, <1>3, <1>10, <2>3, <3>1
    <3>3. Gap(tx.head, i) \in Nat /\ Gap(tx'.head, i) = Gap(tx.head, i) - 1
      BY <1>1, <3>1, <3>2, GapFacts DEF Slots
    <3>4. Gap(tx.head, i) < Left
      BY <1>1, <1>10, <2>3, <3>3
    <3>5. ~tx.done[i] /\ tx.buffer[i] = Len(out) + 1 + Gap(tx.head, i)
      BY <3>4 DEF CardIInv, Sending
    <3> QED BY <1>1, <1>6, <1>8, <3>2, <3>3, <3>5
  <2>4. \A i \in DOMAIN out' : out'[i] = i
    BY <1>8 DEF CardIInv, Sending
  <2> QED BY <1>6, <2>1, <2>2, <2>3, <2>4 DEF CardIInv, Sending
<1>12. Receiving'
  BY <1>6 DEF CardIInv, Receiving, Span, Gap
<1> QED BY <1>9, <1>11, <1>12 DEF CardIInv

(* The driver takes the oldest frame and gives its descriptor back.        *)
LEMMA ReadFrameOK == ASSUME CardIInv, ReadFrame PROVE CardIInv'
<1>1. /\ rx \in [done : [Slots -> BOOLEAN], buffer : [Slots -> Nat], at : Slots, head : Slots, tail : Slots]
      /\ rx.at \in Slots /\ rx.head \in Slots /\ rx.tail \in Slots
      /\ came \in Nat /\ Len(read) \in Nat /\ read \in Seq(Nat)
  BY RingFacts DEF CardIInv, CardTypes
<1>2. Ring \in Nat /\ Ring > 1 /\ rx.done[rx.at]
  BY CardAssumption DEF ReadFrame
<1>3. Gap(rx.at, rx.at) = 0 /\ 0 < Span /\ Span \in Nat /\ rx.head # rx.at
  <2>1. Gap(rx.at, rx.at) = 0
    BY <1>1, GapFacts
  <2>2. Gap(rx.at, rx.at) < Span
    BY <1>1, <1>2 DEF CardIInv, Receiving
  <2>3. Span \in Nat
    BY <1>1, GapFacts DEF Span, Slots
  <2> QED BY <2>1, <2>2, <2>3 DEF Span
<1>4. Following(rx.at) \in Slots /\ Before(rx.at) \in Slots /\ Before(rx.at) # rx.at /\ Gap(rx.at, Before(rx.at)) = Ring - 1
  BY <1>1, GapFacts
<1>5. /\ rx'.at = Following(rx.at) /\ rx'.head = rx.head /\ rx'.tail = Before(rx.at)
      /\ rx'.done = [rx.done EXCEPT ![rx.at] = FALSE] /\ rx'.buffer = rx.buffer
      /\ UNCHANGED <<tx, accepted, out, came>> /\ read' = Append(read, rx.buffer[rx.at])
  BY <1>1 DEF ReadFrame, Cleared
<1>6. rx.buffer[rx.at] \in Nat /\ rx.buffer[rx.at] <= came /\ \A k \in DOMAIN read : read[k] < rx.buffer[rx.at]
  BY <1>1, <1>3 DEF CardIInv, Receiving
<1>7. /\ Len(read') = Len(read) + 1 /\ read' \in Seq(Nat) /\ read'[Len(read) + 1] = rx.buffer[rx.at]
      /\ \A k \in DOMAIN read' : k \in Nat /\ (k = Len(read) + 1 \/ (k \in DOMAIN read /\ read'[k] = read[k]))
  BY <1>1, <1>5, <1>6
<1>8. CardTypes'
  <2>1. [rx.done EXCEPT ![rx.at] = FALSE] \in [Slots -> BOOLEAN]
    BY <1>1
  <2>2. rx' = [done |-> [rx.done EXCEPT ![rx.at] = FALSE], buffer |-> rx.buffer,
               at |-> Following(rx.at), head |-> rx.head, tail |-> Before(rx.at)]
    BY <1>1 DEF ReadFrame, Cleared
  <2> QED BY <1>1, <1>4, <1>5, <1>7, <2>1, <2>2 DEF CardIInv, CardTypes
<1>9. Sending'
  BY <1>5 DEF CardIInv, Sending, Left, Gap
<1>10. ASSUME NEW i \in Slots, i # rx.at
       PROVE  Gap(rx'.at, i) = Gap(rx.at, i) - 1 /\ Gap(rx.at, i) \in Nat
  BY <1>1, <1>5, <1>10, GapOn
<1>11. Gap(rx'.at, rx.at) = Ring - 1
  BY <1>1, <1>5, GapFacts
<1>12. Span' = Span - 1
  BY <1>1, <1>3, <1>5, <1>10 DEF Span
<1>13. Span \in 0 .. Ring - 1
  BY <1>1, GapFacts DEF Span, Slots
<1>14. ASSUME NEW i \in Slots PROVE Gap(rx'.at, i) < Span' <=> i # rx.at /\ Gap(rx.at, i) < Span
  <2>1. CASE i = rx.at
    BY <1>2, <1>11, <1>12, <1>13, <2>1
  <2>2. CASE i # rx.at
    <3>1. Gap(rx'.at, i) = Gap(rx.at, i) - 1 /\ Gap(rx.at, i) \in Nat
      BY <1>10, <2>2
    <3> QED BY <1>12, <1>13, <2>2, <3>1
  <2> QED BY <2>1, <2>2
<1>15. Receiving'
  <2>1. Span' <= Gap(rx'.at, rx'.tail)
    <3>1. Gap(rx'.at, rx'.tail) = Gap(rx.at, Before(rx.at)) - 1
      BY <1>4, <1>5, <1>10
    <3> QED BY <1>2, <1>4, <1>12, <1>13, <3>1
  <2>2. ASSUME NEW i \in Slots PROVE rx'.done[i] <=> Gap(rx'.at, i) < Span'
    <3>1. rx'.done[i] <=> i # rx.at /\ rx.done[i]
      BY <1>1, <1>5
    <3> QED BY <1>14, <3>1 DEF CardIInv, Receiving
  <2>3. ASSUME NEW i \in Slots, NEW j \in Slots, Gap(rx'.at, i) < Gap(rx'.at, j), Gap(rx'.at, j) < Span'
        PROVE  rx'.buffer[i] < rx'.buffer[j]
    <3>1. j # rx.at /\ Gap(rx.at, j) < Span
      BY <1>14, <2>3
    <3>2. Gap(rx'.at, i) \in Int /\ Gap(rx'.at, j) \in Int
      BY <1>4, <1>5, GapFacts DEF Slots
    <3>3. Gap(rx'.at, i) < Span'
      BY <1>12, <1>13, <2>3, <3>2
    <3>4. i # rx.at
      BY <1>14, <3>3
    <3>5. Gap(rx.at, i) < Gap(rx.at, j)
      <4>1. Gap(rx'.at, i) = Gap(rx.at, i) - 1 /\ Gap(rx.at, i) \in Nat
        BY <1>10, <3>4
      <4>2. Gap(rx'.at, j) = Gap(rx.at, j) - 1 /\ Gap(rx.at, j) \in Nat
        BY <1>10, <3>1
      <4> QED BY <2>3, <4>1, <4>2
    <3> QED BY <1>5, <3>1, <3>5 DEF CardIInv, Receiving
  <2>4. ASSUME NEW i \in Slots, Gap(rx'.at, i) < Span'
        PROVE  rx'.buffer[i] <= came' /\ \A k \in DOMAIN read' : read'[k] < rx'.buffer[i]
    <3>1. i # rx.at /\ Gap(rx.at, i) < Span
      BY <1>14, <2>4
    <3>2. Gap(rx.at, i) \in Nat /\ Gap(rx.at, i) # 0
      BY <1>1, <3>1, GapOn
    <3>3. rx.buffer[rx.at] < rx.buffer[i]
      BY <1>1, <1>3, <3>1, <3>2 DEF CardIInv, Receiving
    <3>4. rx.buffer[i] <= came /\ \A k \in DOMAIN read : read[k] < rx.buffer[i]
      BY <3>1 DEF CardIInv, Receiving
    <3> QED BY <1>5, <1>7, <3>3, <3>4
  <2>5. ASSUME NEW k \in DOMAIN read' PROVE read'[k] <= came' /\ (k > 1 => read'[k - 1] < read'[k])
    <3>1. CASE k = Len(read) + 1
      <4>1. k > 1 => k - 1 \in DOMAIN read /\ read'[k - 1] = read[k - 1]
        BY <1>1, <1>5, <3>1
      <4> QED BY <1>5, <1>6, <1>7, <3>1, <4>1
    <3>2. CASE k \in DOMAIN read
      <4>1. read'[k] = read[k] /\ (k > 1 => k - 1 \in DOMAIN read /\ read'[k - 1] = read[k - 1])
        BY <1>1, <1>5, <1>6, <3>2
      <4> QED BY <1>5, <3>2, <4>1 DEF CardIInv, Receiving
    <3> QED BY <1>7, <3>1, <3>2
  <2> QED BY <2>1, <2>2, <2>3, <2>4, <2>5 DEF Receiving
<1> QED BY <1>8, <1>9, <1>15 DEF CardIInv

(* The card fills the next descriptor it owns.                             *)
LEMMA CardReceivesOK == ASSUME CardIInv, CardReceives PROVE CardIInv'
<1>1. /\ rx \in [done : [Slots -> BOOLEAN], buffer : [Slots -> Nat], at : Slots, head : Slots, tail : Slots]
      /\ rx.at \in Slots /\ rx.head \in Slots /\ rx.tail \in Slots
      /\ came \in Nat /\ read \in Seq(Nat) /\ MaxFrames \in Nat
  BY RingFacts, CardAssumption DEF CardIInv, CardTypes
<1>2. Ring \in Nat /\ Ring > 1 /\ came' = came + 1 /\ came' \in 0 .. MaxFrames
  BY <1>1, CardAssumption DEF CardReceives
<1>3. UNCHANGED <<tx, accepted, out, read>>
  BY DEF CardReceives
<1>4. Sending'
  BY <1>3 DEF CardIInv, Sending, Left, Gap
<1>5. \A k \in DOMAIN read : read[k] \in Nat /\ read[k] <= came
  BY <1>1 DEF CardIInv, Receiving
<1>6. \A i \in Slots : rx.buffer[i] \in Nat
  BY <1>1
<1>7. CASE rx' = rx
  <2>1. CardTypes'
    BY <1>2, <1>3, <1>7 DEF CardIInv, CardTypes
  <2>2. \A k \in DOMAIN read : read[k] <= came'
    BY <1>1, <1>2, <1>5
  <2>3. \A i \in Slots : rx.buffer[i] <= came => rx.buffer[i] <= came'
    BY <1>1, <1>2, <1>6
  <2>4. Span' = Span /\ rx'.at = rx.at
    BY <1>7 DEF Span, Gap
  <2>5. Receiving'
    BY <1>3, <1>7, <2>2, <2>3, <2>4 DEF CardIInv, Receiving
  <2> QED BY <1>4, <2>1, <2>5 DEF CardIInv
<1>8. CASE rx.head # rx.tail /\ rx' = [rx EXCEPT !.buffer[rx.head] = came', !.done[rx.head] = TRUE, !.head = Following(@)]
  <2>1. /\ rx'.at = rx.at /\ rx'.head = Following(rx.head) /\ rx'.tail = rx.tail
        /\ rx'.done = [rx.done EXCEPT ![rx.head] = TRUE] /\ rx'.buffer = [rx.buffer EXCEPT ![rx.head] = came']
    BY <1>1, <1>8
  <2>2. Following(rx.head) \in Slots
    BY <1>1, GapFacts
  <2>3. CardTypes'
    <3>1. [rx.done EXCEPT ![rx.head] = TRUE] \in [Slots -> BOOLEAN] /\ [rx.buffer EXCEPT ![rx.head] = came'] \in [Slots -> Nat]
      BY <1>1, <1>2
    <3>2. rx' = [done |-> [rx.done EXCEPT ![rx.head] = TRUE], buffer |-> [rx.buffer EXCEPT ![rx.head] = came'],
                 at |-> rx.at, head |-> Following(rx.head), tail |-> rx.tail]
      BY <1>1, <1>8
    <3> DEFINE R == [done : [Slots -> BOOLEAN], buffer : [Slots -> Nat], at : Slots, head : Slots, tail : Slots]
               d == [rx.done EXCEPT ![rx.head] = TRUE]
               b == [rx.buffer EXCEPT ![rx.head] = came']
    <3>3. rx.at \in Slots /\ rx.tail \in Slots
      BY <1>1
    <3> HIDE DEF d, b
    <3>4. rx' \in R
      BY <2>2, <3>1, <3>2, <3>3 DEF d, b
    <3> HIDE DEF R
    <3>5. {tx, rx} \subseteq R /\ accepted \in 0 .. MaxFrames /\ out \in Seq(Nat) /\ read \in Seq(Nat)
      BY DEF CardIInv, CardTypes, R
    <3>6. tx' \in R /\ accepted' \in 0 .. MaxFrames /\ out' \in Seq(Nat) /\ read' \in Seq(Nat) /\ came' \in 0 .. MaxFrames
      BY <1>2, <1>3, <3>5
    <3> QED BY <3>4, <3>6 DEF CardTypes, R
  <2>4. Span \in 0 .. Ring - 1 /\ Gap(rx.at, rx.tail) \in 0 .. Ring - 1 /\ Span < Gap(rx.at, rx.tail)
    <3>1. Span \in 0 .. Ring - 1 /\ Gap(rx.at, rx.tail) \in 0 .. Ring - 1
      BY <1>1, GapFacts DEF Span, Slots
    <3>2. Span # Gap(rx.at, rx.tail)
      BY <1>1, <1>8, GapApart DEF Span
    <3>3. Span <= Gap(rx.at, rx.tail)
      BY DEF CardIInv, Receiving
    <3> QED BY <1>2, <3>1, <3>2, <3>3
  <2>5. Span' = Span + 1
    <3>1. Span # Ring - 1
      BY <1>2, <2>4
    <3>2. Gap(rx.at, Following(rx.head)) = Gap(rx.at, rx.head) + 1
      BY <1>1, <3>1, GapFarther DEF Span
    <3>3. Span' = Gap(rx.at, Following(rx.head))
      BY <2>1 DEF Span, Gap
    <3> QED BY <3>2, <3>3 DEF Span
  <2>6. ASSUME NEW i \in Slots
        PROVE  /\ Gap(rx.at, i) \in Nat /\ (i = rx.head <=> Gap(rx.at, i) = Span)
               /\ (Gap(rx.at, i) < Span' <=> i = rx.head \/ Gap(rx.at, i) < Span)
    <3>1. Gap(rx.at, i) \in Nat
      BY <1>1, GapFacts DEF Slots
    <3>2. Gap(rx.at, i) = Gap(rx.at, rx.head) => i = rx.head
      BY <1>1, GapApart
    <3>3. i = rx.head <=> Gap(rx.at, i) = Span
      BY <3>2 DEF Span
    <3> QED BY <1>2, <2>4, <2>5, <3>1, <3>3
  <2>7. Receiving'
    <3>1. Span' <= Gap(rx.at, rx.tail)
      BY <1>2, <2>4, <2>5
    <3>2. ASSUME NEW i \in Slots PROVE rx'.done[i] <=> Gap(rx.at, i) < Span'
      BY <1>1, <2>1, <2>6 DEF CardIInv, Receiving
    <3>3. ASSUME NEW i \in Slots, i # rx.head, Gap(rx.at, i) < Span'
          PROVE  rx'.buffer[i] = rx.buffer[i] /\ rx.buffer[i] \in Nat /\ rx.buffer[i] <= came
                 /\ \A k \in DOMAIN read : read[k] < rx.buffer[i]
      BY <1>1, <2>1, <2>6, <3>3 DEF CardIInv, Receiving
    <3>4. rx'.buffer[rx.head] = came + 1
      BY <1>1, <1>2, <2>1
    <3>5. ASSUME NEW i \in Slots, NEW j \in Slots, Gap(rx.at, i) < Gap(rx.at, j), Gap(rx.at, j) < Span'
          PROVE  rx'.buffer[i] < rx'.buffer[j]
      <4>1. Gap(rx.at, i) \in Nat /\ Gap(rx.at, j) \in Nat
        BY <2>6
      <4>2. Gap(rx.at, i) < Span
        BY <1>2, <2>4, <2>5, <3>5, <4>1
      <4>3. i # rx.head /\ Gap(rx.at, i) < Span'
        BY <2>4, <2>5, <2>6, <4>1, <4>2
      <4>4. rx'.buffer[i] = rx.buffer[i] /\ rx.buffer[i] \in Nat /\ rx.buffer[i] <= came
        BY <3>3, <4>3
      <4>5. CASE j = rx.head
        BY <1>1, <3>4, <4>4, <4>5
      <4>6. CASE j # rx.head
        <5>1. Gap(rx.at, j) < Span
          BY <2>6, <3>5, <4>6
        <5>2. rx'.buffer[j] = rx.buffer[j]
          BY <3>3, <3>5, <4>6
        <5>3. rx.buffer[i] < rx.buffer[j]
          BY <3>5, <5>1 DEF CardIInv, Receiving
        <5> QED BY <4>4, <5>2, <5>3
      <4> QED BY <4>5, <4>6
    <3>6. ASSUME NEW i \in Slots, Gap(rx.at, i) < Span'
          PROVE  rx'.buffer[i] <= came' /\ \A k \in DOMAIN read : read[k] < rx'.buffer[i]
      <4>1. CASE i = rx.head
        BY <1>1, <1>2, <1>5, <3>4, <4>1
      <4>2. CASE i # rx.head
        <5>1. rx'.buffer[i] = rx.buffer[i] /\ rx.buffer[i] \in Nat /\ rx.buffer[i] <= came
              /\ \A k \in DOMAIN read : read[k] < rx.buffer[i]
          BY <3>3, <3>6, <4>2
        <5> QED BY <1>1, <1>2, <5>1
      <4> QED BY <4>1, <4>2
    <3>7. \A k \in DOMAIN read : read[k] <= came' /\ (k > 1 => read[k - 1] < read[k])
      BY <1>1, <1>2, <1>5 DEF CardIInv, Receiving
    <3> QED BY <1>3, <2>1, <3>1, <3>2, <3>5, <3>6, <3>7 DEF Receiving
  <2> QED BY <1>4, <2>3, <2>7 DEF CardIInv
<1> QED BY <1>7, <1>8 DEF CardReceives

(* Both rings of the card keep who owns each descriptor, and the frames    *)
(* they hold in order (e1000.rs, send and receive).                        *)
THEOREM CardInvariant == CardSpec => []CardIInv
<1>1. CardIInv /\ [CardNext]_cardVars => CardIInv'
  <2> SUFFICES ASSUME CardIInv, [CardNext]_cardVars PROVE CardIInv'
    OBVIOUS
  <2>1. CASE UNCHANGED cardVars
    BY <2>1 DEF cardVars, CardIInv, CardTypes, Sending, Receiving, Left, Span, Gap
  <2> QED BY <2>1, SendFrameOK, ReadFrameOK, CardSendsOK, CardReceivesOK DEF CardNext
<1> QED
  BY <1>1, CardStarts, PTL DEF CardSpec

\* Whatever the size of the rings, and however far the card and the driver
\* get ahead of each other: what goes out is what was sent, each frame once
\* and in order, and what comes in is read once and in the order it came
\* (send and receive of e1000.rs).
THEOREM FramesStayInOrder == CardSpec => []FramesInOrder
<1>1. CardIInv => FramesInOrder
  <2> SUFFICES ASSUME CardIInv PROVE FramesInOrder
    OBVIOUS
  <2>1. Ring \in Nat /\ Left \in 0 .. Ring /\ Left = accepted - Len(out) /\ accepted \in Nat /\ Len(out) \in Nat
    BY CardAssumption, RingFacts DEF CardIInv, Sending, Left
  <2>2. Len(out) <= accepted
    BY <2>1
  <2> QED BY <2>2 DEF CardIInv, Sending, Receiving, FramesInOrder
<1> QED
  BY <1>1, CardInvariant, PTL

(***************************************************************************)
(* The keyboard and the mouse                                              *)
(***************************************************************************)
LoopIInv == loop \in {"resting", "halt"} => IsEmpty

\* main.rs: "no event waits for the one after it".  The look at the ring and
\* the rest are one step for the handlers, which interrupts being off keeps out.
THEOREM NoEventLeft == InputSpec => []NoEventWaits
<1>1. InputInit => LoopIInv
  BY DEF InputInit, LoopIInv
<1>2. LoopIInv /\ [InputNext]_inputVars => LoopIInv'
  <2> SUFFICES ASSUME LoopIInv, [InputNext]_inputVars PROVE LoopIInv'
    OBVIOUS
  <2> USE DEF LoopIInv, IsEmpty
  <2>1. CASE KeyboardSends \/ MouseSends
    BY <2>1 DEF KeyboardSends, MouseSends, DeviceSends
  <2>2. ASSUME NEW bytes, NEW rest, Handles(bytes, rest) PROVE LoopIInv'
    BY <2>2 DEF Handles, Masked
  <2>3. CASE PopReads \/ PopStores \/ Look \/ Halt
    BY <2>3 DEF PopReads, PopStores, Look, Halt, Rests
  <2>4. CASE UNCHANGED inputVars
    BY <2>4 DEF inputVars
  <2> QED BY <2>1, <2>2, <2>3, <2>4 DEF InputNext, DeviceHandler, TimerHandler
<1>3. LoopIInv => NoEventWaits
  BY DEF LoopIInv, NoEventWaits
<1> QED
  BY <1>1, <1>2, <1>3, PTL DEF InputSpec

\* A byte says what was sent: a key's code is the one of its number, and the
\* first byte of a packet is marked.
AnyByte == [from : {"key", "mouse", "timer"}, n : Nat, code : Nat, mark : BOOLEAN]
Faithful(b, typed) ==
    /\ b.from = "key" => b.n \in 1 .. Len(typed) /\ b.code = typed[b.n]
    /\ b.from = "mouse" => b.n > 0 /\ b.mark = ((b.n - 1) % PacketSize = 0)
Bytes(typed) == {b \in AnyByte : Faithful(b, typed)}

Cells == 0 .. RingSize - 1
RingType(B) == [words : [Cells -> B], head : Cells, tail : Cells, lost : BOOLEAN]

\* The words between the tail and the head, in the order they came.
Waiting(e) == IF e.head >= e.tail THEN e.head - e.tail ELSE e.head - e.tail + RingSize
Cell(t, k) == IF t + k <= RingSize THEN t + k - 1 ELSE t + k - 1 - RingSize
Held(e) == [k \in 1 .. Waiting(e) |-> e.words[Cell(e.tail, k)]]

(* No word is in the cell the head is at, which is the next.               *)
LEMMA CellIs ==
  ASSUME NEW t \in Cells, NEW h \in Cells, NEW k \in Nat, k > 0, k <= IF h >= t THEN h - t ELSE h - t + RingSize
  PROVE  Cell(t, k) \in Cells /\ Cell(t, k) # h
<1>1. RingSize \in Nat /\ RingSize >= 2 /\ t \in Nat /\ h \in Nat /\ t < RingSize /\ h < RingSize
  BY InputAssumption DEF Cells
<1>2. CASE h >= t
  BY <1>1, <1>2 DEF Cell, Cells
<1>3. CASE h < t /\ t + k <= RingSize
  BY <1>1, <1>3 DEF Cell, Cells
<1>4. CASE h < t /\ t + k > RingSize
  BY <1>1, <1>4 DEF Cell, Cells
<1> QED
  BY <1>1, <1>2, <1>3, <1>4

(* The first word gone, each is one nearer the tail.                       *)
LEMMA CellMoves ==
  ASSUME NEW t \in Cells, NEW u \in Cells, NEW k \in Nat, k > 0, k < RingSize,
         u = IF t = RingSize - 1 THEN 0 ELSE t + 1
  PROVE  Cell(u, k) = Cell(t, k + 1) /\ Cell(u, k) \in Cells /\ Cell(u, k) # t
<1>1. RingSize \in Nat /\ RingSize >= 2 /\ t \in Nat /\ t < RingSize
  BY InputAssumption DEF Cells
<1>2. CASE t = RingSize - 1
  BY <1>1, <1>2 DEF Cell, Cells
<1>3. CASE t # RingSize - 1 /\ t + 1 + k <= RingSize
  BY <1>1, <1>3 DEF Cell, Cells
<1>4. CASE t # RingSize - 1 /\ t + 1 + k > RingSize
  BY <1>1, <1>4 DEF Cell, Cells
<1> QED
  BY <1>1, <1>2, <1>3, <1>4

(* The next cell, round the ring.                                          *)
LEMMA AfterIs ==
  ASSUME NEW i \in Cells
  PROVE  /\ i < RingSize - 1 => After(i) = i + 1
         /\ i = RingSize - 1 => After(i) = 0
         /\ After(i) \in Cells
<1>1. ASSUME NEW r \in Nat \ {0}, NEW x \in Nat
      PROVE  (x < r => x % r = x) /\ (x = r => x % r = 0)
  OBVIOUS
<1>2. RingSize \in Nat \ {0} /\ i + 1 \in Nat /\ (i + 1 < RingSize \/ i + 1 = RingSize)
  BY InputAssumption DEF Cells
<1>3. (i + 1 < RingSize => After(i) = i + 1) /\ (i + 1 = RingSize => After(i) = 0)
  BY <1>1, <1>2 DEF After
<1> QED
  BY <1>2, <1>3 DEF Cells

(* A word is pushed behind the others, or lost where there is no room.     *)
LEMMA PushIs ==
  ASSUME NEW B, NEW e \in RingType(B), NEW b \in B
  PROVE  LET f == Push(e, b)
         IN  /\ f \in RingType(B) /\ f.tail = e.tail /\ (e.lost => f.lost)
             /\ \A k \in 1 .. Waiting(e) : k \in 1 .. Waiting(f) /\ Held(f)[k] = Held(e)[k]
             /\ ~f.lost => Waiting(f) = Waiting(e) + 1 /\ Held(f)[Waiting(e) + 1] = b
<1>1. RingSize \in Nat /\ RingSize >= 2
  BY InputAssumption
<1>2. e = [words |-> e.words, head |-> e.head, tail |-> e.tail, lost |-> e.lost]
      /\ e.words \in [Cells -> B] /\ e.head \in Cells /\ e.tail \in Cells /\ e.lost \in BOOLEAN
  BY DEF RingType
<1>3. CASE After(e.head) = e.tail
  <2> DEFINE f == [words |-> e.words, head |-> e.head, tail |-> e.tail, lost |-> TRUE]
  <2>1. Push(e, b) = f
    BY <1>2, <1>3 DEF Push
  <2>2. f \in RingType(B) /\ f.tail = e.tail /\ f.lost /\ f.head = e.head /\ f.words = e.words
    BY <1>2 DEF RingType
  <2> HIDE DEF f
  <2>3. Waiting(f) = Waiting(e) /\ Held(f) = Held(e)
    BY <2>2 DEF Waiting, Held, Cell
  <2> QED BY <2>1, <2>2, <2>3
<1>4. CASE After(e.head) # e.tail
  <2> DEFINE h == After(e.head)
             w == [e.words EXCEPT ![e.head] = b]
             f == [words |-> w, head |-> h, tail |-> e.tail, lost |-> e.lost]
  <2>1. Push(e, b) = f
    BY <1>2, <1>4 DEF Push
  <2>2. h \in Cells /\ h # e.tail /\ (e.head < RingSize - 1 => h = e.head + 1) /\ (e.head = RingSize - 1 => h = 0)
    BY <1>2, <1>4, AfterIs
  <2>3. w \in [Cells -> B] /\ w[e.head] = b /\ \A c \in Cells : c # e.head => w[c] = e.words[c]
    BY <1>2
  <2> HIDE DEF h, w
  <2>4. f \in RingType(B) /\ f.tail = e.tail /\ f.head = h /\ f.words = w /\ f.lost = e.lost
    BY <1>2, <2>2, <2>3 DEF RingType
  <2> HIDE DEF f
  <2>5. Waiting(f) = Waiting(e) + 1 /\ Waiting(e) \in Nat /\ Waiting(e) < RingSize
    BY <1>1, <1>2, <2>2, <2>4 DEF Waiting, Cells
  <2>6. Cell(f.tail, Waiting(e) + 1) = e.head
    BY <1>1, <1>2, <2>4 DEF Waiting, Cell, Cells
  <2>7. ASSUME NEW k \in 1 .. Waiting(e) PROVE Cell(f.tail, k) = Cell(e.tail, k) /\ Cell(e.tail, k) \in Cells /\ Cell(e.tail, k) # e.head
    <3>1. k \in Nat /\ k > 0 /\ k <= Waiting(e)
      BY <2>5
    <3>2. Cell(e.tail, k) \in Cells /\ Cell(e.tail, k) # e.head
      BY <1>2, <3>1, CellIs DEF Waiting
    <3>3. Cell(f.tail, k) = Cell(e.tail, k)
      BY <2>4 DEF Cell
    <3> QED BY <3>2, <3>3
  <2>8. ASSUME NEW k \in 1 .. Waiting(e) PROVE k \in 1 .. Waiting(f) /\ Held(f)[k] = Held(e)[k]
    <3>1. k \in 1 .. Waiting(f)
      BY <2>5
    <3>2. Held(f)[k] = w[Cell(f.tail, k)] /\ Held(e)[k] = e.words[Cell(e.tail, k)]
      BY <2>4, <3>1 DEF Held
    <3> QED BY <2>3, <2>7, <3>1, <3>2
  <2>9. Held(f)[Waiting(e) + 1] = b
    <3>1. Waiting(e) + 1 \in 1 .. Waiting(f)
      BY <2>5
    <3>2. Held(f)[Waiting(e) + 1] = w[Cell(f.tail, Waiting(e) + 1)]
      BY <2>4, <3>1 DEF Held
    <3> QED BY <2>3, <2>6, <3>2
  <2> QED BY <2>1, <2>4, <2>5, <2>8, <2>9
<1> QED
  BY <1>3, <1>4

(* A ring that is not empty holds the word at its tail first.              *)
LEMMA FirstIs ==
  ASSUME NEW B, NEW e \in RingType(B), e.head # e.tail
  PROVE  Waiting(e) \in Nat \ {0} /\ 1 \in 1 .. Waiting(e) /\ Held(e)[1] = e.words[e.tail]
<1>1. RingSize \in Nat /\ RingSize >= 2 /\ e.head \in Cells /\ e.tail \in Cells
  BY InputAssumption DEF RingType
<1>2. Waiting(e) \in Nat \ {0}
  BY <1>1 DEF Waiting, Cells
<1>3. Cell(e.tail, 1) = e.tail /\ 1 \in 1 .. Waiting(e)
  BY <1>1, <1>2 DEF Cell, Cells
<1> QED
  BY <1>2, <1>3 DEF Held

Popped(e, b) == [words |-> [e.words EXCEPT ![e.tail] = b], head |-> e.head, tail |-> After(e.tail), lost |-> e.lost]

(* That one popped, the others move up.                                    *)
LEMMA PopIs ==
  ASSUME NEW B, NEW e \in RingType(B), NEW b \in B, e.head # e.tail
  PROVE  LET f == Popped(e, b)
         IN  /\ f \in RingType(B) /\ f.lost = e.lost
             /\ Waiting(e) \in Nat \ {0} /\ Waiting(f) = Waiting(e) - 1
             /\ \A k \in 1 .. Waiting(f) : Held(f)[k] = Held(e)[k + 1]
<1>1. RingSize \in Nat /\ RingSize >= 2
  BY InputAssumption
<1>2. e = [words |-> e.words, head |-> e.head, tail |-> e.tail, lost |-> e.lost]
      /\ e.words \in [Cells -> B] /\ e.head \in Cells /\ e.tail \in Cells /\ e.lost \in BOOLEAN
  BY DEF RingType
<1> DEFINE t == After(e.tail)
           w == [e.words EXCEPT ![e.tail] = b]
           f == [words |-> w, head |-> e.head, tail |-> t, lost |-> e.lost]
<1>3. Popped(e, b) = f
  BY DEF Popped
<1>4. t \in Cells /\ (e.tail < RingSize - 1 => t = e.tail + 1) /\ (e.tail = RingSize - 1 => t = 0)
  BY <1>2, AfterIs
<1>5. w \in [Cells -> B] /\ \A c \in Cells : c # e.tail => w[c] = e.words[c]
  BY <1>2
<1> HIDE DEF t, w
<1>6. f \in RingType(B) /\ f.tail = t /\ f.head = e.head /\ f.words = w /\ f.lost = e.lost
  BY <1>2, <1>4, <1>5 DEF RingType
<1> HIDE DEF f
<1>7. Waiting(e) \in Nat \ {0} /\ Waiting(f) = Waiting(e) - 1
  BY <1>1, <1>2, <1>4, <1>6 DEF Waiting, Cells
<1>9. ASSUME NEW k \in 1 .. Waiting(f)
      PROVE  k + 1 \in 1 .. Waiting(e) /\ Cell(f.tail, k) = Cell(e.tail, k + 1) /\ Cell(f.tail, k) \in Cells /\ Cell(f.tail, k) # e.tail
  <2>1. k \in Nat /\ k > 0 /\ k <= Waiting(f) /\ k + 1 \in 1 .. Waiting(e)
    BY <1>7
  <2>2. Waiting(f) < RingSize
    BY <1>1, <1>2, <1>4, <1>6 DEF Waiting, Cells
  <2>3. t = IF e.tail = RingSize - 1 THEN 0 ELSE e.tail + 1
    BY <1>1, <1>2, <1>4 DEF Cells
  <2>4. k < RingSize
    BY <1>1, <1>2, <2>1, <2>2, <1>7
  <2>5. Cell(f.tail, k) = Cell(e.tail, k + 1) /\ Cell(f.tail, k) \in Cells /\ Cell(f.tail, k) # e.tail
    BY <1>2, <1>4, <1>6, <2>1, <2>3, <2>4, CellMoves
  <2> QED BY <2>1, <2>5
<1>10. ASSUME NEW k \in 1 .. Waiting(f) PROVE Held(f)[k] = Held(e)[k + 1]
  <2>1. Held(f)[k] = w[Cell(f.tail, k)] /\ Held(e)[k + 1] = e.words[Cell(e.tail, k + 1)]
    BY <1>6, <1>9 DEF Held
  <2> QED BY <1>5, <1>9, <2>1
<1> QED
  BY <1>3, <1>6, <1>7, <1>10

\* From a to b of s, what one device sent is its bytes low + 1 to high, in order.
Orderly(s, a, b, who, low, high) ==
  /\ low <= high
  /\ \A k \in a .. b : s[k].from = who => s[k].n > low /\ s[k].n <= high
  /\ \A j, k \in a .. b : j < k /\ s[j].from = who /\ s[k].from = who => s[j].n < s[k].n
  /\ \A n \in low + 1 .. high : \E k \in a .. b : s[k].from = who /\ s[k].n = n

(* One byte more at the end.                                               *)
LEMMA OrderlyAdd ==
  ASSUME NEW s, NEW t, NEW b \in Nat, NEW who, NEW low \in Nat, NEW high \in Nat, Orderly(s, 1, b, who, low, high),
         \A k \in 1 .. b : s[k].n \in Nat, t[b + 1].n \in Nat, \A k \in 1 .. b : t[k] = s[k]
  PROVE  /\ t[b + 1].from # who => Orderly(t, 1, b + 1, who, low, high)
         /\ t[b + 1].from = who /\ t[b + 1].n = high + 1 => Orderly(t, 1, b + 1, who, low, high + 1)
<1>1. \A k \in 1 .. b + 1 : k \in 1 .. b \/ k = b + 1
  OBVIOUS
<1>2. b + 1 \in 1 .. b + 1 /\ \A k \in 1 .. b : k \in 1 .. b + 1
  OBVIOUS
<1>3. CASE t[b + 1].from # who
  <2>1. \A k \in 1 .. b + 1 : t[k].from = who => t[k].n > low /\ t[k].n <= high
    BY <1>1, <1>3 DEF Orderly
  <2>2. \A j, k \in 1 .. b + 1 : j < k /\ t[j].from = who /\ t[k].from = who => t[j].n < t[k].n
    BY <1>1, <1>3 DEF Orderly
  <2>3. \A n \in low + 1 .. high : \E k \in 1 .. b + 1 : t[k].from = who /\ t[k].n = n
    BY <1>2 DEF Orderly
  <2> QED BY <1>3, <2>1, <2>2, <2>3 DEF Orderly
<1>4. CASE t[b + 1].from = who /\ t[b + 1].n = high + 1
  <2>1. \A k \in 1 .. b + 1 : t[k].from = who => t[k].n > low /\ t[k].n <= high + 1
    BY <1>1, <1>4 DEF Orderly
  <2>2. \A j, k \in 1 .. b + 1 : j < k /\ t[j].from = who /\ t[k].from = who => t[j].n < t[k].n
    <3> SUFFICES ASSUME NEW j \in 1 .. b + 1, NEW k \in 1 .. b + 1, j < k, t[j].from = who, t[k].from = who
                 PROVE  t[j].n < t[k].n
      OBVIOUS
    <3>1. j \in 1 .. b
      OBVIOUS
    <3>2. CASE k \in 1 .. b
      BY <3>1, <3>2 DEF Orderly
    <3>3. CASE k = b + 1
      BY <1>4, <3>1, <3>3 DEF Orderly
    <3> QED BY <1>1, <3>2, <3>3
  <2>3. \A n \in low + 1 .. high + 1 : \E k \in 1 .. b + 1 : t[k].from = who /\ t[k].n = n
    <3> SUFFICES ASSUME NEW n \in low + 1 .. high + 1 PROVE \E k \in 1 .. b + 1 : t[k].from = who /\ t[k].n = n
      OBVIOUS
    <3>1. CASE n = high + 1
      BY <1>2, <1>4, <3>1
    <3>2. CASE n \in low + 1 .. high
      BY <1>2, <3>2 DEF Orderly
    <3> QED BY <3>1, <3>2
  <2>4. low <= high + 1
    BY DEF Orderly
  <2> QED BY <1>4, <2>1, <2>2, <2>3, <2>4 DEF Orderly
<1> QED
  BY <1>3, <1>4

(* The first byte taken away: if the device sent it, it is the next one.   *)
LEMMA OrderlyDrop ==
  ASSUME NEW s, NEW a \in Nat, NEW b \in Nat, a <= b, NEW who, NEW low \in Nat, NEW high \in Nat,
         Orderly(s, a, b, who, low, high), \A k \in a .. b : s[k].n \in Nat
  PROVE  /\ s[a].from # who => Orderly(s, a + 1, b, who, low, high)
         /\ s[a].from = who => s[a].n = low + 1 /\ Orderly(s, a + 1, b, who, low + 1, high)
<1>1. \A k \in a .. b : k = a \/ (k \in a + 1 .. b /\ a < k)
  OBVIOUS
<1>2. a \in a .. b /\ \A k \in a + 1 .. b : k \in a .. b /\ a < k
  OBVIOUS
<1>3. CASE s[a].from # who
  <2>1. \A n \in low + 1 .. high : \E k \in a + 1 .. b : s[k].from = who /\ s[k].n = n
    BY <1>1, <1>3 DEF Orderly
  <2> QED BY <1>2, <1>3, <2>1 DEF Orderly
<1>4. CASE s[a].from = who
  <2>1. s[a].n \in Nat /\ s[a].n > low /\ s[a].n <= high
    BY <1>2, <1>4 DEF Orderly
  <2>2. low + 1 \in low + 1 .. high
    BY <2>1
  <2>3. PICK k \in a .. b : s[k].from = who /\ s[k].n = low + 1
    BY <2>2 DEF Orderly
  <2>4. k = a
    <3>1. CASE k \in a + 1 .. b /\ a < k
      <4>1. s[a].n < s[k].n
        BY <1>2, <1>4, <2>3, <3>1 DEF Orderly
      <4> QED BY <2>1, <2>3, <4>1
    <3> QED BY <1>1, <3>1
  <2>5. s[a].n = low + 1
    BY <2>3, <2>4
  <2>6. \A i \in a + 1 .. b : s[i].from = who => s[i].n > low + 1 /\ s[i].n <= high
    <3> SUFFICES ASSUME NEW i \in a + 1 .. b, s[i].from = who PROVE s[i].n > low + 1 /\ s[i].n <= high
      OBVIOUS
    <3>1. i \in a .. b /\ a < i
      BY <1>2
    <3> QED BY <1>2, <1>4, <2>5, <3>1 DEF Orderly
  <2>7. \A n \in low + 2 .. high : \E i \in a + 1 .. b : s[i].from = who /\ s[i].n = n
    <3> SUFFICES ASSUME NEW n \in low + 2 .. high PROVE \E i \in a + 1 .. b : s[i].from = who /\ s[i].n = n
      OBVIOUS
    <3>1. n \in low + 1 .. high /\ n # low + 1
      OBVIOUS
    <3>2. PICK i \in a .. b : s[i].from = who /\ s[i].n = n
      BY <3>1 DEF Orderly
    <3> QED BY <1>1, <2>5, <3>1, <3>2
  <2>8. (low + 1) + 1 = low + 2 /\ low + 1 <= high
    BY <2>1
  <2>9. \A j, i \in a + 1 .. b : j < i /\ s[j].from = who /\ s[i].from = who => s[j].n < s[i].n
    BY <1>2 DEF Orderly
  <2>10. Orderly(s, a + 1, b, who, low + 1, high)
    BY <2>6, <2>7, <2>8, <2>9 DEF Orderly
  <2> QED BY <1>4, <2>5, <2>10
<1> QED
  BY <1>3, <1>4

(* The same bytes under other indices.                                     *)
LEMMA OrderlyMoved ==
  ASSUME NEW s, NEW t, NEW d \in Nat, NEW b \in Nat, NEW who, NEW low, NEW high,
         Orderly(s, d + 1, d + b, who, low, high), \A k \in 1 .. b : t[k] = s[d + k]
  PROVE  Orderly(t, 1, b, who, low, high)
<1>1. \A k \in 1 .. b : d + k \in d + 1 .. d + b
  OBVIOUS
<1>2. \A i \in d + 1 .. d + b : i - d \in 1 .. b /\ d + (i - d) = i
  OBVIOUS
<1>3. \A j, k \in 1 .. b : j < k => d + j < d + k
  OBVIOUS
<1>4. \A k \in 1 .. b : t[k].from = who => t[k].n > low /\ t[k].n <= high
  BY <1>1 DEF Orderly
<1>5. \A j, k \in 1 .. b : j < k /\ t[j].from = who /\ t[k].from = who => t[j].n < t[k].n
  BY <1>1, <1>3 DEF Orderly
<1>6. \A n \in low + 1 .. high : \E k \in 1 .. b : t[k].from = who /\ t[k].n = n
  <2> SUFFICES ASSUME NEW n \in low + 1 .. high PROVE \E k \in 1 .. b : t[k].from = who /\ t[k].n = n
    OBVIOUS
  <2>1. PICK i \in d + 1 .. d + b : s[i].from = who /\ s[i].n = n
    BY DEF Orderly
  <2>2. t[i - d] = s[i] /\ i - d \in 1 .. b
    BY <1>2
  <2> QED BY <2>1, <2>2
<1> QED
  BY <1>4, <1>5, <1>6 DEF Orderly

(* The bytes of a list that comes behind one that the device did not send. *)
LEMMA OrderlyTicked ==
  ASSUME NEW s, NEW t, NEW b \in Nat, NEW who, NEW low, NEW high,
         Orderly(s, 1, b, who, low, high), \A k \in 1 .. b : t[k + 1] = s[k], t[1].from # who
  PROVE  Orderly(t, 1, b + 1, who, low, high)
<1>1. \A i \in 1 .. b + 1 : i = 1 \/ (i - 1 \in 1 .. b /\ (i - 1) + 1 = i)
  OBVIOUS
<1>2. \A k \in 1 .. b : k + 1 \in 1 .. b + 1
  OBVIOUS
<1>3. \A i \in 1 .. b + 1 : t[i].from = who => i - 1 \in 1 .. b /\ t[i] = s[i - 1]
  BY <1>1
<1>4. \A i \in 1 .. b + 1 : t[i].from = who => t[i].n > low /\ t[i].n <= high
  BY <1>3 DEF Orderly
<1>5. ASSUME NEW i \in 1 .. b + 1, NEW j \in 1 .. b + 1, i < j, t[i].from = who, t[j].from = who PROVE t[i].n < t[j].n
  <2>1. i - 1 \in 1 .. b /\ j - 1 \in 1 .. b /\ i - 1 < j - 1 /\ t[i] = s[i - 1] /\ t[j] = s[j - 1]
    BY <1>3, <1>5
  <2> QED BY <1>5, <2>1 DEF Orderly
<1>6. ASSUME NEW n \in low + 1 .. high PROVE \E i \in 1 .. b + 1 : t[i].from = who /\ t[i].n = n
  <2>1. PICK k \in 1 .. b : s[k].from = who /\ s[k].n = n
    BY DEF Orderly
  <2>2. t[k + 1] = s[k] /\ k + 1 \in 1 .. b + 1
    BY <1>2
  <2> QED BY <2>1, <2>2
<1> QED
  BY <1>4, <1>5, <1>6 DEF Orderly

\* The ring holds what a device sent from low + 1 on, and what is left of s
\* the rest.
Mixed(e, s, k, n, who, low, high) ==
    \E mid \in Nat : Orderly(Held(e), 1, Waiting(e), who, low, mid) /\ Orderly(s, k, n, who, mid, high)

(* A ring's length, and the words it holds.                                *)
LEMMA HeldIs ==
  ASSUME NEW B, NEW e \in RingType(B)
  PROVE  Waiting(e) \in Nat /\ \A k \in 1 .. Waiting(e) : Held(e)[k] \in B
<1>1. e.words \in [Cells -> B] /\ e.head \in Cells /\ e.tail \in Cells
  BY DEF RingType
<1>2. Waiting(e) \in Nat
  BY <1>1, InputAssumption DEF Waiting, Cells
<1>3. ASSUME NEW k \in 1 .. Waiting(e) PROVE Held(e)[k] \in B
  <2>1. k \in Nat /\ k > 0 /\ k <= Waiting(e)
    BY <1>2
  <2>2. Cell(e.tail, k) \in Cells
    BY <1>1, <2>1, CellIs DEF Waiting
  <2>3. Held(e)[k] = e.words[Cell(e.tail, k)]
    BY DEF Held
  <2> QED BY <1>1, <2>2, <2>3
<1> QED
  BY <1>2, <1>3

(* The first byte left is pushed.                                          *)
LEMMA MixedPushed ==
  ASSUME NEW B \in SUBSET AnyByte, NEW s \in Seq(B), NEW k \in 1 .. Len(s), NEW e \in RingType(B), NEW who,
         NEW low \in Nat, NEW high \in Nat, Mixed(e, s, k, Len(s), who, low, high), ~Push(e, s[k]).lost
  PROVE  Mixed(Push(e, s[k]), s, k + 1, Len(s), who, low, high)
<1> DEFINE b == s[k]
           f == Push(e, b)
           w == Waiting(e)
<1>1. PICK mid \in Nat : Orderly(Held(e), 1, w, who, low, mid) /\ Orderly(s, k, Len(s), who, mid, high)
  BY DEF Mixed
<1>2. b \in B /\ b.n \in Nat /\ k \in Nat /\ Len(s) \in Nat /\ k <= Len(s) /\ \A i \in k .. Len(s) : s[i].n \in Nat
  BY DEF AnyByte
<1> HIDE DEF b
<1>3. Waiting(f) = w + 1 /\ Held(f)[w + 1] = b /\ \A i \in 1 .. w : Held(f)[i] = Held(e)[i]
  BY <1>2, PushIs DEF b
<1>4. w \in Nat /\ \A i \in 1 .. w : Held(e)[i].n \in Nat
  BY HeldIs DEF AnyByte
<1> HIDE DEF f, w
<1>5. /\ b.from # who => Orderly(Held(f), 1, w + 1, who, low, mid)
      /\ b.from = who /\ b.n = mid + 1 => Orderly(Held(f), 1, w + 1, who, low, mid + 1)
  BY <1>1, <1>2, <1>3, <1>4, OrderlyAdd
<1>6. /\ b.from # who => Orderly(s, k + 1, Len(s), who, mid, high)
      /\ b.from = who => b.n = mid + 1 /\ Orderly(s, k + 1, Len(s), who, mid + 1, high)
  BY <1>1, <1>2, OrderlyDrop DEF b
<1>7. mid + 1 \in Nat
  OBVIOUS
<1>8. Mixed(f, s, k + 1, Len(s), who, low, high)
  BY <1>3, <1>5, <1>6, <1>7 DEF Mixed
<1> QED
  BY <1>8 DEF f, b

Wording(e, b, p) == Push(e, b)
Words == INSTANCE FoldLemmas WITH Op <- Wording

(* A handler pushes bytes, which are the first of s.                       *)
LEMMA MixedHandled ==
  ASSUME NEW B \in SUBSET AnyByte, NEW s \in Seq(B), NEW q \in Seq(B), Len(q) <= Len(s),
         \A i \in 1 .. Len(q) : q[i] = s[i], NEW e \in RingType(B), NEW who,
         NEW low \in Nat, NEW high \in Nat, ~e.lost => Mixed(e, s, 1, Len(s), who, low, high)
  PROVE  LET f == FoldLeft(Push, e, q)
         IN  /\ f \in RingType(B) /\ (e.lost => f.lost)
             /\ \A k \in 1 .. Waiting(e) : k \in 1 .. Waiting(f) /\ Held(f)[k] = Held(e)[k]
             /\ ~f.lost => Mixed(f, s, Len(q) + 1, Len(s), who, low, high)
<1> DEFINE n == Len(q)
           Good(k, g) == /\ g \in RingType(B) /\ (e.lost => g.lost)
                         /\ \A i \in 1 .. Waiting(e) : i \in 1 .. Waiting(g) /\ Held(g)[i] = Held(e)[i]
                         /\ ~g.lost => Mixed(g, s, k + 1, Len(s), who, low, high)
           P == {x \in (0 .. n) \X RingType(B) : Good(x[1], x[2])}
<1>1. FoldLeft(Push, e, q) = Words!Run(e, q, TRUE)
  BY Zenon DEF FoldLeft, MapThenFoldSet, Max, Words!Run, Words!Walk, Words!Top, Wording
<1>2. n \in Nat /\ DOMAIN q = 1 .. n /\ n <= Len(s) /\ Len(s) \in Nat
  OBVIOUS
<1>3. <<0, e>> \in P
  <2>1. Good(0, e) /\ 0 \in 0 .. n
    BY <1>2
  <2> HIDE DEF Good
  <2> QED BY <2>1
<1>4. ASSUME NEW k \in 1 .. n, NEW d, <<k - 1, d>> \in P PROVE <<k, Wording(d, q[k], TRUE)>> \in P
  <2> DEFINE f == Push(d, s[k])
  <2>1. Good(k - 1, d)
    <3> HIDE DEF Good
    <3> QED BY <1>4
  <2>2. k \in 1 .. Len(s) /\ q[k] = s[k] /\ s[k] \in B /\ (k - 1) + 1 = k
    BY <1>2
  <2>3. d \in RingType(B) /\ (e.lost => d.lost)
    BY <2>1
  <2>4. /\ f \in RingType(B) /\ (d.lost => f.lost)
        /\ \A i \in 1 .. Waiting(d) : i \in 1 .. Waiting(f) /\ Held(f)[i] = Held(d)[i]
    <3>1. ASSUME NEW b \in B
          PROVE  /\ Push(d, b) \in RingType(B) /\ (d.lost => Push(d, b).lost)
                 /\ \A i \in 1 .. Waiting(d) : i \in 1 .. Waiting(Push(d, b)) /\ Held(Push(d, b))[i] = Held(d)[i]
      BY <2>3, PushIs
    <3> QED BY <2>2, <3>1
  <2> HIDE DEF f
  <2>5. ~f.lost => Mixed(f, s, k + 1, Len(s), who, low, high)
    <3> SUFFICES ASSUME ~f.lost PROVE Mixed(f, s, k + 1, Len(s), who, low, high)
      OBVIOUS
    <3>1. Mixed(d, s, k, Len(s), who, low, high)
      BY <2>1, <2>2, <2>4
    <3> QED BY <2>2, <2>3, <3>1, MixedPushed DEF f
  <2>6. \A i \in 1 .. Waiting(e) : i \in 1 .. Waiting(f) /\ Held(f)[i] = Held(e)[i]
    BY <2>1, <2>4
  <2>7. Good(k, f) /\ k \in 0 .. n
    BY <2>3, <2>4, <2>5, <2>6
  <2> HIDE DEF Good
  <2>8. <<k, f>> \in P
    BY <2>4, <2>7
  <2> QED BY <2>2, <2>8 DEF f, Wording
<1>5. <<n, Words!Run(e, q, TRUE)>> \in P
  <2> HIDE DEF P, n
  <2> QED BY <1>2, <1>3, <1>4, Words!FoldKeeps, Zenon
<1> DEFINE f == Words!Run(e, q, TRUE)
<1>6. Good(n, f)
  <2> HIDE DEF Good, f
  <2> QED BY <1>5 DEF f
<1> HIDE DEF f
<1> QED
  BY <1>1, <1>6 DEF f

\* Whether the last of the first c codes about shift pressed it.
Shifted(typed, c) ==
    \E j \in {i \in 1 .. c : typed[i] \in {ShiftDown, ShiftUp}} :
        typed[j] = ShiftDown /\ \A k \in {i \in 1 .. c : typed[i] \in {ShiftDown, ShiftUp}} : k <= j

(* One code more.                                                          *)
LEMMA ShiftedMore ==
  ASSUME NEW typed, NEW c \in Nat
  PROVE  Shifted(typed, c + 1) <=> (typed[c + 1] = ShiftDown) \/ (Shifted(typed, c) /\ typed[c + 1] # ShiftUp)
<1> DEFINE S(n) == {i \in 1 .. n : typed[i] \in {ShiftDown, ShiftUp}}
<1>1. \A n \in Nat : Shifted(typed, n) <=> \E j \in S(n) : typed[j] = ShiftDown /\ \A k \in S(n) : k <= j
  BY Zenon DEF Shifted
<1>2. \A i \in 1 .. c + 1 : i \in 1 .. c \/ i = c + 1
  OBVIOUS
<1>3. c + 1 \in Nat /\ c + 1 \in 1 .. c + 1 /\ \A i \in 1 .. c : i \in 1 .. c + 1 /\ i < c + 1 /\ ~(c + 1 <= i)
  OBVIOUS
<1>4. CASE typed[c + 1] = ShiftDown
  <2>1. c + 1 \in S(c + 1) /\ \A k \in S(c + 1) : k <= c + 1
    BY <1>4
  <2> QED BY <1>1, <1>3, <1>4, <2>1
<1>5. CASE typed[c + 1] = ShiftUp
  <2>1. c + 1 \in S(c + 1) /\ ShiftUp # ShiftDown
    BY <1>5 DEF ShiftUp, ShiftDown
  <2>2. \A j \in S(c + 1) : typed[j] = ShiftDown => ~(c + 1 <= j)
    BY <1>2, <1>3, <1>5, <2>1
  <2> HIDE DEF S
  <2> QED BY <1>1, <1>3, <1>5, <2>1, <2>2
<1>6. CASE typed[c + 1] \notin {ShiftDown, ShiftUp}
  <2>1. S(c + 1) = S(c)
    BY <1>2, <1>3, <1>6
  <2> HIDE DEF S
  <2> QED BY <1>1, <1>3, <1>6, <2>1
<1> QED
  BY <1>4, <1>5, <1>6

(* The same codes make the same shift.                                     *)
LEMMA ShiftedSame ==
  ASSUME NEW t, NEW u, NEW c \in Nat, \A i \in 1 .. c : t[i] = u[i]
  PROVE  Shifted(t, c) <=> Shifted(u, c)
<1>1. {i \in 1 .. c : t[i] \in {ShiftDown, ShiftUp}} = {i \in 1 .. c : u[i] \in {ShiftDown, ShiftUp}}
  OBVIOUS
<1>2. \A j \in {i \in 1 .. c : t[i] \in {ShiftDown, ShiftUp}} : t[j] = u[j]
  OBVIOUS
<1> QED
  BY <1>1, <1>2, Zenon DEF Shifted

\* The key that a letter means.
MeantKey(typed, i) == <<i, i > 1 /\ typed[i - 1] = Extended, Shifted(typed, i - 1)>>

LEMMA MeantIs ==
  ASSUME NEW typed
  PROVE  Meant(typed) = {MeantKey(typed, i) : i \in {j \in DOMAIN typed : typed[j] = Letter}}
BY Zenon DEF Meant, MeantKey, Shifted

\* What was meant stays meant.
LEMMA MeantStays ==
  ASSUME NEW t \in Seq(Nat), NEW x \in Nat
  PROVE  Meant(t) \subseteq Meant(Append(t, x))
<1> DEFINE u == Append(t, x)
<1>1. /\ DOMAIN t = 1 .. Len(t) /\ DOMAIN u = 1 .. Len(t) + 1 /\ Len(t) \in Nat
      /\ \A i \in 1 .. Len(t) : i \in DOMAIN u /\ u[i] = t[i]
  OBVIOUS
<1> HIDE DEF u
<1>2. ASSUME NEW i \in 1 .. Len(t) PROVE MeantKey(t, i) = MeantKey(u, i)
  <2>1. i - 1 \in Nat /\ \A j \in 1 .. i - 1 : j \in 1 .. Len(t)
    BY <1>1
  <2>2. Shifted(t, i - 1) <=> Shifted(u, i - 1)
    BY <1>1, <2>1, ShiftedSame
  <2>3. i > 1 => i - 1 \in 1 .. Len(t)
    BY <1>1
  <2>4. (i > 1 /\ t[i - 1] = Extended) <=> (i > 1 /\ u[i - 1] = Extended)
    BY <1>1, <2>3
  <2>5. Shifted(t, i - 1) = Shifted(u, i - 1)
    BY <2>2 DEF Shifted
  <2>6. (i > 1 /\ t[i - 1] = Extended) = (i > 1 /\ u[i - 1] = Extended)
    BY <2>4
  <2> QED BY <2>5, <2>6, Zenon DEF MeantKey
<1>3. \A i \in {j \in DOMAIN t : t[j] = Letter} : i \in {j \in DOMAIN u : u[j] = Letter} /\ MeantKey(t, i) = MeantKey(u, i)
  BY <1>1, <1>2
<1> QED
  BY <1>3, MeantIs, Zenon DEF u

InTypes ==
    /\ codes \in Seq(0 .. 3) /\ moved \in Nat
    /\ port \in Seq(Bytes(codes)) /\ events \in RingType(Bytes(codes)) /\ word \in Bytes(codes)
    /\ mouse \in Seq(Nat) /\ Len(mouse) < PacketSize /\ packets \in Seq(Seq(Nat))
    /\ keyboard \in [shift : BOOLEAN, extended : BOOLEAN] /\ keys \in Seq(Nat \X BOOLEAN \X BOOLEAN)

\* The word read is still the first of the ring.
Reading == loop = "store" => 1 \in 1 .. Waiting(events) /\ word = Held(events)[1]

\* What the keyboard's decoder made of the first c codes.
Turned(c) ==
    /\ keyboard.extended = (c > 0 /\ codes[c] = Extended)
    /\ keyboard.shift = Shifted(codes, c)
    /\ ToSet(keys) \subseteq Meant(codes)
    /\ \A i \in DOMAIN keys : keys[i][1] <= c /\ (i > 1 => keys[i - 1][1] < keys[i][1])

\* What the mouse's made of as many bytes as it was given.
Fed == Len(packets) * PacketSize + Len(mouse)
Packed ==
    /\ packets = [i \in 1 .. Len(packets) |-> [j \in 1 .. PacketSize |-> (i - 1) * PacketSize + j]]
    /\ \A j \in 1 .. Len(mouse) : mouse[j] = Len(packets) * PacketSize + j

\* Unless some were lost, what a decoder was not given is in the ring or in the
\* controller, all of it and in order.
KeysCome == ~events.lost => \E c \in 0 .. Len(codes) : Turned(c) /\ Mixed(events, port, 1, Len(port), "key", c, Len(codes))
MovesCome == ~events.lost => Packed /\ Mixed(events, port, 1, Len(port), "mouse", Fed, moved)

InIInv == InTypes /\ Reading /\ KeysCome /\ MovesCome

(* Nothing is sent yet.                                                    *)
LEMMA InputStarts == InputInit => InIInv
<1> SUFFICES ASSUME InputInit PROVE InIInv
  OBVIOUS
<1> USE DEF InputInit
<1>1. RingSize \in Nat /\ RingSize >= 2 /\ PacketSize \in Nat /\ PacketSize > 0
  BY InputAssumption
<1>2. Second \in Bytes(codes) /\ codes \in Seq(0 .. 3) /\ Len(codes) = 0
  BY DEF Second, Byte, Bytes, AnyByte, Faithful
<1>3. events \in RingType(Bytes(codes)) /\ events.head = 0 /\ events.tail = 0 /\ ~events.lost
  BY <1>1, <1>2 DEF RingType, Cells
<1>4. InTypes
  BY <1>1, <1>2, <1>3 DEF InTypes
<1>5. Waiting(events) = 0 /\ Len(port) = 0 /\ Len(packets) = 0 /\ Len(mouse) = 0 /\ Fed = 0
  BY <1>1, <1>3 DEF Waiting, Fed
<1>6. ASSUME NEW who PROVE Mixed(events, port, 1, Len(port), who, 0, 0)
  <2>1. Orderly(Held(events), 1, 0, who, 0, 0) /\ Orderly(port, 1, 0, who, 0, 0)
    BY DEF Orderly
  <2> QED BY <1>5, <2>1 DEF Mixed
<1>7. Packed
  BY <1>1, <1>5 DEF Packed
<1>8. Turned(0)
  <2>1. ~Shifted(codes, 0)
    BY DEF Shifted
  <2>2. ToSet(keys) = {}
    BY DEF ToSet
  <2>3. keyboard.extended = FALSE /\ keyboard.shift = FALSE /\ DOMAIN keys = {}
    OBVIOUS
  <2>4. Shifted(codes, 0) = FALSE
    BY <2>1 DEF Shifted
  <2>5. keyboard.extended = (0 > 0 /\ codes[0] = Extended)
    <3>1. (0 > 0 /\ codes[0] = Extended) = FALSE
      OBVIOUS
    <3> QED BY <2>3, <3>1, Zenon
  <2>6. keyboard.shift = Shifted(codes, 0)
    BY <2>3, <2>4
  <2> QED BY <2>2, <2>3, <2>5, <2>6 DEF Turned
<1> QED
  <2>1. KeysCome
    <3>1. 0 \in 0 .. Len(codes) /\ Mixed(events, port, 1, Len(port), "key", 0, Len(codes))
      <4> HIDE DEF InputInit
      <4>1. 0 \in 0 .. Len(codes)
        BY <1>2
      <4>2. Mixed(events, port, 1, Len(port), "key", 0, 0)
        BY <1>6
      <4> QED BY <1>2, <4>1, <4>2
    <3> QED BY <1>8, <3>1, Zenon DEF KeysCome
  <2>2. MovesCome
    BY <1>5, <1>6, <1>7 DEF MovesCome
  <2> QED BY <1>4, <2>1, <2>2 DEF InIInv, Reading

(* One byte more in the controller.                                        *)
LEMMA MixedSent ==
  ASSUME NEW e, NEW s \in Seq(AnyByte), NEW b \in AnyByte, NEW who, NEW low \in Nat, NEW high \in Nat,
         Mixed(e, s, 1, Len(s), who, low, high)
  PROVE  /\ b.from # who => Mixed(e, Append(s, b), 1, Len(Append(s, b)), who, low, high)
         /\ b.from = who /\ b.n = high + 1 => Mixed(e, Append(s, b), 1, Len(Append(s, b)), who, low, high + 1)
<1> DEFINE t == Append(s, b)
           n == Len(s)
<1>1. PICK mid \in Nat : Orderly(Held(e), 1, Waiting(e), who, low, mid) /\ Orderly(s, 1, n, who, mid, high)
  BY DEF Mixed
<1>2. n \in Nat /\ Len(t) = n + 1 /\ t[n + 1] = b /\ \A k \in 1 .. n : t[k] = s[k] /\ s[k].n \in Nat
  <2>1. n \in Nat /\ Len(t) = n + 1 /\ t[n + 1] = b /\ \A k \in 1 .. n : t[k] = s[k] /\ s[k] \in AnyByte
    OBVIOUS
  <2> QED BY <2>1 DEF AnyByte
<1>3. b.n \in Nat
  BY DEF AnyByte
<1> HIDE DEF t, n
<1>4. /\ b.from # who => Orderly(t, 1, n + 1, who, mid, high)
      /\ b.from = who /\ b.n = high + 1 => Orderly(t, 1, n + 1, who, mid, high + 1)
  BY <1>1, <1>2, <1>3, OrderlyAdd
<1>5. /\ b.from # who => Mixed(e, t, 1, Len(t), who, low, high)
      /\ b.from = who /\ b.n = high + 1 => Mixed(e, t, 1, Len(t), who, low, high + 1)
  BY <1>1, <1>2, <1>4 DEF Mixed
<1> QED
  BY <1>5 DEF t

(* What was faithful stays so.                                             *)
LEMMA BytesGrow ==
  ASSUME NEW t \in Seq(0 .. 3), NEW x
  PROVE  Bytes(t) \subseteq Bytes(Append(t, x)) /\ RingType(Bytes(t)) \subseteq RingType(Bytes(Append(t, x)))
<1>1. Len(t) \in Nat /\ Len(Append(t, x)) = Len(t) + 1 /\ \A i \in 1 .. Len(t) : Append(t, x)[i] = t[i] /\ i \in 1 .. Len(t) + 1
  OBVIOUS
<1>2. Bytes(t) \subseteq Bytes(Append(t, x))
  <2> DEFINE u == Append(t, x)
  <2> HIDE DEF u
  <2>1. Bytes(t) \subseteq Bytes(u)
    BY <1>1 DEF Bytes, Faithful, u
  <2> QED BY <2>1 DEF u
<1>3. ASSUME NEW B, NEW C, B \subseteq C PROVE RingType(B) \subseteq RingType(C)
  BY <1>3 DEF RingType
<1> QED
  BY <1>2, <1>3

LEMMA FedIs ==
  ASSUME InTypes
  PROVE  Fed \in Nat /\ Len(packets) \in Nat /\ Len(mouse) \in Nat /\ PacketSize \in Nat \ {0}
<1>1. Len(packets) \in Nat /\ Len(mouse) \in Nat /\ PacketSize \in Nat \ {0}
  BY InputAssumption DEF InTypes
<1>2. \A a, b, c \in Nat : a * b + c \in Nat
  OBVIOUS
<1> QED
  BY <1>1, <1>2 DEF Fed

(* The keyboard sends a code.                                              *)
LEMMA KeyboardSendsOK == ASSUME InIInv, KeyboardSends PROVE InIInv'
<1> USE DEF InIInv
<1>1. PICK code \in Extended .. ShiftUp : codes' = Append(codes, code) /\ DeviceSends(Byte("key", Len(codes'), code, FALSE), "key")
  BY DEF KeyboardSends
<1> DEFINE b == Byte("key", Len(codes) + 1, code, FALSE)
           n == Len(codes)
<1>2. /\ codes \in Seq(0 .. 3) /\ n \in Nat /\ code \in 0 .. 3 /\ Len(codes') = n + 1
      /\ codes'[n + 1] = code /\ \A i \in 1 .. n : codes'[i] = codes[i]
  BY <1>1 DEF InTypes, Extended, ShiftUp
<1>3. port' = Append(port, b) /\ UNCHANGED <<moved, events, loop, word, mouse, keyboard, packets, keys>>
  BY <1>1, <1>2 DEF DeviceSends, KeyboardSends
<1>4. b \in AnyByte /\ b \in Bytes(codes') /\ b.from = "key" /\ b.n = n + 1
  BY <1>2 DEF Byte, AnyByte, Bytes, Faithful
<1> HIDE DEF b, n
<1>5. Bytes(codes) \subseteq Bytes(codes') /\ RingType(Bytes(codes)) \subseteq RingType(Bytes(codes'))
  BY <1>1, <1>2, BytesGrow
<1>6. port \in Seq(AnyByte) /\ port \in Seq(Bytes(codes'))
  <2>1. port \in Seq(Bytes(codes)) /\ Bytes(codes) \subseteq AnyByte
    BY DEF InTypes, Bytes
  <2> QED BY <1>5, <2>1
<1>7. InTypes'
  <2>1. codes' \in Seq(0 .. 3)
    BY <1>1, <1>2
  <2>2. port' \in Seq(Bytes(codes'))
    BY <1>3, <1>4, <1>6
  <2>3. events' \in RingType(Bytes(codes')) /\ word' \in Bytes(codes')
    BY <1>3, <1>5 DEF InTypes
  <2> QED BY <1>3, <2>1, <2>2, <2>3 DEF InTypes
<1>8. Reading'
  BY <1>3 DEF Reading, Waiting, Held
<1>9. KeysCome'
  <2> SUFFICES ASSUME ~events.lost PROVE KeysCome'
    BY <1>3 DEF KeysCome
  <2>1. PICK c \in 0 .. n : Turned(c) /\ Mixed(events, port, 1, Len(port), "key", c, n)
    BY DEF KeysCome, n
  <2>2. c \in Nat /\ c \in 0 .. n + 1 /\ \A i \in 1 .. c : codes'[i] = codes[i]
    BY <1>2
  <2>3. Mixed(events, port', 1, Len(port'), "key", c, n + 1)
    BY <1>2, <1>3, <1>4, <1>6, <2>1, <2>2, MixedSent
  <2>4. Turned(c)'
    <3>1. Shifted(codes, c) <=> Shifted(codes', c)
      BY <2>2, ShiftedSame
    <3>2. Shifted(codes, c) = Shifted(codes', c)
      BY <3>1 DEF Shifted
    <3>3. (c > 0 /\ codes[c] = Extended) = (c > 0 /\ codes'[c] = Extended)
      BY <2>2
    <3>4. Meant(codes) \subseteq Meant(codes')
      BY <1>1, <1>2, MeantStays
    <3>5. keyboard'.extended = (c > 0 /\ codes'[c] = Extended)
      BY <1>3, <2>1, <3>3, Zenon DEF Turned
    <3>6. keyboard'.shift = Shifted(codes', c)
      BY <1>3, <2>1, <3>2, Zenon DEF Turned
    <3>7. ToSet(keys') \subseteq Meant(codes')
      BY <1>3, <2>1, <3>4 DEF Turned
    <3>8. \A i \in DOMAIN keys' : keys'[i][1] <= c /\ (i > 1 => keys'[i - 1][1] < keys'[i][1])
      BY <1>3, <2>1 DEF Turned
    <3> QED BY <3>5, <3>6, <3>7, <3>8 DEF Turned
  <2> QED BY <1>2, <1>3, <2>2, <2>3, <2>4 DEF KeysCome, Mixed, Waiting, Held
<1>10. MovesCome'
  <2> SUFFICES ASSUME ~events.lost PROVE MovesCome'
    BY <1>3 DEF MovesCome
  <2>1. Packed /\ Mixed(events, port, 1, Len(port), "mouse", Fed, moved) /\ Fed \in Nat /\ moved \in Nat
    BY FedIs DEF MovesCome, InTypes
  <2>2. Mixed(events, port', 1, Len(port'), "mouse", Fed, moved)
    BY <1>3, <1>4, <1>6, <2>1, MixedSent
  <2> QED BY <1>3, <2>1, <2>2 DEF MovesCome, Mixed, Waiting, Held, Packed, Fed
<1> QED
  BY <1>7, <1>8, <1>9, <1>10

(* The mouse sends a byte.                                                 *)
LEMMA MouseSendsOK == ASSUME InIInv, MouseSends PROVE InIInv'
<1> USE DEF InIInv
<1> DEFINE b == Byte("mouse", moved + 1, 0, moved % PacketSize = 0)
<1>1. moved \in Nat /\ moved' = moved + 1 /\ port' = Append(port, b)
      /\ UNCHANGED <<codes, events, loop, word, mouse, keyboard, packets, keys>>
  BY DEF MouseSends, DeviceSends, InTypes
<1>2. b \in AnyByte /\ b \in Bytes(codes) /\ b.from = "mouse" /\ b.n = moved + 1
  <2>1. (moved + 1) - 1 = moved /\ moved + 1 \in Nat /\ moved + 1 > 0
    BY <1>1
  <2> QED BY <2>1 DEF Byte, AnyByte, Bytes, Faithful
<1> HIDE DEF b
<1>3. port \in Seq(AnyByte)
  <2>1. port \in Seq(Bytes(codes)) /\ Bytes(codes) \subseteq AnyByte
    BY DEF InTypes, Bytes
  <2> QED BY <2>1
<1>4. InTypes'
  BY <1>1, <1>2 DEF InTypes
<1>5. Reading'
  BY <1>1 DEF Reading, Waiting, Held
<1>6. KeysCome'
  <2> SUFFICES ASSUME ~events.lost PROVE KeysCome'
    BY <1>1 DEF KeysCome
  <2>1. PICK c \in 0 .. Len(codes) : Turned(c) /\ Mixed(events, port, 1, Len(port), "key", c, Len(codes))
    BY DEF KeysCome
  <2>2. Mixed(events, port', 1, Len(port'), "key", c, Len(codes))
    <3>1. Len(codes) \in Nat /\ c \in Nat
      BY DEF InTypes
    <3> QED BY <1>1, <1>2, <1>3, <2>1, <3>1, MixedSent
  <2> QED BY <1>1, <2>1, <2>2 DEF KeysCome, Mixed, Waiting, Held, Turned
<1>7. MovesCome'
  <2> SUFFICES ASSUME ~events.lost PROVE MovesCome'
    BY <1>1 DEF MovesCome
  <2>1. Packed /\ Mixed(events, port, 1, Len(port), "mouse", Fed, moved) /\ Fed \in Nat
    BY FedIs DEF MovesCome, InTypes
  <2>2. Mixed(events, port', 1, Len(port'), "mouse", Fed, moved + 1)
    BY <1>1, <1>2, <1>3, <2>1, MixedSent
  <2> QED BY <1>1, <2>1, <2>2 DEF MovesCome, Mixed, Waiting, Held, Packed, Fed
<1> QED
  BY <1>4, <1>5, <1>6, <1>7

(* What is left of s after what was pushed is the controller's.            *)
LEMMA MixedLeft ==
  ASSUME NEW e, NEW s, NEW t, NEW d \in Nat, NEW b \in Nat, NEW who, NEW low, NEW high,
         Mixed(e, s, d + 1, d + b, who, low, high), \A k \in 1 .. b : t[k] = s[d + k]
  PROVE  Mixed(e, t, 1, b, who, low, high)
<1>1. PICK mid \in Nat : Orderly(Held(e), 1, Waiting(e), who, low, mid) /\ Orderly(s, d + 1, d + b, who, mid, high)
  BY DEF Mixed
<1>2. Orderly(t, 1, b, who, mid, high)
  BY <1>1, OrderlyMoved
<1> QED
  BY <1>1, <1>2 DEF Mixed

(* A handler pushes q of the bytes to push, and leaves the rest.           *)
LEMMA HandlesOK ==
  ASSUME InIInv, NEW todo \in Seq(Bytes(codes)), NEW q \in Seq(Bytes(codes)), NEW rest \in Seq(Bytes(codes)),
         Handles(q, rest), Len(todo) = Len(q) + Len(rest),
         \A i \in 1 .. Len(q) : q[i] = todo[i], \A i \in 1 .. Len(rest) : rest[i] = todo[Len(q) + i],
         \A who \in {"key", "mouse"}, low, high \in Nat :
            Orderly(port, 1, Len(port), who, low, high) => Orderly(todo, 1, Len(todo), who, low, high)
  PROVE  InIInv'
<1> USE DEF InIInv
<1> DEFINE f == FoldLeft(Push, events, q)
           B == Bytes(codes)
<1>1. /\ events' = f /\ port' = rest /\ (loop' = "store" => loop = "store") /\ loop' = IF loop = "halt" THEN "pop" ELSE loop
      /\ UNCHANGED <<word, mouse, keyboard, codes, moved, packets, keys>>
  BY DEF Handles
<1>2. events \in RingType(B) /\ B \in SUBSET AnyByte /\ Len(codes) \in Nat /\ moved \in Nat /\ Fed \in Nat
  BY FedIs DEF InTypes, Bytes
<1>3. Len(q) \in Nat /\ Len(rest) \in Nat /\ Len(todo) \in Nat /\ Len(q) <= Len(todo)
  OBVIOUS
<1>4. ASSUME NEW who \in {"key", "mouse"}, NEW low \in Nat, NEW high \in Nat, Mixed(events, port, 1, Len(port), who, low, high)
      PROVE  Mixed(events, todo, 1, Len(todo), who, low, high)
  <2>1. PICK mid \in Nat : Orderly(Held(events), 1, Waiting(events), who, low, mid) /\ Orderly(port, 1, Len(port), who, mid, high)
    BY <1>4 DEF Mixed
  <2>2. Orderly(todo, 1, Len(todo), who, mid, high)
    BY <2>1
  <2> QED BY <2>1, <2>2 DEF Mixed
<1> HIDE DEF f
<1>5. ASSUME NEW who \in {"key", "mouse"}, NEW low \in Nat, NEW high \in Nat, ~events.lost => Mixed(events, port, 1, Len(port), who, low, high)
      PROVE  /\ f \in RingType(B) /\ (events.lost => f.lost)
             /\ \A k \in 1 .. Waiting(events) : k \in 1 .. Waiting(f) /\ Held(f)[k] = Held(events)[k]
             /\ ~f.lost => Mixed(f, rest, 1, Len(rest), who, low, high)
  <2>1. ~events.lost => Mixed(events, todo, 1, Len(todo), who, low, high)
    BY <1>4, <1>5
  <2>2. /\ f \in RingType(B) /\ (events.lost => f.lost)
        /\ \A k \in 1 .. Waiting(events) : k \in 1 .. Waiting(f) /\ Held(f)[k] = Held(events)[k]
        /\ ~f.lost => Mixed(f, todo, Len(q) + 1, Len(todo), who, low, high)
    <3> HIDE DEF B
    <3>1. todo \in Seq(B) /\ q \in Seq(B)
      BY DEF B
    <3> QED BY <1>2, <1>3, <2>1, <3>1, MixedHandled DEF f
  <2>3. Mixed(f, todo, Len(q) + 1, Len(q) + Len(rest), who, low, high) => Mixed(f, rest, 1, Len(rest), who, low, high)
    BY <1>3, MixedLeft
  <2> QED BY <2>2, <2>3
<1>6. PICK c \in 0 .. Len(codes) : ~events.lost => Turned(c) /\ Mixed(events, port, 1, Len(port), "key", c, Len(codes))
  <2>1. 0 \in 0 .. Len(codes)
    BY <1>2
  <2> QED BY <2>1, Zenon DEF KeysCome
<1>7. c \in Nat
  BY <1>2
<1>8. /\ f \in RingType(B) /\ (events.lost => f.lost)
      /\ \A k \in 1 .. Waiting(events) : k \in 1 .. Waiting(f) /\ Held(f)[k] = Held(events)[k]
      /\ ~f.lost => Mixed(f, rest, 1, Len(rest), "key", c, Len(codes))
  BY <1>2, <1>5, <1>6, <1>7
<1>9. ~f.lost => Packed /\ Mixed(f, rest, 1, Len(rest), "mouse", Fed, moved)
  BY <1>2, <1>5, <1>8 DEF MovesCome
<1>10. InTypes'
  BY <1>1, <1>8 DEF InTypes
<1>11. Reading'
  BY <1>1, <1>8 DEF Reading, Waiting, Held
<1>12. KeysCome'
  <2> SUFFICES ASSUME ~f.lost PROVE KeysCome'
    BY <1>1 DEF KeysCome
  <2>1. Turned(c)'
    BY <1>1, <1>6, <1>8 DEF Turned
  <2>2. Mixed(events', port', 1, Len(port'), "key", c, Len(codes')) /\ c \in 0 .. Len(codes')
    BY <1>1, <1>8
  <2> QED BY <2>1, <2>2 DEF KeysCome, Mixed, Waiting, Held
<1>13. MovesCome'
  <2> SUFFICES ASSUME ~f.lost PROVE MovesCome'
    BY <1>1 DEF MovesCome
  <2>1. Fed' = Fed /\ Packed'
    BY <1>1, <1>9 DEF Packed, Fed
  <2>2. Mixed(events', port', 1, Len(port'), "mouse", Fed', moved')
    BY <1>1, <1>9, <2>1
  <2> QED BY <2>1, <2>2 DEF MovesCome, Mixed, Waiting, Held
<1> QED
  BY <1>10, <1>11, <1>12, <1>13

(* A device's interrupt takes the first byte, if there is one.             *)
LEMMA DeviceHandlerOK ==
  ASSUME InIInv, NEW line, DeviceHandler(line)
  PROVE  InIInv'
<1> DEFINE q == Found(port)
           rest == IF port = <<>> THEN <<>> ELSE Tail(port)
<1>1. Handles(q, rest)
  BY DEF DeviceHandler
<1>2. port \in Seq(Bytes(codes))
  BY DEF InIInv, InTypes
<1>3. /\ q \in Seq(Bytes(codes)) /\ rest \in Seq(Bytes(codes)) /\ Len(port) = Len(q) + Len(rest)
      /\ \A i \in 1 .. Len(q) : q[i] = port[i]
      /\ \A i \in 1 .. Len(rest) : rest[i] = port[Len(q) + i]
  <2>1. CASE port = <<>>
    BY <1>2, <2>1 DEF Found
  <2>2. CASE port # <<>>
    <3>1. Len(port) \in Nat /\ Len(port) > 0 /\ Head(port) = port[1] /\ Head(port) \in Bytes(codes)
      BY <1>2, <2>2
    <3>2. q = <<port[1]>> /\ Len(q) = 1 /\ rest = Tail(port)
      BY <2>2, <3>1 DEF Found
    <3>3. Len(rest) = Len(port) - 1 /\ rest \in Seq(Bytes(codes)) /\ \A i \in 1 .. Len(rest) : rest[i] = port[i + 1]
      BY <1>2, <2>2, <3>2
    <3> HIDE DEF q, rest
    <3> QED BY <3>1, <3>2, <3>3
  <2> QED BY <2>1, <2>2
<1> HIDE DEF q, rest
<1> QED
  BY <1>1, <1>2, <1>3, HandlesOK

(* The first eight bytes, and the others.                                  *)
LEMMA SweptIs ==
  ASSUME NEW S, NEW w \in Seq(S)
  PROVE  LET q == Swept(w)
             rest == SubSeq(w, 9, Len(w))
         IN  /\ q \in Seq(S) /\ rest \in Seq(S) /\ Len(w) = Len(q) + Len(rest)
             /\ \A i \in 1 .. Len(q) : q[i] = w[i]
             /\ \A i \in 1 .. Len(rest) : rest[i] = w[Len(q) + i]
<1>1. Len(w) \in Nat
  OBVIOUS
<1>2. CASE Len(w) > 8
  BY <1>1, <1>2 DEF Swept
<1>3. CASE Len(w) <= 8
  <2>1. SubSeq(w, 9, Len(w)) = <<>>
    BY <1>1, <1>3
  <2>2. Swept(w) = w
    BY <1>1, <1>3 DEF Swept
  <2>3. SubSeq(w, 9, Len(w)) \in Seq(S) /\ Len(SubSeq(w, 9, Len(w))) = 0
    <3>1. <<>> \in Seq(S) /\ Len(<<>>) = 0
      OBVIOUS
    <3> QED BY <2>1, <3>1, Zenon
  <2> QED BY <1>1, <2>2, <2>3
<1> QED
  BY <1>1, <1>2, <1>3

\* The timer pushes its own word and what the other handlers have left.
LEMMA TimerHandlerOK == ASSUME InIInv, TimerHandler PROVE InIInv'
<1>1. PICK ticks \in {<<>>, <<Second>>} : Handles(ticks \o Swept(port), SubSeq(port, 9, Len(port)))
  BY DEF TimerHandler
<1> DEFINE swept == Swept(port)
           rest == SubSeq(port, 9, Len(port))
           B == Bytes(codes)
<1>2. port \in Seq(B) /\ Len(port) \in Nat
  BY DEF InIInv, InTypes
<1>3. /\ swept \in Seq(B) /\ rest \in Seq(B) /\ Len(port) = Len(swept) + Len(rest)
      /\ \A i \in 1 .. Len(swept) : swept[i] = port[i]
      /\ \A i \in 1 .. Len(rest) : rest[i] = port[Len(swept) + i]
  <2> HIDE DEF B
  <2> QED BY <1>2, SweptIs
<1>4. Handles(ticks \o swept, rest)
  BY <1>1
<1>5. Second \in B /\ Second.from = "timer"
  BY DEF Second, Byte, Bytes, AnyByte, Faithful
<1> HIDE DEF swept, rest
<1>6. CASE ticks = <<>>
  <2>1. ticks \o swept = swept
    <3> HIDE DEF B
    <3> QED BY <1>3, <1>6
  <2>2. Handles(swept, rest)
    BY <1>4, <2>1
  <2> QED BY <1>2, <1>3, <2>2, HandlesOK
<1>7. CASE ticks = <<Second>>
  <2> DEFINE q == <<Second>> \o swept
             todo == <<Second>> \o port
  <2>1. /\ q \in Seq(B) /\ Len(q) = Len(swept) + 1 /\ q[1] = Second /\ \A i \in 1 .. Len(swept) : q[i + 1] = swept[i]
        /\ todo \in Seq(B) /\ Len(todo) = Len(port) + 1 /\ todo[1] = Second /\ \A i \in 1 .. Len(port) : todo[i + 1] = port[i]
    <3> HIDE DEF B
    <3> QED BY <1>2, <1>3, <1>5
  <2>2. Handles(q, rest)
    BY <1>4, <1>7
  <2> HIDE DEF q, todo
  <2>3. Len(swept) \in Nat /\ Len(rest) \in Nat /\ Len(q) \in Nat
    BY <1>3, <2>1
  <2>4. ASSUME NEW i \in 1 .. Len(q) PROVE q[i] = todo[i]
    <3>1. CASE i = 1
      BY <2>1, <3>1
    <3>2. CASE i # 1
      <4>1. i - 1 \in 1 .. Len(swept) /\ i - 1 \in 1 .. Len(port) /\ (i - 1) + 1 = i
        BY <1>2, <1>3, <2>1, <2>3, <3>2
      <4>2. q[i] = swept[i - 1] /\ todo[i] = port[i - 1]
        BY <2>1, <4>1
      <4> QED BY <1>3, <4>1, <4>2
    <3> QED BY <3>1, <3>2
  <2>5. ASSUME NEW i \in 1 .. Len(rest) PROVE rest[i] = todo[Len(q) + i]
    <3>1. Len(swept) + i \in 1 .. Len(port) /\ (Len(swept) + i) + 1 = Len(q) + i
      BY <1>2, <1>3, <2>1, <2>3
    <3>2. todo[Len(q) + i] = port[Len(swept) + i]
      BY <2>1, <3>1
    <3> QED BY <1>3, <3>2
  <2>6. ASSUME NEW who \in {"key", "mouse"}, NEW low \in Nat, NEW high \in Nat, Orderly(port, 1, Len(port), who, low, high)
        PROVE  Orderly(todo, 1, Len(todo), who, low, high)
    <3>1. todo[1].from # who
      BY <1>5, <2>1
    <3>2. Orderly(todo, 1, Len(port) + 1, who, low, high)
      BY <1>2, <2>1, <2>6, <3>1, OrderlyTicked
    <3> QED BY <2>1, <3>2
  <2>7. Len(todo) = Len(q) + Len(rest)
    BY <1>3, <2>1, <2>3
  <2> QED BY <1>3, <2>1, <2>2, <2>4, <2>5, <2>6, <2>7, HandlesOK
<1> QED
  BY <1>6, <1>7

(* The loop reads the word at the tail.                                    *)
LEMMA PopReadsOK == ASSUME InIInv, PopReads PROVE InIInv'
<1> USE DEF InIInv
<1>1. /\ UNCHANGED <<port, lines, events, mouse, keyboard, codes, moved, packets, keys>>
      /\ loop' = (IF IsEmpty THEN "idle" ELSE "store") /\ word' = IF IsEmpty THEN word ELSE events.words[events.tail]
  BY DEF PopReads
<1>2. events \in RingType(Bytes(codes)) /\ word \in Bytes(codes)
  BY DEF InTypes
<1>3. ~IsEmpty => Waiting(events) \in Nat \ {0} /\ Held(events)[1] = events.words[events.tail]
  BY <1>2, FirstIs DEF IsEmpty
<1>4. word' \in Bytes(codes)
  BY <1>1, <1>2 DEF RingType
<1>5. InTypes'
  BY <1>1, <1>4 DEF InTypes
<1>6. Reading'
  BY <1>1, <1>3 DEF Reading, Waiting, Held
<1>7. KeysCome'
  BY <1>1 DEF KeysCome, Turned, Mixed, Waiting, Held
<1>8. MovesCome'
  BY <1>1 DEF MovesCome, Packed, Fed, Mixed, Waiting, Held
<1> QED
  BY <1>5, <1>6, <1>7, <1>8

(* The first word gone from the ring, the device that sent it is one on.   *)
LEMMA MixedPopped ==
  ASSUME NEW B \in SUBSET AnyByte, NEW e \in RingType(B), NEW f, Waiting(e) \in Nat \ {0}, Waiting(f) = Waiting(e) - 1,
         \A k \in 1 .. Waiting(f) : Held(f)[k] = Held(e)[k + 1],
         NEW s, NEW n, NEW who, NEW low \in Nat, NEW high \in Nat, Mixed(e, s, 1, n, who, low, high)
  PROVE  /\ Held(e)[1].from # who => Mixed(f, s, 1, n, who, low, high)
         /\ Held(e)[1].from = who => Held(e)[1].n = low + 1 /\ low + 1 <= high /\ Mixed(f, s, 1, n, who, low + 1, high)
<1> DEFINE h == Held(e)
           w == Waiting(e)
<1>1. PICK mid \in Nat : Orderly(h, 1, w, who, low, mid) /\ Orderly(s, 1, n, who, mid, high)
  BY DEF Mixed
<1>2. w \in Nat /\ 1 <= w /\ w - 1 \in Nat /\ 1 + (w - 1) = w /\ \A k \in 1 .. w : h[k].n \in Nat
  BY HeldIs DEF AnyByte
<1>3. \A k \in 1 .. w - 1 : Held(f)[k] = h[1 + k]
  OBVIOUS
<1> HIDE DEF h, w
<1>4. /\ h[1].from # who => Orderly(h, 1 + 1, w, who, low, mid)
      /\ h[1].from = who => h[1].n = low + 1 /\ Orderly(h, 1 + 1, w, who, low + 1, mid)
  BY <1>1, <1>2, OrderlyDrop
<1>5. ASSUME NEW l, Orderly(h, 1 + 1, w, who, l, mid) PROVE Mixed(f, s, 1, n, who, l, high)
  <2>1. Orderly(h, 1 + 1, 1 + (w - 1), who, l, mid)
    BY <1>2, <1>5
  <2>2. Orderly(Held(f), 1, w - 1, who, l, mid)
    <3> DEFINE m == w - 1
               one == 1
    <3>1. m \in Nat /\ one \in Nat /\ Orderly(h, one + 1, one + m, who, l, mid) /\ \A k \in 1 .. m : Held(f)[k] = h[one + k]
      BY <1>2, <1>3, <2>1
    <3> HIDE DEF m, one
    <3>2. Orderly(Held(f), 1, m, who, l, mid)
      BY <3>1, OrderlyMoved
    <3> QED BY <3>2 DEF m
  <2> QED BY <1>1, <2>2 DEF Mixed, w
<1>6. h[1].from = who => low + 1 <= high
  BY <1>1, <1>4 DEF Orderly
<1> QED
  BY <1>4, <1>5, <1>6 DEF h

(* A key is fed to the decoder: its code is the next.                      *)
LEMMA KeyFedOK ==
  ASSUME InTypes, NEW b \in Bytes(codes), b.from = "key", KeyFed(b), UNCHANGED codes
  PROVE  /\ keyboard' \in [shift : BOOLEAN, extended : BOOLEAN] /\ keys' \in Seq(Nat \X BOOLEAN \X BOOLEAN)
         /\ \A c \in Nat : Turned(c) /\ b.n = c + 1 => Turned(c + 1)'
<1>1. /\ codes \in Seq(0 .. 3) /\ keyboard \in [shift : BOOLEAN, extended : BOOLEAN] /\ keys \in Seq(Nat \X BOOLEAN \X BOOLEAN)
      /\ keyboard.shift \in BOOLEAN /\ keyboard.extended \in BOOLEAN
  BY DEF InTypes
<1>2. b.n \in 1 .. Len(codes) /\ b.code = codes[b.n] /\ b.n \in Nat /\ b.n \in DOMAIN codes
  BY <1>1 DEF Bytes, AnyByte, Faithful
<1>3. /\ keyboard'.shift = ((b.code = ShiftDown) \/ (keyboard.shift /\ b.code # ShiftUp))
      /\ keyboard'.extended = (b.code = Extended)
      /\ keyboard' \in [shift : BOOLEAN, extended : BOOLEAN]
  BY DEF KeyFed, Prefix
<1> DEFINE key == <<b.n, keyboard.extended, keyboard.shift>>
<1>4. key \in Nat \X BOOLEAN \X BOOLEAN
  BY <1>1, <1>2
<1>5. (keys' = keys /\ b.code # Letter) \/ (keys' = Append(keys, key) /\ b.code = Letter)
  BY DEF KeyFed
<1>6. keys' \in Seq(Nat \X BOOLEAN \X BOOLEAN)
  <2> DEFINE X == Nat \X BOOLEAN \X BOOLEAN
  <2>1. keys \in Seq(X) /\ key \in X
    BY <1>1, <1>4
  <2> HIDE DEF key, X
  <2>2. keys' \in Seq(X)
    BY <1>5, <2>1
  <2> QED BY <2>2 DEF X
<1>7. ASSUME NEW c \in Nat, Turned(c), b.n = c + 1 PROVE Turned(c + 1)'
  <2>1. keyboard'.extended = (c + 1 > 0 /\ codes'[c + 1] = Extended)
    <3>1. (c + 1 > 0 /\ codes[c + 1] = Extended) = (b.code = Extended)
      BY <1>2, <1>7
    <3> QED BY <1>3, <3>1, Zenon
  <2>2. keyboard'.shift = Shifted(codes', c + 1)
    <3>1. Shifted(codes, c + 1) <=> (codes[c + 1] = ShiftDown) \/ (Shifted(codes, c) /\ codes[c + 1] # ShiftUp)
      BY ShiftedMore
    <3>2. keyboard.shift <=> Shifted(codes, c)
      BY <1>7, Zenon DEF Turned
    <3>3. keyboard'.shift <=> Shifted(codes, c + 1)
      BY <1>2, <1>3, <1>7, <3>1, <3>2
    <3>4. keyboard'.shift \in BOOLEAN
      BY <1>3
    <3> QED BY <3>3, <3>4 DEF Shifted
  <2>3. CASE keys' = keys
    <3>1. \A i \in DOMAIN keys' : keys'[i][1] <= c + 1 /\ (i > 1 => keys'[i - 1][1] < keys'[i][1])
      <4>1. \A i \in DOMAIN keys : keys[i][1] <= c /\ keys[i][1] \in Nat
        BY <1>1, <1>7 DEF Turned
      <4>2. \A x \in Nat : x <= c => x <= c + 1
        OBVIOUS
      <4> QED BY <1>7, <2>3, <4>1, <4>2 DEF Turned
    <3>2. ToSet(keys') \subseteq Meant(codes')
      BY <1>7, <2>3 DEF Turned
    <3> QED BY <2>1, <2>2, <3>1, <3>2 DEF Turned
  <2>4. CASE keys' = Append(keys, key) /\ b.code = Letter
    <3>1. key = MeantKey(codes, c + 1)
      <4>1. keyboard.extended = (c > 0 /\ codes[c] = Extended)
        BY <1>7 DEF Turned
      <4>2. keyboard.shift = Shifted(codes, c)
        BY <1>7 DEF Turned
      <4>3. (c + 1) - 1 = c /\ (c + 1 > 1 <=> c > 0)
        OBVIOUS
      <4>4. (c > 0 /\ codes[c] = Extended) = (c + 1 > 1 /\ codes[(c + 1) - 1] = Extended)
        BY <4>3
      <4> QED BY <1>7, <4>1, <4>2, <4>3, <4>4, Zenon DEF MeantKey
    <3>2. key \in Meant(codes)
      <4>1. c + 1 \in {j \in DOMAIN codes : codes[j] = Letter}
        BY <1>2, <1>7, <2>4
      <4> QED BY <3>1, <4>1, MeantIs, Zenon
    <3>3. key[1] = c + 1
      BY <1>7
    <3> DEFINE n == Len(keys)
    <3> HIDE DEF key
    <3>4. n \in Nat /\ DOMAIN keys = 1 .. n /\ DOMAIN keys' = 1 .. n + 1 /\ keys'[n + 1] = key /\ \A i \in 1 .. n : keys'[i] = keys[i]
      BY <1>1, <1>4, <2>4
    <3>5. \A i \in 1 .. n : keys[i][1] \in Nat /\ keys[i][1] <= c /\ (i > 1 => keys[i - 1][1] < keys[i][1])
      <4>1. \A i \in 1 .. n : keys[i] \in Nat \X BOOLEAN \X BOOLEAN
        BY <1>1, <3>4
      <4>2. \A i \in 1 .. n : keys[i][1] \in Nat
        BY <4>1
      <4>3. \A i \in 1 .. n : keys[i][1] <= c /\ (i > 1 => keys[i - 1][1] < keys[i][1])
        BY <1>7, <3>4 DEF Turned
      <4> QED BY <4>2, <4>3
    <3> HIDE DEF n
    <3>6. ToSet(keys') \subseteq Meant(codes')
      <4>1. \A i \in 1 .. n + 1 : i \in 1 .. n \/ i = n + 1
        BY <3>4
      <4>2. \A i \in 1 .. n : keys[i] \in Meant(codes)
        BY <1>7, <3>4 DEF Turned, ToSet
      <4> QED BY <3>2, <3>4, <4>1, <4>2 DEF ToSet
    <3>7. ASSUME NEW i \in DOMAIN keys' PROVE keys'[i][1] <= c + 1 /\ (i > 1 => keys'[i - 1][1] < keys'[i][1])
      <4>1. CASE i \in 1 .. n
        <5>1. i > 1 => i - 1 \in 1 .. n
          BY <3>4, <4>1
        <5> QED BY <3>4, <3>5, <4>1, <5>1
      <4>2. CASE i = n + 1
        <5>1. i > 1 => i - 1 = n /\ n \in 1 .. n
          BY <3>4, <4>2
        <5> QED BY <3>3, <3>4, <3>5, <4>2, <5>1
      <4> QED BY <3>4, <4>1, <4>2
    <3> QED BY <2>1, <2>2, <3>6, <3>7 DEF Turned
  <2> QED BY <1>5, <2>3, <2>4
<1> QED
  BY <1>3, <1>6, <1>7

(* A byte of the mouse is fed to its decoder: it is the next one.          *)
LEMMA MouseFedOK ==
  ASSUME InTypes, NEW b \in Bytes(codes), b.from = "mouse", MouseFed(b)
  PROVE  /\ mouse' \in Seq(Nat) /\ Len(mouse') < PacketSize /\ packets' \in Seq(Seq(Nat))
         /\ Packed /\ b.n = Fed + 1 => Packed' /\ Fed' = Fed + 1
<1> DEFINE bytes == IF mouse = <<>> /\ ~b.mark THEN <<>> ELSE Append(mouse, b.n)
           m == Len(mouse)
           n == Len(packets)
<1>1. /\ mouse \in Seq(Nat) /\ m < PacketSize /\ packets \in Seq(Seq(Nat)) /\ PacketSize \in Nat /\ PacketSize > 0
      /\ m \in Nat /\ n \in Nat /\ Fed = n * PacketSize + m
  BY FedIs DEF InTypes, Fed
<1>2. b.n \in Nat /\ b.n > 0 /\ b.mark = ((b.n - 1) % PacketSize = 0)
  BY DEF Bytes, AnyByte, Faithful
<1>3. bytes \in Seq(Nat) /\ Len(bytes) <= m + 1 /\ Len(bytes) \in Nat
  BY <1>1, <1>2
<1>4. (Len(bytes) < PacketSize /\ mouse' = bytes /\ packets' = packets)
      \/ (Len(bytes) >= PacketSize /\ mouse' = <<>> /\ packets' = Append(packets, bytes))
  <2>1. \/ Len(bytes) < PacketSize /\ mouse' = bytes /\ UNCHANGED packets
        \/ ~(Len(bytes) < PacketSize) /\ mouse' = <<>> /\ packets' = Append(packets, bytes)
    BY DEF MouseFed
  <2> HIDE DEF bytes
  <2> QED BY <1>1, <1>3, <2>1
<1>5. mouse' \in Seq(Nat) /\ Len(mouse') < PacketSize /\ packets' \in Seq(Seq(Nat))
  <2> DEFINE X == Seq(Nat)
  <2>1. bytes \in X /\ mouse \in X /\ packets \in Seq(X)
    BY <1>1, <1>3
  <2>2. <<>> \in X /\ Len(<<>>) = 0
    OBVIOUS
  <2> HIDE DEF bytes, X
  <2>3. packets' \in Seq(X)
    BY <1>4, <2>1
  <2>4. mouse' \in X
    BY <1>4, <2>1, <2>2
  <2>5. Len(mouse') < PacketSize
    BY <1>1, <1>4, <2>2
  <2> QED BY <2>3, <2>4, <2>5 DEF X
<1>6. ASSUME Packed, b.n = Fed + 1 PROVE Packed' /\ Fed' = Fed + 1
  <2>1. bytes = Append(mouse, b.n)
    <3>1. CASE mouse = <<>>
      <4>1. m = 0
        BY <3>1
      <4>2. ASSUME NEW a \in Nat, NEW p \in Nat \ {0} PROVE (a * p) % p = 0
        OBVIOUS
      <4>3. Fed = n * PacketSize /\ PacketSize \in Nat \ {0}
        <5>1. n * PacketSize \in Nat
          BY <1>1
        <5> QED BY <1>1, <4>1, <5>1
      <4>4. Fed % PacketSize = 0 /\ b.n - 1 = Fed
        <5>1. Fed \in Nat
          BY FedIs
        <5>2. Fed % PacketSize = 0
          BY <1>1, <4>2, <4>3
        <5> QED BY <1>6, <5>1, <5>2
      <4> QED BY <1>2, <4>4
    <3>2. CASE mouse # <<>>
      BY <3>2
    <3> QED BY <3>1, <3>2
  <2> HIDE DEF bytes
  <2>2. /\ Len(bytes) = m + 1 /\ bytes[m + 1] = b.n /\ \A j \in 1 .. m : bytes[j] = mouse[j]
        /\ b.n = n * PacketSize + (m + 1)
    <3>1. Len(bytes) = m + 1 /\ bytes[m + 1] = b.n /\ \A j \in 1 .. m : bytes[j] = mouse[j]
      BY <1>1, <1>2, <2>1
    <3>2. \A x, y \in Nat : (x + y) + 1 = x + (y + 1)
      OBVIOUS
    <3>3. n * PacketSize \in Nat
      BY <1>1
    <3> QED BY <1>1, <1>6, <3>1, <3>2, <3>3
  <2>3. \A j \in 1 .. m + 1 : bytes[j] = n * PacketSize + j
    <3>1. \A j \in 1 .. m + 1 : j \in 1 .. m \/ j = m + 1
      BY <1>1
    <3> QED BY <1>6, <2>2, <3>1 DEF Packed
  <2>4. CASE m + 1 < PacketSize
    <3>1. mouse' = bytes /\ packets' = packets
      BY <1>4, <2>2, <2>4, <1>1
    <3>2. Packed'
      BY <1>6, <2>2, <2>3, <3>1 DEF Packed
    <3>3. Fed' = n * PacketSize + (m + 1)
      BY <2>2, <3>1 DEF Fed
    <3> QED BY <1>6, <2>2, <3>2, <3>3
  <2>5. CASE m + 1 = PacketSize
    <3>1. mouse' = <<>> /\ packets' = Append(packets, bytes)
      BY <1>1, <1>4, <2>2, <2>5
    <3>2. Len(packets') = n + 1 /\ packets'[n + 1] = bytes /\ DOMAIN packets' = 1 .. n + 1 /\ Len(mouse') = 0
          /\ \A i \in 1 .. n : packets'[i] = packets[i]
      BY <1>1, <1>3, <3>1
    <3>3. Fed' = Fed + 1
      <4>1. Fed' = (n + 1) * PacketSize + 0
        BY <3>2 DEF Fed
      <4>2. \A a, p \in Nat : (a + 1) * p + 0 = a * p + p
        OBVIOUS
      <4>3. Fed' = n * PacketSize + (m + 1)
        BY <1>1, <2>5, <4>1, <4>2
      <4> QED BY <1>6, <2>2, <4>3
    <3>4. bytes = [j \in 1 .. PacketSize |-> ((n + 1) - 1) * PacketSize + j]
      <4>1. bytes = [j \in 1 .. PacketSize |-> n * PacketSize + j]
        BY <1>3, <2>2, <2>3, <2>5
      <4>2. (n + 1) - 1 = n
        BY <1>1
      <4> QED BY <4>1, <4>2
    <3>5. packets' = [i \in 1 .. n + 1 |-> [j \in 1 .. PacketSize |-> (i - 1) * PacketSize + j]]
      <4> DEFINE row(i) == [j \in 1 .. PacketSize |-> (i - 1) * PacketSize + j]
      <4>1. \A i \in 1 .. n : packets[i] = row(i)
        <5>1. packets = [i \in 1 .. n |-> row(i)]
          BY <1>6 DEF Packed
        <5> HIDE DEF row
        <5> QED BY <5>1
      <4>2. packets'[n + 1] = row(n + 1)
        BY <3>2, <3>4
      <4>3. \A i \in 1 .. n + 1 : i \in 1 .. n \/ i = n + 1
        BY <1>1
      <4>4. packets' \in Seq(Seq(Nat))
        BY <1>5
      <4> HIDE DEF row
      <4>5. packets' = [i \in 1 .. n + 1 |-> row(i)]
        BY <3>2, <4>1, <4>2, <4>3, <4>4
      <4> QED BY <4>5 DEF row
    <3>6. Packed'
      BY <3>2, <3>5 DEF Packed
    <3> QED BY <3>3, <3>6
  <2>6. m + 1 < PacketSize \/ m + 1 = PacketSize
    BY <1>1
  <2> QED BY <2>4, <2>5, <2>6, Zenon
<1> QED
  BY <1>5, <1>6

\* The loop stores the tail and gives the word to its decoder.
LEMMA PopStoresOK == ASSUME InIInv, PopStores PROVE InIInv'
<1> USE DEF InIInv
<1> DEFINE f == [events EXCEPT !.tail = After(@), !.words[events.tail] = Second]
           B == Bytes(codes)
<1>1. /\ loop = "store" /\ loop' = "pop" /\ events' = f /\ word' = Second
      /\ IF word.from = "mouse" THEN MouseFed(word) ELSE UNCHANGED <<mouse, packets>>
      /\ IF word.from = "key" THEN KeyFed(word) ELSE UNCHANGED <<keyboard, keys>>
      /\ UNCHANGED <<port, lines, codes, moved>>
  BY DEF PopStores
<1>2. events \in RingType(B) /\ word \in B /\ B \in SUBSET AnyByte /\ Len(codes) \in Nat /\ moved \in Nat /\ Fed \in Nat
  BY FedIs DEF InTypes, Bytes
<1>3. Second \in B
  BY DEF Second, Byte, Bytes, AnyByte, Faithful
<1>4. 1 \in 1 .. Waiting(events) /\ word = Held(events)[1]
  BY <1>1 DEF Reading
<1>5. events.head # events.tail
  <2>1. events.head = events.tail => Waiting(events) = 0
    BY <1>2, InputAssumption DEF Waiting, RingType, Cells
  <2> QED BY <1>4, <2>1
<1>6. /\ f \in RingType(B) /\ f.lost = events.lost
      /\ Waiting(events) \in Nat \ {0} /\ Waiting(f) = Waiting(events) - 1
      /\ \A k \in 1 .. Waiting(f) : Held(f)[k] = Held(events)[k + 1]
  <2> DEFINE x == [words |-> events.words, head |-> events.head, tail |-> After(events.tail), lost |-> events.lost]
  <2>1. events = [words |-> events.words, head |-> events.head, tail |-> events.tail, lost |-> events.lost]
        /\ events.words \in [Cells -> B] /\ events.tail \in Cells
    BY <1>2 DEF RingType
  <2>2. [events EXCEPT !.tail = After(@)] = x
    BY <2>1
  <2>3. [x EXCEPT !.words[events.tail] = Second] = Popped(events, Second)
    BY DEF Popped
  <2>4. f = [[events EXCEPT !.tail = After(@)] EXCEPT !.words[events.tail] = Second]
    BY <2>1
  <2> HIDE DEF x, f
  <2>5. f = Popped(events, Second)
    BY <2>2, <2>3, <2>4
  <2> HIDE DEF B
  <2> QED BY <1>2, <1>3, <1>5, <2>5, PopIs
<1> HIDE DEF f
<1>7. ASSUME NEW who, NEW low \in Nat, NEW high \in Nat, Mixed(events, port, 1, Len(port), who, low, high)
      PROVE  /\ word.from # who => Mixed(f, port, 1, Len(port), who, low, high)
             /\ word.from = who => word.n = low + 1 /\ low + 1 <= high /\ Mixed(f, port, 1, Len(port), who, low + 1, high)
  <2> HIDE DEF B
  <2> QED BY <1>2, <1>4, <1>6, <1>7, MixedPopped
<1>8. InTypes
  OBVIOUS
<1>9. keyboard' \in [shift : BOOLEAN, extended : BOOLEAN] /\ keys' \in Seq(Nat \X BOOLEAN \X BOOLEAN)
  <2>1. CASE word.from = "key"
    BY <1>1, <1>2, <1>8, <2>1, KeyFedOK
  <2>2. CASE word.from # "key"
    BY <1>1, <2>2 DEF InTypes
  <2> QED BY <2>1, <2>2
<1>10. mouse' \in Seq(Nat) /\ Len(mouse') < PacketSize /\ packets' \in Seq(Seq(Nat))
  <2>1. CASE word.from = "mouse"
    BY <1>1, <1>2, <1>8, <2>1, MouseFedOK
  <2>2. CASE word.from # "mouse"
    BY <1>1, <2>2 DEF InTypes
  <2> QED BY <2>1, <2>2
<1>11. InTypes'
  BY <1>1, <1>3, <1>6, <1>9, <1>10 DEF InTypes
<1>12. Reading'
  BY <1>1 DEF Reading
<1>13. KeysCome'
  <2> SUFFICES ASSUME ~events.lost PROVE KeysCome'
    BY <1>1, <1>6 DEF KeysCome
  <2>1. PICK c \in 0 .. Len(codes) : Turned(c) /\ Mixed(events, port, 1, Len(port), "key", c, Len(codes))
    BY DEF KeysCome
  <2>2. c \in Nat
    BY <1>2
  <2>3. CASE word.from = "key"
    <3>1. word.n = c + 1 /\ c + 1 <= Len(codes) /\ Mixed(f, port, 1, Len(port), "key", c + 1, Len(codes))
      BY <1>2, <1>7, <2>1, <2>2, <2>3
    <3>2. Turned(c + 1)'
      BY <1>1, <1>2, <1>8, <2>1, <2>2, <2>3, <3>1, KeyFedOK
    <3>3. c + 1 \in 0 .. Len(codes')
      BY <1>1, <1>2, <2>2, <3>1
    <3>4. Mixed(events', port', 1, Len(port'), "key", c + 1, Len(codes'))
      BY <1>1, <3>1
    <3> QED BY <3>2, <3>3, <3>4 DEF KeysCome, Mixed, Waiting, Held
  <2>4. CASE word.from # "key"
    <3>1. Mixed(events', port', 1, Len(port'), "key", c, Len(codes')) /\ c \in 0 .. Len(codes')
      BY <1>1, <1>2, <1>7, <2>1, <2>2, <2>4
    <3>2. Turned(c)'
      BY <1>1, <2>1, <2>4 DEF Turned
    <3> QED BY <3>1, <3>2 DEF KeysCome, Mixed, Waiting, Held
  <2> QED BY <2>3, <2>4
<1>14. MovesCome'
  <2> SUFFICES ASSUME ~events.lost PROVE MovesCome'
    BY <1>1, <1>6 DEF MovesCome
  <2>1. Packed /\ Mixed(events, port, 1, Len(port), "mouse", Fed, moved)
    BY DEF MovesCome
  <2>2. CASE word.from = "mouse"
    <3>1. word.n = Fed + 1 /\ Mixed(f, port, 1, Len(port), "mouse", Fed + 1, moved)
      BY <1>2, <1>7, <2>1, <2>2
    <3>2. Packed' /\ Fed' = Fed + 1
      BY <1>1, <1>2, <1>8, <2>1, <2>2, <3>1, MouseFedOK
    <3>3. Mixed(events', port', 1, Len(port'), "mouse", Fed', moved')
      BY <1>1, <3>1, <3>2
    <3> QED BY <3>2, <3>3 DEF MovesCome, Mixed, Waiting, Held
  <2>3. CASE word.from # "mouse"
    <3>1. Packed' /\ Fed' = Fed
      BY <1>1, <2>1, <2>3 DEF Packed, Fed
    <3>2. Mixed(events', port', 1, Len(port'), "mouse", Fed', moved')
      BY <1>1, <1>2, <1>7, <2>1, <2>3, <3>1
    <3> QED BY <3>1, <3>2 DEF MovesCome, Mixed, Waiting, Held
  <2> QED BY <2>2, <2>3
<1> QED
  BY <1>11, <1>12, <1>13, <1>14

(* What the devices sent is in the controller, in the ring or decoded, in  *)
(* order, unless the ring was full (events.rs, idt.rs, ps2.rs).            *)
THEOREM InputInvariant == InputSpec => []InIInv
<1>1. InIInv /\ [InputNext]_inputVars => InIInv'
  <2> SUFFICES ASSUME InIInv, [InputNext]_inputVars PROVE InIInv'
    OBVIOUS
  <2>1. CASE loop' # "store" /\ UNCHANGED <<port, events, word, mouse, keyboard, codes, moved, packets, keys>>
    <3>1. InTypes' /\ Reading'
      BY <2>1 DEF InIInv, InTypes, Reading
    <3>2. KeysCome'
      BY <2>1 DEF InIInv, KeysCome, Turned, Mixed, Waiting, Held
    <3>3. MovesCome'
      BY <2>1 DEF InIInv, MovesCome, Packed, Fed, Mixed, Waiting, Held
    <3> QED BY <3>1, <3>2, <3>3 DEF InIInv
  <2>2. CASE UNCHANGED inputVars
    BY <2>2 DEF inputVars, InIInv, InTypes, Reading, KeysCome, MovesCome, Turned, Packed, Fed, Mixed, Waiting, Held
  <2>3. CASE Look \/ Halt
    <3>1. loop' # "store" /\ UNCHANGED <<port, events, word, mouse, keyboard, codes, moved, packets, keys>>
      BY <2>3 DEF Look, Halt
    <3> QED BY <2>1, <3>1
  <2> QED BY <2>2, <2>3, KeyboardSendsOK, MouseSendsOK, DeviceHandlerOK, TimerHandlerOK, PopReadsOK, PopStoresOK DEF InputNext
<1> QED
  BY <1>1, InputStarts, PTL DEF InputSpec

\* Whatever interrupt brings a byte, late or never, and however the handlers
\* fall between the steps of the loop: unless the ring was full, the packets
\* and the keys are those that were sent, in order (events.rs, push and pop).
THEOREM DecodersStayInStep == InputSpec => []InStep
<1>1. InIInv => InStep
  <2> SUFFICES ASSUME InIInv, ~events.lost PROVE InStep
    BY DEF InStep
  <2>1. PICK c \in 0 .. Len(codes) : Turned(c)
    BY DEF InIInv, KeysCome
  <2>2. Packed
    BY DEF InIInv, MovesCome
  <2> QED BY <2>1, <2>2 DEF InStep, Turned, Packed
<1> QED
  BY <1>1, InputInvariant, PTL

(***************************************************************************)
(* The network: addresses and names                                        *)
(***************************************************************************)
Answering(d, f, p) == OnAnswer(d, f)
Answers == INSTANCE FoldLemmas WITH Op <- Answering

Keeping(kept, f, taken) == IF f \in taken THEN kept ELSE Append(kept, f)
Retains == INSTANCE FoldLemmas WITH Op <- Keeping

\* Of some indices, the last is one of them, and so is the first.
LEMMA MaxIn ==
  ASSUME NEW n \in Nat, NEW s \in SUBSET (1 .. n), s # {}
  PROVE  Max(s) \in s
<1>1. Answers!Top(s) \in s
  BY Answers!TopIs
<1> QED
  BY <1>1, Zenon DEF Max, Answers!Top

(* The least of a set of indices is one of them.                           *)
LEMMA MinIn ==
  ASSUME NEW n \in Nat, NEW s \in SUBSET (1 .. n), s # {}
  PROVE  Min(s) \in s
<1>1. \E z \in s : \A y \in s : z <= y
  BY Answers!LeastExists
<1> QED
  BY <1>1, Zenon DEF Min

\* What retain leaves was there.
LEMMA WithoutIs ==
  ASSUME NEW S, NEW q \in Seq(S), NEW taken
  PROVE  Without(q, taken) \in Seq(S) /\ ToSet(Without(q, taken)) \subseteq ToSet(q)
<1>1. Without(q, taken) = Retains!Run(<<>>, q, taken)
  BY Zenon DEF Without, FoldLeft, MapThenFoldSet, Max, Retains!Run, Retains!Walk, Retains!Top, Keeping
<1> DEFINE n == Len(q)
           P == (0 .. n) \X Seq(ToSet(q))
<1>2. n \in Nat /\ DOMAIN q = 1 .. n /\ <<0, <<>>>> \in P
  <2>1. n \in Nat /\ DOMAIN q = 1 .. n
    OBVIOUS
  <2>2. 0 \in 0 .. n /\ <<>> \in Seq(ToSet(q))
    BY <2>1
  <2> QED BY <2>1, <2>2
<1>3. ASSUME NEW k \in 1 .. n, NEW d, <<k - 1, d>> \in P PROVE <<k, Keeping(d, q[k], taken)>> \in P
  <2>1. d \in Seq(ToSet(q))
    BY <1>3
  <2>2. q[k] \in ToSet(q)
    BY DEF ToSet
  <2>3. Keeping(d, q[k], taken) \in Seq(ToSet(q))
    BY <2>1, <2>2 DEF Keeping
  <2>4. k \in 0 .. n
    OBVIOUS
  <2> QED BY <2>3, <2>4
<1>4. <<n, Retains!Run(<<>>, q, taken)>> \in P
  <2> HIDE DEF P, n
  <2> QED BY <1>2, <1>3, Retains!FoldKeeps, Zenon
<1>5. Without(q, taken) \in Seq(ToSet(q))
  BY <1>1, <1>4
<1>6. ToSet(q) \subseteq S
  BY DEF ToSet
<1> HIDE DEF P, n
<1> DEFINE w == Without(q, taken)
<1>7. \A i \in 1 .. Len(w) : w[i] \in ToSet(q)
  <2> HIDE DEF w
  <2> QED BY <1>5 DEF w
<1>8. w \in Seq(S)
  <2>1. w \in Seq(ToSet(q))
    BY <1>5
  <2> HIDE DEF w
  <2> QED BY <1>6, <2>1
<1>9. DOMAIN w = 1 .. Len(w)
  <2> HIDE DEF w
  <2> QED BY <1>8
<1> QED
  BY <1>7, <1>8, <1>9 DEF ToSet

Names == HostNames \cup {NoName}
Whos == DhcpServers \cup Neighbours \cup {Nobody, Router}
Frames == [kind : {"arp", "stray", "dns"} \cup DhcpKinds, who : Whos, id : Nat, says : Names]
Entries == [who : Whos, fresh : BOOLEAN]
DhcpStates == [state : {"Asking", "Confirming", "Bound", "Failed"}, offered : Whos, tries : Nat]
Resolving == [asking : Names, answer : Names, failed : BOOLEAN, xid : Nat, tries : Nat]

NetTypes ==
    /\ dhcp \in DhcpStates
    /\ stack \in [ip : Whos, arp : Seq(Entries), datagrams : Seq(Frames)]
    /\ resolver \in [Resolvers -> Resolving]
    /\ air \subseteq Frames

InFlight == air \cup ToSet(stack.datagrams)

\* Only the server of the offer accepted confirms, and none before that.
Confirmed ==
    /\ \A f \in InFlight : f.kind = "ack" => dhcp.state # "Asking" /\ f.who = dhcp.offered
    /\ stack.ip \in {Nobody, dhcp.offered}
    /\ dhcp.state = "Asking" => stack.ip = Nobody

\* An answer in flight with the number of a question being asked answers it:
\* no two resolvers, and no two questions of one, have a number in common.
NumbersDiffer ==
    /\ \A r \in Resolvers : resolver[r].answer \in {NoName, resolver[r].asking}
    /\ \A r \in Resolvers : resolver[r].asking # NoName => resolver[r].xid # 0
    /\ \A q, r \in Resolvers : q # r => resolver[q].xid = 0 \/ resolver[q].xid # resolver[r].xid
    /\ \A f \in InFlight, r \in Resolvers :
          f.kind = "dns" /\ f.id = resolver[r].xid /\ resolver[r].asking # NoName => f.says \in {NoName, resolver[r].asking}

\* So it is until a number in use is drawn.
Numbered == ~reused => NumbersDiffer

NetIInv == NetTypes /\ Confirmed /\ Numbered

(* Every frame the model writes is a frame, of the kind written.           *)
LEMMA FrameTypes ==
  /\ Stray \in Frames /\ Stray.kind = "stray"
  /\ \A n \in Neighbours \cup {Router} : Whois(n) \in Frames /\ Whois(n).kind = "arp"
  /\ \A k \in DhcpKinds, w \in Whos : ToDhcp(k, w) \in Frames /\ ToDhcp(k, w).kind = k /\ ToDhcp(k, w).who = w
  /\ \A i \in Nat, m \in Names : Frame("dns", Nobody, i, m) \in Frames /\ Frame("dns", Nobody, i, m).kind = "dns"
                               /\ Frame("dns", Nobody, i, m).id = i /\ Frame("dns", Nobody, i, m).says = m
BY DEF Stray, Whois, ToDhcp, Frame, Frames, Whos, Names, DhcpKinds

(* The network starts with nothing asked.                                  *)
LEMMA NetStarts == NetInit => NetIInv
<1> SUFFICES ASSUME NetInit PROVE NetIInv
  OBVIOUS
<1>1. stack.datagrams = <<>> /\ ToSet(<<>>) = {} /\ stack.ip = Nobody /\ dhcp.state = "Asking" /\ air = {ToDhcp("offer", t) : t \in DhcpServers}
  BY DEF NetInit, ToSet
<1>2. \A f \in air : f \in Frames /\ f.kind = "offer"
  BY <1>1, FrameTypes DEF Whos, DhcpKinds
<1>3. InFlight = air
  BY <1>1 DEF InFlight
<1>4. dhcp \in DhcpStates /\ stack \in [ip : Whos, arp : Seq(Entries), datagrams : Seq(Frames)]
  BY DEF NetInit, DhcpStates, Whos
<1>5. resolver \in [Resolvers -> Resolving] /\ \A r \in Resolvers : resolver[r].asking = NoName /\ resolver[r].answer = NoName /\ resolver[r].xid = 0
  BY DEF NetInit, Resolving, Names
<1> QED
  BY <1>1, <1>2, <1>3, <1>4, <1>5 DEF NetIInv, NetTypes, Confirmed, Numbered, NumbersDiffer

\* What a step that leaves a client alone must not put in flight.
LEMMA ConfirmedKeeps ==
  ASSUME Confirmed, dhcp' = dhcp, stack'.ip = stack.ip, \A f \in InFlight' : f \in InFlight \/ f.kind # "ack"
  PROVE  Confirmed'
BY DEF Confirmed

(* Answers stay their resolver's when no DNS frame is added.               *)
LEMMA NumberedKeeps ==
  ASSUME Numbered, resolver' = resolver, reused' = reused, \A f \in InFlight' : f \in InFlight \/ f.kind # "dns"
  PROVE  Numbered'
BY DEF Numbered, NumbersDiffer

\* What is known of the stack's parts.
LEMMA StackFacts ==
  ASSUME NetTypes
  PROVE  /\ stack = [ip |-> stack.ip, arp |-> stack.arp, datagrams |-> stack.datagrams]
         /\ stack.ip \in Whos /\ stack.arp \in Seq(Entries) /\ stack.datagrams \in Seq(Frames)
         /\ ToSet(stack.datagrams) \subseteq Frames /\ InFlight \subseteq Frames
         /\ Len(stack.datagrams) \in Nat /\ DOMAIN stack.datagrams = 1 .. Len(stack.datagrams)
         /\ \A i \in DOMAIN stack.datagrams : stack.datagrams[i] \in InFlight
<1>1. stack.ip \in Whos /\ stack.arp \in Seq(Entries) /\ stack.datagrams \in Seq(Frames)
      /\ stack = [ip |-> stack.ip, arp |-> stack.arp, datagrams |-> stack.datagrams]
  BY DEF NetTypes
<1>2. DOMAIN stack.datagrams = 1 .. Len(stack.datagrams) /\ Len(stack.datagrams) \in Nat
      /\ \A i \in 1 .. Len(stack.datagrams) : stack.datagrams[i] \in Frames
  BY <1>1
<1>3. ToSet(stack.datagrams) \subseteq Frames
  BY <1>2 DEF ToSet
<1> QED
  BY <1>1, <1>2, <1>3 DEF InFlight, NetTypes, ToSet

(* What a frame teaches is a table of neighbours.                          *)
LEMMA LearntIs ==
  ASSUME NEW table \in Seq(Entries), NEW who \in Whos
  PROVE  Learnt(table, who) \in Seq(Entries)
<1>1. CASE \E i \in DOMAIN table : table[i].who = who
  <2> DEFINE t == [i \in DOMAIN table |-> IF table[i].who = who THEN [table[i] EXCEPT !.fresh = TRUE] ELSE table[i]]
  <2>1. \A i \in DOMAIN table : table[i] \in Entries
    OBVIOUS
  <2>2. \A e \in Entries : [e EXCEPT !.fresh = TRUE] \in Entries
    BY DEF Entries
  <2>3. t \in [DOMAIN table -> Entries]
    BY <2>1, <2>2
  <2>4. t \in Seq(Entries)
    <3> HIDE DEF t
    <3> QED BY <2>3, SameLength
  <2> QED BY <1>1, <2>4 DEF Learnt
<1>2. CASE ~\E i \in DOMAIN table : table[i].who = who
  <2> DEFINE e == [who |-> who, fresh |-> TRUE]
             t == Append(table, e)
  <2>1. e \in Entries
    BY DEF Entries
  <2>2. t \in Seq(Entries) /\ t # <<>>
    <3> HIDE DEF e
    <3>1. t \in Seq(Entries)
      BY <2>1
    <3>2. Len(t) = Len(table) + 1 /\ Len(table) \in Nat
      OBVIOUS
    <3>3. Len(<<>>) = 0
      OBVIOUS
    <3> HIDE DEF t
    <3> QED BY <3>1, <3>2, <3>3
  <2>3. Tail(t) \in Seq(Entries)
    <3> HIDE DEF t
    <3> QED BY <2>2
  <2> QED BY <1>2, <2>2, <2>3 DEF Learnt, Kept
<1> QED
  BY <1>1, <1>2

(* A frame is received.                                                    *)
LEMMA ReceiveOK == ASSUME NetIInv, Receive PROVE NetIInv'
<1>1. PICK f \in air \cup {Stray} \cup {Whois(n) : n \in Neighbours} :
           stack' = IF f.kind = "arp" THEN [stack EXCEPT !.arp = Learnt(@, f.who)]
                    ELSE [stack EXCEPT !.datagrams = Kept(Append(@, f), DatagramLimit)]
  BY DEF Receive
<1>2. f \in Frames /\ f.who \in Whos /\ (f \in air \/ f.kind \in {"stray", "arp"})
  <2>1. f \in Frames /\ (f \in air \/ f.kind \in {"stray", "arp"})
    BY FrameTypes DEF NetIInv, NetTypes
  <2> QED BY <2>1 DEF Frames
<1>3. /\ stack = [ip |-> stack.ip, arp |-> stack.arp, datagrams |-> stack.datagrams]
      /\ stack.ip \in Whos /\ stack.arp \in Seq(Entries) /\ stack.datagrams \in Seq(Frames)
  BY StackFacts DEF NetIInv
<1>4. UNCHANGED <<dhcp, resolver, air, reused>>
  BY DEF Receive
<1>5. CASE f.kind = "arp"
  <2>1. stack' = [ip |-> stack.ip, arp |-> Learnt(stack.arp, f.who), datagrams |-> stack.datagrams]
    BY <1>1, <1>3, <1>5
  <2>2. Learnt(stack.arp, f.who) \in Seq(Entries)
    BY <1>2, <1>3, LearntIs
  <2>3. NetTypes'
    BY <1>3, <1>4, <2>1, <2>2 DEF NetIInv, NetTypes
  <2>4. InFlight' = InFlight /\ stack'.ip = stack.ip
    BY <1>4, <2>1 DEF InFlight
  <2> QED BY <1>4, <2>3, <2>4, ConfirmedKeeps, NumberedKeeps DEF NetIInv
<1>6. CASE f.kind # "arp"
  <2> DEFINE a == Append(stack.datagrams, f)
             d == Kept(a, DatagramLimit)
  <2>1. a \in Seq(Frames) /\ ToSet(a) = ToSet(stack.datagrams) \cup {f}
    BY <1>2, <1>3, ToSetFacts
  <2>2. a # <<>>
    BY <1>2, <1>3
  <2>3. Tail(a) \in Seq(Frames) /\ ToSet(Tail(a)) \subseteq ToSet(a)
    <3> HIDE DEF a
    <3> QED BY <1>2, <2>1, <2>2, ToSetFacts
  <2>4. d \in Seq(Frames) /\ ToSet(d) \subseteq ToSet(stack.datagrams) \cup {f}
    <3> HIDE DEF a
    <3> QED BY <2>1, <2>3 DEF Kept
  <2>5. stack' = [ip |-> stack.ip, arp |-> stack.arp, datagrams |-> d]
    BY <1>1, <1>3, <1>6
  <2> HIDE DEF d
  <2>6. NetTypes'
    BY <1>3, <1>4, <2>4, <2>5 DEF NetIInv, NetTypes
  <2>7. \A g \in InFlight' : g \in InFlight \/ g.kind \in {"stray", "arp"}
    BY <1>2, <1>4, <2>4, <2>5 DEF InFlight
  <2>8. stack'.ip = stack.ip
    BY <2>5
  <2> QED BY <1>4, <2>6, <2>7, <2>8, ConfirmedKeeps, NumberedKeeps DEF NetIInv
<1> QED BY <1>5, <1>6

(* A frame is lost on the wire.                                            *)
LEMMA LoseOK == ASSUME NetIInv, Lose PROVE NetIInv'
<1>1. air' \subseteq air /\ UNCHANGED <<dhcp, stack, resolver, reused>>
  BY DEF Lose
<1>2. InFlight' \subseteq InFlight
  BY <1>1 DEF InFlight
<1> QED
  BY <1>1, <1>2, ConfirmedKeeps, NumberedKeeps DEF NetIInv, NetTypes

(* What was learnt of the neighbours grows old.                            *)
LEMMA ExpireOK == ASSUME NetIInv, Expire PROVE NetIInv'
<1>1. /\ stack = [ip |-> stack.ip, arp |-> stack.arp, datagrams |-> stack.datagrams]
      /\ stack.ip \in Whos /\ stack.arp \in Seq(Entries) /\ stack.datagrams \in Seq(Frames)
  BY StackFacts DEF NetIInv
<1>2. PICK i \in DOMAIN stack.arp : stack' = [stack EXCEPT !.arp[i].fresh = FALSE]
  BY DEF Expire
<1> DEFINE t == [stack.arp EXCEPT ![i] = [stack.arp[i] EXCEPT !.fresh = FALSE]]
<1>3. stack' = [ip |-> stack.ip, arp |-> t, datagrams |-> stack.datagrams]
  BY <1>1, <1>2
<1>4. t \in Seq(Entries)
  <2>1. stack.arp[i] \in Entries
    BY <1>1
  <2>2. [stack.arp[i] EXCEPT !.fresh = FALSE] \in Entries
    BY <2>1 DEF Entries
  <2> QED BY <1>1, <2>2
<1> HIDE DEF t
<1>5. UNCHANGED <<dhcp, resolver, air, reused>>
  BY DEF Expire
<1>6. InFlight' = InFlight /\ stack'.ip = stack.ip
  BY <1>3, <1>5 DEF InFlight
<1>7. NetTypes'
  BY <1>1, <1>3, <1>4, <1>5 DEF NetIInv, NetTypes
<1> QED
  BY <1>5, <1>6, <1>7, ConfirmedKeeps, NumberedKeeps DEF NetIInv

\* What the answers kept make of the client, whatever they are: it takes an
\* offer only while it asks, and does not go back to asking.
LEMMA AnswersTaken ==
  ASSUME NetTypes
  PROVE  LET after == FoldLeft(OnAnswer, dhcp, stack.datagrams)
         IN  /\ after \in DhcpStates
             /\ after.offered = dhcp.offered \/ dhcp.state = "Asking"
             /\ after.state = "Asking" => dhcp.state = "Asking"
<1> DEFINE n == Len(stack.datagrams)
           P == {e \in (0 .. n) \X DhcpStates :
                    /\ e[2].offered = dhcp.offered \/ dhcp.state = "Asking"
                    /\ e[2].state = "Asking" => dhcp.state = "Asking"}
<1>1. n \in Nat /\ DOMAIN stack.datagrams = 1 .. n /\ \A i \in 1 .. n : stack.datagrams[i] \in Frames
  BY StackFacts
<1>2. <<0, dhcp>> \in P
  BY <1>1 DEF NetTypes
<1>3. ASSUME NEW k \in 1 .. n, NEW d, <<k - 1, d>> \in P
      PROVE  <<k, Answering(d, stack.datagrams[k], 0)>> \in P
  <2> DEFINE f == stack.datagrams[k]
  <2>1. d \in DhcpStates /\ (d.offered = dhcp.offered \/ dhcp.state = "Asking") /\ (d.state = "Asking" => dhcp.state = "Asking")
    BY <1>3
  <2>2. f.who \in Whos
    BY <1>1 DEF Frames
  <2> HIDE DEF f
  <2> DEFINE a == OnAnswer(d, f)
  <2>3. a \in DhcpStates
    BY <2>1, <2>2 DEF OnAnswer, DhcpStates
  <2>4. (a.offered = dhcp.offered \/ dhcp.state = "Asking") /\ (a.state = "Asking" => dhcp.state = "Asking")
    BY <2>1 DEF OnAnswer, Offered, DhcpStates
  <2>5. k \in 0 .. n
    BY <1>1
  <2> HIDE DEF a
  <2>6. <<k, a>> \in P
    BY <2>3, <2>4, <2>5
  <2> QED BY <2>6 DEF a, f, Answering
<1>4. <<n, Answers!Run(dhcp, stack.datagrams, 0)>> \in P
  <2> HIDE DEF P, n
  <2> QED BY <1>1, <1>2, <1>3, Answers!FoldKeeps, Zenon
<1>5. FoldLeft(OnAnswer, dhcp, stack.datagrams) = Answers!Run(dhcp, stack.datagrams, 0)
  BY Zenon DEF FoldLeft, MapThenFoldSet, Max, Answers!Run, Answers!Walk, Answers!Top, Answering
<1> QED
  BY <1>4, <1>5

(* The client of addresses takes what arrived, or asks again.              *)
LEMMA DhcpPollOK == ASSUME NetIInv, NEW late \in BOOLEAN, DhcpPoll(late) PROVE NetIInv'
<1> DEFINE after == FoldLeft(OnAnswer, dhcp, stack.datagrams)
           acks == {i \in DOMAIN stack.datagrams : stack.datagrams[i].kind = "ack"}
           last == stack.datagrams[Max(acks)]
           rest == Without(stack.datagrams, {f \in ToSet(stack.datagrams) : f.kind \in DhcpKinds})
<1>1. /\ stack = [ip |-> stack.ip, arp |-> stack.arp, datagrams |-> stack.datagrams]
      /\ stack.ip \in Whos /\ stack.arp \in Seq(Entries) /\ stack.datagrams \in Seq(Frames)
      /\ InFlight \subseteq Frames
  BY StackFacts DEF NetIInv
<1>2. rest \in Seq(Frames) /\ ToSet(rest) \subseteq ToSet(stack.datagrams)
  BY <1>1, WithoutIs
<1>3. dhcp \in DhcpStates /\ air \subseteq Frames /\ NetTypes
  BY DEF NetIInv, NetTypes
<1>4. /\ after \in DhcpStates
      /\ after.offered = dhcp.offered \/ dhcp.state = "Asking"
      /\ after.state = "Asking" => dhcp.state = "Asking"
  BY <1>3, AnswersTaken
<1>5. acks # {} => last \in InFlight /\ last.kind = "ack"
  <2> SUFFICES ASSUME acks # {} PROVE last \in InFlight /\ last.kind = "ack"
    OBVIOUS
  <2>1. DOMAIN stack.datagrams = 1 .. Len(stack.datagrams) /\ Len(stack.datagrams) \in Nat
        /\ \A i \in DOMAIN stack.datagrams : stack.datagrams[i] \in InFlight
    BY <1>3, StackFacts
  <2>2. acks \in SUBSET (1 .. Len(stack.datagrams))
    BY <2>1
  <2>3. Max(acks) \in acks
    <3> HIDE DEF acks
    <3> QED BY <2>1, <2>2, MaxIn
  <2> QED BY <2>1, <2>3
<1>6. \A f \in InFlight : f.kind = "ack" => dhcp.state # "Asking" /\ f.who = dhcp.offered
  BY DEF NetIInv, Confirmed
<1>7. acks # {} => dhcp.state # "Asking" /\ last.who = dhcp.offered
  BY <1>5, <1>6
<1>8. stack.ip \in {Nobody, dhcp.offered} /\ (dhcp.state = "Asking" => stack.ip = Nobody)
  BY DEF NetIInv, Confirmed
<1>9. CASE ~Going(dhcp.state)
  <2>1. UNCHANGED <<dhcp, resolver, air, reused>> /\ stack' = [ip |-> stack.ip, arp |-> stack.arp, datagrams |-> rest]
    BY <1>1, <1>9 DEF DhcpPoll
  <2> HIDE DEF rest
  <2>2. InFlight' \subseteq InFlight /\ stack'.ip = stack.ip
    BY <1>2, <2>1 DEF InFlight
  <2>3. NetTypes'
    BY <1>1, <1>2, <2>1 DEF NetIInv, NetTypes
  <2> QED BY <2>1, <2>2, <2>3, ConfirmedKeeps, NumberedKeeps DEF NetIInv
<1>10. CASE Going(dhcp.state)
  <2>1. /\ stack' = [stack EXCEPT !.datagrams = rest, !.ip = IF acks = {} THEN stack.ip ELSE last.who]
        /\ dhcp' = IF ~late \/ ~Going(after.state) THEN after
                   ELSE IF after.tries >= Tries THEN [after EXCEPT !.state = "Failed"]
                   ELSE [after EXCEPT !.tries = @ + 1]
        /\ \E reply \in Request(after.offered) :
              air' = air \cup (IF dhcp' = dhcp THEN {}
                               ELSE IF after.state = "Confirming" /\ Going(dhcp'.state) THEN {reply}
                               ELSE IF dhcp'.state = "Asking" THEN Discover
                               ELSE IF acks # {} /\ last.who \in NamingServers THEN {Whois(Router)} ELSE {})
        /\ UNCHANGED <<resolver, reused>>
    BY <1>10, Zenon DEF DhcpPoll
  <2>2. stack' = [ip |-> IF acks = {} THEN stack.ip ELSE last.who, arp |-> stack.arp, datagrams |-> rest]
    BY <1>1, <2>1
  <2> HIDE DEF after, acks, last, rest
  <2>3. dhcp' \in DhcpStates /\ dhcp'.offered = after.offered /\ (dhcp'.state = "Asking" => after.state = "Asking")
    BY <1>4, <2>1 DEF DhcpStates
  <2>4. after.offered \in Whos /\ dhcp.offered \in Whos
    BY <1>3, <1>4 DEF DhcpStates
  <2>5. \A f \in Request(after.offered) : f \in Frames /\ f.kind \in DhcpKinds /\ f.who = after.offered
    BY <2>4, FrameTypes DEF Request, DhcpKinds
  <2>6. \A f \in Discover : f \in Frames /\ f.kind = "offer"
    BY FrameTypes DEF Discover, DhcpKinds, Whos
  <2>7. \A f \in air' : \/ f \in air
                        \/ f \in Frames /\ f.kind \in {"offer", "arp"}
                        \/ /\ f \in Frames /\ f.kind \in DhcpKinds
                           /\ f.who = dhcp'.offered /\ after.state = "Confirming"
    BY <2>1, <2>3, <2>5, <2>6, FrameTypes
  <2>8. air' \subseteq Frames
    BY <1>3, <2>7
  <2>9. stack'.ip \in Whos /\ (stack'.ip = IF acks = {} THEN stack.ip ELSE dhcp.offered) /\ stack'.datagrams = rest
        /\ stack' = [ip |-> stack'.ip, arp |-> stack.arp, datagrams |-> rest]
    BY <1>1, <1>7, <2>2, <2>4
  <2>10. NetTypes'
    <3>1. stack' \in [ip : Whos, arp : Seq(Entries), datagrams : Seq(Frames)]
      BY <1>1, <1>2, <2>9
    <3>2. resolver' = resolver /\ resolver \in [Resolvers -> Resolving]
      BY <1>3, <2>1 DEF NetTypes
    <3> QED BY <2>3, <2>8, <3>1, <3>2 DEF NetTypes
  <2>11. \A f \in InFlight' : \/ f \in InFlight
                              \/ f.kind \in {"offer", "arp"}
                              \/ f.kind \in DhcpKinds /\ f.who = dhcp'.offered /\ after.state = "Confirming"
    BY <1>2, <2>7, <2>9 DEF InFlight
  <2>12. Confirmed'
    <3>1. ASSUME NEW f \in InFlight', f.kind = "ack" PROVE dhcp'.state # "Asking" /\ f.who = dhcp'.offered
      <4>1. CASE f \in InFlight
        BY <1>4, <1>6, <2>3, <3>1, <4>1
      <4>2. CASE f \notin InFlight
        BY <2>3, <2>11, <3>1, <4>2
      <4> QED BY <4>1, <4>2
    <3>2. stack'.ip \in {Nobody, dhcp'.offered}
      <4>1. CASE dhcp.state = "Asking"
        BY <1>7, <1>8, <2>9, <4>1
      <4>2. CASE dhcp.state # "Asking"
        BY <1>4, <1>8, <2>3, <2>9, <4>2
      <4> QED BY <4>1, <4>2
    <3>3. dhcp'.state = "Asking" => stack'.ip = Nobody
      BY <1>4, <1>7, <1>8, <2>3, <2>9
    <3> QED BY <3>1, <3>2, <3>3 DEF Confirmed
  <2>13. Numbered'
    <3>1. \A f \in InFlight' : f \in InFlight \/ f.kind # "dns"
      BY <2>11 DEF DhcpKinds
    <3> QED BY <2>1, <3>1, NumberedKeeps DEF NetIInv
  <2> QED BY <2>10, <2>12, <2>13 DEF NetIInv
<1> QED BY <1>9, <1>10

\* What a resolver and the wire look like once a question has been sent, or
\* not: only its number, and what may answer it, is new.
LEMMA QueryFacts ==
  ASSUME NEW s \in Resolving, NEW says \in Names
  PROVE  /\ Query(s) \in Resolving /\ Query(s).asking = s.asking /\ Query(s).answer = s.answer /\ Query(s).xid = s.xid
         /\ \A f \in Replies(s, says) : f \in Frames /\ (f.kind # "arp" => f.kind = "dns" /\ f.id = s.xid /\ f.says = says)
<1>1. Query(s) \in Resolving /\ Query(s).asking = s.asking /\ Query(s).answer = s.answer /\ Query(s).xid = s.xid
  <2>1. s = [asking |-> s.asking, answer |-> s.answer, failed |-> s.failed, xid |-> s.xid, tries |-> s.tries]
        /\ s.asking \in Names /\ s.answer \in Names /\ s.failed \in BOOLEAN /\ s.xid \in Nat /\ s.tries + 1 \in Nat
    BY DEF Resolving
  <2>2. s.tries \in Nat
    BY DEF Resolving
  <2>3. CASE ~HasDns
    <3>1. Query(s) = [asking |-> s.asking, answer |-> s.answer, failed |-> TRUE, xid |-> s.xid, tries |-> s.tries]
      BY <2>1, <2>3 DEF Query
    <3> QED BY <2>1, <2>2, <3>1 DEF Resolving
  <2>4. CASE HasDns
    <3>1. Query(s) = [asking |-> s.asking, answer |-> s.answer, failed |-> s.failed, xid |-> s.xid, tries |-> s.tries + 1]
      BY <2>1, <2>4 DEF Query
    <3> QED BY <2>1, <3>1 DEF Resolving
  <2> QED BY <2>3, <2>4
<1>2. s.xid \in Nat
  BY DEF Resolving
<1>3. \A f \in Replies(s, says) : f = Whois(Router) \/ f = Frame("dns", Nobody, s.xid, says)
  BY DEF Replies, Sent
<1> QED
  BY <1>1, <1>2, <1>3, FrameTypes

\* A step of one resolver that leaves no two with the same number.
LEMMA OneResolver ==
  ASSUME NumbersDiffer, NEW r \in Resolvers, NEW t \in Resolving, resolver \in [Resolvers -> Resolving],
         resolver' = [resolver EXCEPT ![r] = t],
         t.answer \in {NoName, t.asking}, t.xid # 0,
         \A q \in Resolvers : q # r => resolver[q].xid # t.xid,
         \A f \in InFlight' : \/ f \in InFlight
                              \/ f.kind = "arp"
                              \/ f.kind = "dns" /\ f.id = t.xid,
         \A f \in InFlight' : f.kind = "dns" /\ f.id = t.xid /\ t.asking # NoName => f.says \in {NoName, t.asking}
  PROVE  NumbersDiffer'
<1>1. resolver'[r] = t /\ \A q \in Resolvers : q # r => resolver'[q] = resolver[q]
  OBVIOUS
<1>2. \A q \in Resolvers : resolver'[q].answer \in {NoName, resolver'[q].asking}
  BY <1>1 DEF NumbersDiffer
<1>3. \A q \in Resolvers : resolver'[q].asking # NoName => resolver'[q].xid # 0
  BY <1>1 DEF NumbersDiffer
<1>4. \A q, p \in Resolvers : q # p => resolver'[q].xid = 0 \/ resolver'[q].xid # resolver'[p].xid
  BY <1>1 DEF NumbersDiffer
<1>5. ASSUME NEW f \in InFlight', NEW q \in Resolvers, f.kind = "dns", f.id = resolver'[q].xid, resolver'[q].asking # NoName
      PROVE  f.says \in {NoName, resolver'[q].asking}
  <2>1. CASE q = r
    BY <1>1, <1>5, <2>1
  <2>2. CASE q # r
    <3>1. f \in InFlight
      BY <1>1, <1>5, <2>2
    <3> QED BY <1>1, <1>5, <2>2, <3>1 DEF NumbersDiffer
  <2> QED BY <2>1, <2>2
<1> QED
  BY <1>2, <1>3, <1>4, <1>5 DEF NumbersDiffer

(* A name is asked for.                                                    *)
LEMMA AskOK ==
  ASSUME NetIInv, NEW r \in Resolvers, NEW name \in HostNames, Ask(r, name)
  PROVE  NetIInv'
<1>1. PICK id \in QueryIds, says \in {name, NoName} :
        LET s == [asking |-> name, answer |-> NoName, failed |-> FALSE, xid |-> id, tries |-> 0]
        IN  /\ resolver' = [resolver EXCEPT ![r] = Query(s)]
            /\ air' = air \cup Replies(s, says)
            /\ reused' = (reused \/ id \in InUse)
            /\ UNCHANGED <<dhcp, stack>>
  BY DEF Ask
<1> DEFINE s == [asking |-> name, answer |-> NoName, failed |-> FALSE, xid |-> id, tries |-> 0]
<1>2. /\ id \in Nat
      /\ ~reused' => ~reused /\ id # 0 /\ (\A q \in Resolvers : resolver[q].xid # id) /\ \A f \in InFlight : f.id # id
  BY <1>1, NetAssumption DEF InUse, InFlight
<1>3. s \in Resolving /\ says \in Names /\ s.asking = name /\ s.answer = NoName /\ s.xid = id
  BY <1>2 DEF Resolving, Names
<1>4. resolver' = [resolver EXCEPT ![r] = Query(s)] /\ air' = air \cup Replies(s, says) /\ dhcp' = dhcp /\ stack' = stack
  BY <1>1
<1> HIDE DEF s
<1> DEFINE t == Query(s)
<1>5. /\ t \in Resolving /\ t.asking = name /\ t.answer = NoName /\ t.xid = id
      /\ \A f \in Replies(s, says) : f \in Frames /\ (f.kind # "arp" => f.kind = "dns" /\ f.id = id /\ f.says = says)
  BY <1>3, QueryFacts
<1> HIDE DEF t
<1>6. resolver \in [Resolvers -> Resolving] /\ resolver' = [resolver EXCEPT ![r] = t]
  BY <1>4 DEF t, NetIInv, NetTypes
<1>7. InFlight' = InFlight \cup Replies(s, says)
  BY <1>4 DEF InFlight
<1>8. \A f \in InFlight' : \/ f \in InFlight
                           \/ f.kind = "arp"
                           \/ f.kind = "dns" /\ f.id = t.xid
  BY <1>5, <1>7
<1>9. ~reused' => \A f \in InFlight' : f.kind = "dns" /\ f.id = t.xid /\ t.asking # NoName => f.says \in {NoName, t.asking}
  BY <1>2, <1>5, <1>7
<1>10. Numbered'
  <2> SUFFICES ASSUME ~reused' PROVE NumbersDiffer'
    BY DEF Numbered
  <2>1. NumbersDiffer /\ t.answer \in {NoName, t.asking} /\ t.xid # 0 /\ \A q \in Resolvers : q # r => resolver[q].xid # t.xid
    BY <1>2, <1>5 DEF NetIInv, Numbered
  <2> QED BY <1>5, <1>6, <1>8, <1>9, <2>1, OneResolver
<1>11. NetTypes'
  <2>1. resolver' \in [Resolvers -> Resolving]
    BY <1>5, <1>6
  <2>2. air' \subseteq Frames
    BY <1>4, <1>5 DEF NetIInv, NetTypes
  <2> QED BY <1>4, <2>1, <2>2 DEF NetIInv, NetTypes
<1>12. Confirmed'
  <2>1. \A f \in InFlight' : f \in InFlight \/ f.kind # "ack"
    BY <1>8
  <2> QED BY <1>4, <2>1, ConfirmedKeeps DEF NetIInv
<1> QED
  BY <1>10, <1>11, <1>12 DEF NetIInv

(* A resolver takes its answer, asks again or gives up.                    *)
LEMMA ResolverPollOK ==
  ASSUME NetIInv, NEW r \in Resolvers, NEW late \in BOOLEAN, ResolverPoll(r, late)
  PROVE  NetIInv'
<1> DEFINE s == resolver[r]
           ours == {f \in ToSet(stack.datagrams) : f.kind = "dns" /\ f.id = s.xid}
           good == {i \in DOMAIN stack.datagrams : stack.datagrams[i] \in ours /\ stack.datagrams[i].says # NoName}
           first == stack.datagrams[Min(good)]
           rest == Without(stack.datagrams, ours)
<1>1. /\ stack = [ip |-> stack.ip, arp |-> stack.arp, datagrams |-> stack.datagrams]
      /\ stack.ip \in Whos /\ stack.arp \in Seq(Entries) /\ stack.datagrams \in Seq(Frames)
      /\ InFlight \subseteq Frames
  BY StackFacts DEF NetIInv
<1>2. rest \in Seq(Frames) /\ ToSet(rest) \subseteq ToSet(stack.datagrams)
  BY <1>1, WithoutIs
<1>3. s \in Resolving /\ resolver \in [Resolvers -> Resolving] /\ NetTypes /\ air \subseteq Frames
  BY DEF NetIInv, NetTypes
<1>4. s.asking # NoName /\ s.answer = NoName /\ dhcp' = dhcp /\ reused' = reused /\ stack' = [stack EXCEPT !.datagrams = rest]
  BY DEF ResolverPoll, Ours
<1>5. stack' = [ip |-> stack.ip, arp |-> stack.arp, datagrams |-> rest]
  BY <1>1, <1>4
<1>6. ~reused => s.xid # 0 /\ \A q \in Resolvers : q # r => resolver[q].xid # s.xid
  <2> SUFFICES ASSUME ~reused PROVE s.xid # 0 /\ \A q \in Resolvers : q # r => resolver[q].xid # s.xid
    OBVIOUS
  <2>1. s.xid # 0
    BY <1>4 DEF NetIInv, Numbered, NumbersDiffer
  <2> QED BY <2>1 DEF NetIInv, Numbered, NumbersDiffer
<1>7. ~reused => \A f \in InFlight : f.kind = "dns" /\ f.id = s.xid => f.says \in {NoName, s.asking}
  BY <1>4 DEF NetIInv, Numbered, NumbersDiffer
<1>8. good # {} => first \in InFlight /\ (~reused => first.says = s.asking)
  <2> SUFFICES ASSUME good # {} PROVE first \in InFlight /\ (~reused => first.says = s.asking)
    OBVIOUS
  <2>1. DOMAIN stack.datagrams = 1 .. Len(stack.datagrams) /\ Len(stack.datagrams) \in Nat
        /\ \A i \in DOMAIN stack.datagrams : stack.datagrams[i] \in InFlight
    BY <1>3, StackFacts
  <2>2. good \in SUBSET (1 .. Len(stack.datagrams))
    BY <2>1
  <2>3. Min(good) \in good
    <3> HIDE DEF good
    <3> QED BY <2>1, <2>2, MinIn
  <2>4. first \in InFlight /\ first.kind = "dns" /\ first.id = s.xid /\ first.says # NoName
    BY <2>1, <2>3
  <2> QED BY <1>7, <2>4
<1>9. \/ good # {} /\ resolver' = [resolver EXCEPT ![r].answer = first.says] /\ air' = air
      \/ UNCHANGED <<resolver, air>>
      \/ resolver' = [resolver EXCEPT ![r].failed = TRUE, ![r].asking = NoName] /\ air' = air
      \/ /\ resolver' = [resolver EXCEPT ![r] = Query(s)]
         /\ \E says \in {s.asking, NoName} : air' = air \cup Replies(s, says)
  BY DEF ResolverPoll, Ours
<1> HIDE DEF ours, good, first, rest, s
<1>10. ASSUME NEW t \in Resolving, resolver' = [resolver EXCEPT ![r] = t],
              ~reused => t.answer \in {NoName, t.asking}, t.xid = s.xid, t.asking \in {NoName, s.asking},
              \A f \in air' : \/ f \in air
                              \/ /\ f \in Frames
                                 /\ f.kind # "arp" => f.kind = "dns" /\ f.id = s.xid /\ f.says \in {NoName, s.asking}
       PROVE  NetIInv'
  <2>1. \A f \in InFlight' : \/ f \in InFlight
                             \/ f.kind = "arp"
                             \/ f.kind = "dns" /\ f.id = t.xid /\ f.says \in {NoName, s.asking}
    BY <1>2, <1>5, <1>10 DEF InFlight
  <2>2. ~reused => \A f \in InFlight' : f.kind = "dns" /\ f.id = t.xid /\ t.asking # NoName => f.says \in {NoName, t.asking}
    BY <1>7, <1>10, <2>1
  <2>3. Numbered'
    <3> SUFFICES ASSUME ~reused PROVE NumbersDiffer'
      BY <1>4 DEF Numbered
    <3>1. NumbersDiffer /\ t.xid # 0 /\ \A q \in Resolvers : q # r => resolver[q].xid # t.xid
      BY <1>6, <1>10 DEF NetIInv, Numbered
    <3> QED BY <1>3, <1>10, <2>1, <2>2, <3>1, OneResolver
  <2>4. NetTypes'
    <3>1. resolver' \in [Resolvers -> Resolving]
      BY <1>3, <1>10
    <3>2. air' \subseteq Frames
      BY <1>3, <1>10
    <3>3. stack' \in [ip : Whos, arp : Seq(Entries), datagrams : Seq(Frames)]
      BY <1>1, <1>2, <1>5
    <3> QED BY <1>3, <1>4, <3>1, <3>2, <3>3 DEF NetTypes
  <2>5. Confirmed'
    <3>1. \A f \in InFlight' : f \in InFlight \/ f.kind # "ack"
      BY <2>1
    <3>2. stack'.ip = stack.ip
      BY <1>5
    <3> QED BY <1>4, <3>1, <3>2, ConfirmedKeeps DEF NetIInv
  <2> QED BY <2>3, <2>4, <2>5 DEF NetIInv
<1>11. s = [asking |-> s.asking, answer |-> s.answer, failed |-> s.failed, xid |-> s.xid, tries |-> s.tries]
       /\ s.asking \in Names /\ s.failed \in BOOLEAN /\ s.xid \in Nat /\ s.tries \in Nat
  BY <1>3 DEF Resolving
<1>12. CASE good # {} /\ resolver' = [resolver EXCEPT ![r].answer = first.says] /\ air' = air
  <2> DEFINE t == [s EXCEPT !.answer = first.says]
  <2>0. first.says \in Names
    BY <1>1, <1>8, <1>12 DEF Frames
  <2>1. t \in Resolving /\ t.answer = first.says /\ t.asking = s.asking /\ t.xid = s.xid
    BY <1>11, <1>3, <2>0 DEF Resolving
  <2>2. resolver' = [resolver EXCEPT ![r] = t]
    BY <1>12 DEF s
  <2> HIDE DEF t
  <2> QED BY <1>8, <1>10, <1>12, <2>1, <2>2
<1>13. CASE UNCHANGED <<resolver, air>>
  <2>1. resolver' = [resolver EXCEPT ![r] = s]
    BY <1>3, <1>13 DEF s
  <2> QED BY <1>3, <1>4, <1>10, <1>13, <2>1
<1>14. CASE resolver' = [resolver EXCEPT ![r].failed = TRUE, ![r].asking = NoName] /\ air' = air
  <2> DEFINE t == [s EXCEPT !.failed = TRUE, !.asking = NoName]
  <2>1. t \in Resolving /\ t.answer = NoName /\ t.asking = NoName /\ t.xid = s.xid
    BY <1>4, <1>11, <1>3 DEF Resolving, Names
  <2>2. resolver' = [resolver EXCEPT ![r] = t]
    BY <1>14 DEF s
  <2> HIDE DEF t
  <2> QED BY <1>10, <1>14, <2>1, <2>2
<1>15. CASE /\ resolver' = [resolver EXCEPT ![r] = Query(s)]
            /\ \E says \in {s.asking, NoName} : air' = air \cup Replies(s, says)
  <2>1. PICK says \in {s.asking, NoName} : air' = air \cup Replies(s, says)
    BY <1>15
  <2>2. says \in Names
    BY <1>11 DEF Names
  <2> DEFINE t == Query(s)
  <2>3. /\ t \in Resolving /\ t.asking = s.asking /\ t.answer = s.answer /\ t.xid = s.xid
        /\ \A f \in Replies(s, says) : f \in Frames /\ (f.kind # "arp" => f.kind = "dns" /\ f.id = s.xid /\ f.says = says)
    BY <1>3, <2>2, QueryFacts
  <2>4. resolver' = [resolver EXCEPT ![r] = t]
    BY <1>15
  <2> HIDE DEF t
  <2> QED BY <1>4, <1>10, <2>1, <2>3, <2>4
<1> QED
  BY <1>9, <1>12, <1>13, <1>14, <1>15

\* The invariant of the network's clients.
THEOREM NetInvariant == NetSpec => []NetIInv
<1>1. NetIInv /\ [NetNext]_netVars => NetIInv'
  <2> SUFFICES ASSUME NetIInv, [NetNext]_netVars PROVE NetIInv'
    OBVIOUS
  <2>1. CASE UNCHANGED netVars
    BY <2>1 DEF netVars, NetIInv, NetTypes, Confirmed, Numbered, NumbersDiffer, InFlight
  <2> QED BY <2>1, ReceiveOK, LoseOK, ExpireOK, DhcpPollOK, AskOK, ResolverPollOK DEF NetNext
<1> QED
  BY <1>1, NetStarts, PTL DEF NetSpec

\* However many servers offer an address, and whatever is lost, comes late,
\* twice or in another order: the address in use is that of the server whose
\* offer was taken (Dhcp::poll and on_answer of dhcp.rs).
THEOREM AddressStaysOurs == NetSpec => []AddressIsOurs
<1>1. NetIInv => AddressIsOurs
  BY DEF NetIInv, Confirmed, AddressIsOurs
<1> QED
  BY <1>1, NetInvariant, PTL

\* However many resolvers ask, and however often: an answer a resolver holds
\* is for the name it asked last, until a number in use is drawn (Resolver::ask
\* and poll of dhcp.rs).
THEOREM AnswersAreOnesOwn == NetSpec => []EachItsOwnAnswer
<1>1. NetIInv => EachItsOwnAnswer
  BY DEF NetIInv, Numbered, NumbersDiffer, EachItsOwnAnswer
<1> QED
  BY <1>1, NetInvariant, PTL

(***************************************************************************)
(* The frames of memory                                                    *)
(***************************************************************************)

(* Whole frames.                                                           *)
LEMMA Rounding ==
  ASSUME NEW n \in Nat
  PROVE  /\ FramesTo(n) \in Nat /\ n <= FramesTo(n) * FrameSize
         /\ n \div FrameSize \in Nat /\ (n \div FrameSize) * FrameSize <= n
<1>1. FrameSize \in Nat \ {0} /\ n + FrameSize - 1 \in Nat
  BY MemoryAssumption
<1>2. ASSUME NEW x \in Nat, NEW f \in Nat \ {0}
      PROVE  x \div f \in Nat /\ (x \div f) * f <= x /\ x < (x \div f) * f + f
  OBVIOUS
<1>3. FramesTo(n) \in Nat /\ n + FrameSize - 1 < FramesTo(n) * FrameSize + FrameSize
  BY <1>1, <1>2 DEF FramesTo
<1>4. FramesTo(n) * FrameSize \in Nat
  BY <1>1, <1>3
<1>5. n <= FramesTo(n) * FrameSize
  BY <1>1, <1>3, <1>4
<1>6. n \div FrameSize \in Nat /\ (n \div FrameSize) * FrameSize <= n
  BY <1>1, <1>2
<1> QED
  BY <1>3, <1>5, <1>6

(* Two frames that differ do not overlap.                                  *)
LEMMA Apart ==
  ASSUME NEW a \in Int, NEW b \in Int
  PROVE  /\ a * FrameSize \in Int
         /\ a < b => a * FrameSize + FrameSize <= b * FrameSize
         /\ a <= b => a * FrameSize <= b * FrameSize
         /\ a * FrameSize < b * FrameSize => a < b
<1>1. FrameSize \in Nat \ {0}
  BY MemoryAssumption
<1>2. ASSUME NEW f \in Nat \ {0}, NEW c \in Int, NEW d \in Int, c <= d PROVE c * f <= d * f
  BY <1>2
<1>3. ASSUME NEW f \in Nat \ {0}, NEW c \in Int PROVE (c + 1) * f = c * f + f /\ c * f \in Int
  OBVIOUS
<1>4. a < b => a * FrameSize + FrameSize <= b * FrameSize
  <2>1. SUFFICES ASSUME a < b PROVE a * FrameSize + FrameSize <= b * FrameSize
    OBVIOUS
  <2>2. a + 1 \in Int /\ a + 1 <= b
    BY <2>1
  <2>3. (a + 1) * FrameSize <= b * FrameSize
    BY <1>1, <1>2, <2>2
  <2> QED BY <1>1, <1>3, <2>3
<1>5. a <= b => a * FrameSize <= b * FrameSize
  BY <1>1, <1>2
<1>6. a * FrameSize < b * FrameSize => a < b
  <2>1. b <= a => b * FrameSize <= a * FrameSize
    BY <1>1, <1>2
  <2>2. a * FrameSize \in Int /\ b * FrameSize \in Int
    BY <1>1, <1>3
  <2> QED BY <2>1, <2>2
<1> QED
  BY <1>1, <1>3, <1>4, <1>5, <1>6

Region == [base : Nat, length : Nat, usable : BOOLEAN]
Aligned(n) == \E a \in Nat : n = a * FrameSize
InRegion(r, n) == n \in Nat /\ Aligned(n) /\ r.base <= n /\ n + FrameSize <= r.base + r.length

(* The frames of a region are whole frames in it, each above the last.     *)
LEMMA FramesAre ==
  ASSUME NEW r \in Region
  PROVE  \E c \in Nat : /\ DOMAIN FramesOf(r) = 1 .. c
                        /\ \A k \in 1 .. c : InRegion(r, FramesOf(r)[k])
                        /\ \A j, k \in 1 .. c : j < k => FramesOf(r)[j] < FramesOf(r)[k]
<1> DEFINE a == FramesTo(r.base)
           b == (r.base + r.length) \div FrameSize
           c == IF b >= a THEN b - a ELSE 0
<1>1. r.base \in Nat /\ r.length \in Nat /\ r.base + r.length \in Nat
  BY DEF Region
<1>2. a \in Nat /\ r.base <= a * FrameSize
  BY <1>1, Rounding
<1>3. b \in Nat /\ b * FrameSize <= r.base + r.length
  BY <1>1, Rounding
<1>4. FramesOf(r) = [k \in 1 .. b - a |-> (a + k - 1) * FrameSize]
  BY DEF FramesOf, FrameRow
<1>5. c \in Nat /\ 1 .. b - a = 1 .. c
  <2> HIDE DEF a, b
  <2> QED BY <1>2, <1>3
<1>6. DOMAIN FramesOf(r) = 1 .. c /\ \A k \in 1 .. c : FramesOf(r)[k] = (a + k - 1) * FrameSize
  <2> HIDE DEF a, b, c
  <2> QED BY <1>4, <1>5
<1>7. ASSUME NEW k \in 1 .. c PROVE InRegion(r, FramesOf(r)[k])
  <2>1. a + k - 1 \in Nat /\ a <= a + k - 1 /\ a + k - 1 < b
    <3> HIDE DEF a, b
    <3> QED BY <1>2, <1>3
  <2> DEFINE m == a + k - 1
  <2>2. m * FrameSize \in Int /\ a * FrameSize \in Int /\ b * FrameSize \in Int
        /\ a * FrameSize <= m * FrameSize /\ m * FrameSize + FrameSize <= b * FrameSize
    <3> HIDE DEF a, b
    <3> QED BY <1>2, <1>3, <2>1, Apart
  <2>3. FramesOf(r)[k] = m * FrameSize /\ m \in Nat
    BY <1>6, <2>1
  <2>4. FrameSize \in Nat
    BY MemoryAssumption
  <2> HIDE DEF a, b, m
  <2>5. m * FrameSize >= r.base /\ m * FrameSize \in Nat /\ m * FrameSize + FrameSize <= r.base + r.length
    BY <1>1, <1>2, <1>3, <2>2, <2>4
  <2> QED BY <2>3, <2>5 DEF InRegion, Aligned
<1>8. ASSUME NEW j \in 1 .. c, NEW k \in 1 .. c, j < k PROVE FramesOf(r)[j] < FramesOf(r)[k]
  <2>1. a + j - 1 \in Int /\ a + k - 1 \in Int /\ a + j - 1 < a + k - 1
    <3> HIDE DEF a, b, c
    <3> QED BY <1>2, <1>5, <1>8
  <2>2. (a + j - 1) * FrameSize + FrameSize <= (a + k - 1) * FrameSize
        /\ (a + j - 1) * FrameSize \in Int /\ (a + k - 1) * FrameSize \in Int
    <3> HIDE DEF a, b, c
    <3> QED BY <2>1, Apart
  <2>3. FrameSize \in Nat \ {0}
    BY MemoryAssumption
  <2>4. FramesOf(r)[j] = (a + j - 1) * FrameSize /\ FramesOf(r)[k] = (a + k - 1) * FrameSize
    BY <1>6
  <2> HIDE DEF a, b, c
  <2> QED BY <2>2, <2>3, <2>4
<1> HIDE DEF a, b, c
<1> QED
  BY <1>5, <1>6, <1>7, <1>8

(* A stack of frames, with one more, and without its top.                  *)
LEMMA StackPushed ==
  ASSUME NEW s \in Seq(Nat), IsInjective(s), NEW n \in Nat, n \notin ToSet(s)
  PROVE  Append(s, n) \in Seq(Nat) /\ IsInjective(Append(s, n)) /\ ToSet(Append(s, n)) = ToSet(s) \cup {n}
<1>1. /\ Append(s, n) \in Seq(Nat) /\ DOMAIN Append(s, n) = 1 .. Len(s) + 1 /\ Append(s, n)[Len(s) + 1] = n
      /\ \A i \in 1 .. Len(s) : Append(s, n)[i] = s[i]
      /\ DOMAIN s = 1 .. Len(s) /\ Len(s) \in Nat
  OBVIOUS
<1>2. \A i \in 1 .. Len(s) : s[i] # n
  BY <1>1 DEF ToSet
<1>3. \A i \in 1 .. Len(s) + 1 : i \in 1 .. Len(s) \/ i = Len(s) + 1
  BY <1>1
<1>4. IsInjective(Append(s, n))
  BY <1>1, <1>2, <1>3 DEF IsInjective
<1>5. ToSet(Append(s, n)) = ToSet(s) \cup {n}
  <2>1. ToSet(Append(s, n)) \subseteq ToSet(s) \cup {n}
    BY <1>1, <1>3 DEF ToSet
  <2>2. Len(s) + 1 \in DOMAIN Append(s, n) /\ \A i \in DOMAIN s : i \in DOMAIN Append(s, n)
    BY <1>1
  <2>3. n \in ToSet(Append(s, n)) /\ ToSet(s) \subseteq ToSet(Append(s, n))
    BY <1>1, <2>2 DEF ToSet
  <2> QED BY <2>1, <2>3
<1> QED
  BY <1>1, <1>4, <1>5

(* A stack of frames without its top.                                      *)
LEMMA StackPopped ==
  ASSUME NEW s \in Seq(Nat), IsInjective(s), s # <<>>
  PROVE  /\ Front(s) \in Seq(Nat) /\ IsInjective(Front(s)) /\ Last(s) \in ToSet(s) /\ Last(s) \in Nat
         /\ ToSet(Front(s)) = ToSet(s) \ {Last(s)}
<1>1. Len(s) \in Nat \ {0} /\ DOMAIN s = 1 .. Len(s)
  OBVIOUS
<1>2. /\ Front(s) \in Seq(Nat) /\ DOMAIN Front(s) = 1 .. Len(s) - 1
      /\ \A i \in 1 .. Len(s) - 1 : Front(s)[i] = s[i]
  BY <1>1 DEF Front
<1>3. Len(s) \in DOMAIN s /\ Last(s) = s[Len(s)]
  BY <1>1 DEF Last
<1>4. \A i \in 1 .. Len(s) - 1 : i \in DOMAIN s /\ i # Len(s)
  <2> DEFINE l == Len(s)
  <2>1. l \in Nat \ {0} /\ DOMAIN s = 1 .. l
    BY <1>1
  <2> HIDE DEF l
  <2>2. \A i \in 1 .. l - 1 : i \in 1 .. l /\ i # l
    BY <2>1
  <2>3. \A i \in 1 .. l - 1 : i \in DOMAIN s /\ i # l
    BY <2>1, <2>2
  <2> QED BY <2>3 DEF l
<1>5. IsInjective(Front(s))
  BY <1>2, <1>4 DEF IsInjective
<1>6. ToSet(Front(s)) = ToSet(s) \ {Last(s)}
  <2>1. \A i \in 1 .. Len(s) - 1 : s[i] # Last(s)
    BY <1>3, <1>4 DEF IsInjective
  <2>2. \A i \in DOMAIN s : i \in 1 .. Len(s) - 1 \/ i = Len(s)
    BY <1>1
  <2> QED BY <1>2, <1>3, <1>4, <2>1, <2>2 DEF ToSet
<1>7. Last(s) \in ToSet(s) /\ Last(s) \in Nat
  <2>1. s[Len(s)] \in Nat
    BY <1>1
  <2> QED BY <1>3, <2>1 DEF ToSet
<1> QED
  BY <1>2, <1>5, <1>6, <1>7

Pushing(given, n, l) == IF Givable(l, n) THEN Append(given, n) ELSE given
Pushes == INSTANCE FoldLemmas WITH Op <- Pushing

Adding(given, r, l) == IF r.usable THEN Pushes!Run(given, FramesOf(r), l) ELSE given
Adds == INSTANCE FoldLemmas WITH Op <- Adding

(* The two loops of Frames::new are folds of the same two steps.           *)
LEMMA StackedIs ==
  ASSUME NEW l
  PROVE  Stacked(l) = Adds!Run(<<>>, l, l)
<1> DEFINE One(given, n) == IF Givable(l, n) THEN Append(given, n) ELSE given
<1>1. ASSUME NEW given, NEW q PROVE FoldLeft(One, given, q) = Pushes!Run(given, q, l)
  BY Zenon DEF FoldLeft, MapThenFoldSet, Max, Pushes!Run, Pushes!Walk, Pushes!Top, Pushing
<1> DEFINE Row(given, r) == IF r.usable THEN FoldLeft(One, given, FramesOf(r)) ELSE given
<1>2. ASSUME NEW given, NEW r PROVE Row(given, r) = Adding(given, r, l)
  BY <1>1, Zenon DEF Adding
<1>3. FoldLeft(Row, <<>>, l) = Adds!Run(<<>>, l, l)
  <2> HIDE DEF Row
  <2> QED BY <1>2, Zenon DEF FoldLeft, MapThenFoldSet, Max, Adds!Run, Adds!Walk, Adds!Top
<1> QED
  BY <1>3, Zenon DEF Stacked

(* The regions of a map.                                                   *)
LEMMA LayoutIs ==
  ASSUME NEW l \in Layouts
  PROVE  /\ l \in Seq(Region) /\ Len(l) \in Nat /\ DOMAIN l = 1 .. Len(l)
         /\ \A i \in DOMAIN l : l[i] \in Region
         /\ \A i, j \in DOMAIN l : l[i].usable /\ l[j].usable /\ i # j =>
               l[i].base + l[i].length <= l[j].base \/ l[j].base + l[j].length <= l[i].base
<1>1. l \in Seq(Region)
  BY MemoryAssumption DEF Region
<1>2. Len(l) \in Nat /\ DOMAIN l = 1 .. Len(l) /\ \A i \in DOMAIN l : l[i] \in Region
  BY <1>1
<1> QED
  BY <1>1, <1>2, MemoryAssumption

(* The largest region is one of them, so that the heap starts on a frame.  *)
LEMMA HeapIs ==
  ASSUME NEW l \in Layouts, Usable(l) # {}
  PROVE  /\ Largest(l) \in Usable(l)
         /\ \E a \in Nat : HeapStart(l) = a * FrameSize
         /\ HeapStart(l) \in Nat /\ Taken \in Nat
<1>1. Len(l) \in Nat /\ DOMAIN l = 1 .. Len(l) /\ \A i \in DOMAIN l : l[i] \in Region
  BY LayoutIs
<1>2. Usable(l) \in SUBSET (1 .. Len(l))
  BY <1>1 DEF Usable
<1> DEFINE f == [i \in 1 .. Len(l) |-> l[i].length]
           s == {i \in Usable(l) : \A j \in Usable(l) : f[j] <= f[i]}
           t == Pushes!Top(s)
<1>3. f \in [1 .. Len(l) -> Int] /\ \A i \in Usable(l) : f[i] = l[i].length
  BY <1>1, <1>2 DEF Region
<1>4. s # {}
  <2>1. \E x \in Usable(l) : \A y \in Usable(l) : f[y] <= f[x]
    <3> HIDE DEF f
    <3> QED BY <1>1, <1>2, <1>3, Pushes!GreatestExists
  <2> QED BY <2>1
<1>5. t \in s /\ \A y \in s : t >= y
  <2>1. s \in SUBSET (1 .. Len(l))
    BY <1>2
  <2> HIDE DEF s
  <2> QED BY <1>1, <1>4, <2>1, Pushes!TopIs
<1>6. ASSUME NEW j \in Usable(l)
      PROVE  l[j].length < l[t].length \/ (l[j].length = l[t].length /\ j <= t)
  <2>1. t \in Usable(l) /\ f[j] <= f[t] /\ f[j] \in Int /\ f[t] \in Int
    BY <1>2, <1>3, <1>5
  <2>2. f[j] = f[t] => j \in s
    BY <1>5
  <2> HIDE DEF f, s, t
  <2>3. l[j].length = f[j] /\ l[t].length = f[t]
    BY <1>3, <2>1
  <2>4. f[j] = f[t] => j <= t
    <3>1. j \in Int /\ t \in Int
      BY <1>2, <2>1
    <3> QED BY <1>5, <2>2, <3>1
  <2> QED BY <2>1, <2>3, <2>4
<1>7. t \in Usable(l)
  BY <1>5
<1>8. Largest(l) \in Usable(l)
  <2> HIDE DEF t
  <2> QED BY <1>6, <1>7, Zenon DEF Largest
<1>9. l[Largest(l)].base \in Nat
  BY <1>1, <1>2, <1>8 DEF Region
<1>10. FramesTo(l[Largest(l)].base) \in Nat /\ FramesTo(HeapSize) \in Nat
  BY <1>9, Rounding, MemoryAssumption
<1>11. FrameSize \in Nat
  BY MemoryAssumption
<1>12. \A a, b \in Nat : a * b \in Nat
  OBVIOUS
<1> QED
  BY <1>8, <1>10, <1>11, <1>12 DEF HeapStart, Taken, CeilFrame

Apartness(l, n) == n + FrameSize <= HeapStart(l) \/ HeapStart(l) + Taken <= n
Whole(l, n) == n # 0 /\ Apartness(l, n) /\ \E i \in Usable(l) : InRegion(l[i], n)

(* A whole frame that is kept does not overlap the heap.                   *)
LEMMA KeptIsWhole ==
  ASSUME NEW l \in Layouts, Usable(l) # {}, NEW i \in Usable(l), NEW n, InRegion(l[i], n), Givable(l, n)
  PROVE  Whole(l, n)
<1>1. PICK a \in Nat : HeapStart(l) = a * FrameSize
  BY HeapIs
<1>2. PICK b \in Nat : n = b * FrameSize
  BY DEF InRegion, Aligned
<1>3. HeapStart(l) \in Nat /\ Taken \in Nat /\ n \in Nat
  BY HeapIs DEF InRegion
<1>4. n < HeapStart(l) => n + FrameSize <= HeapStart(l)
  BY <1>1, <1>2, Apart
<1>5. Apartness(l, n)
  BY <1>3, <1>4 DEF Givable, Apartness
<1> QED
  BY <1>5 DEF Whole, Givable

(* What one region adds to a stack of frames of other regions.             *)
LEMMA RegionPushed ==
  ASSUME NEW l \in Layouts, NEW r \in Region, NEW s \in Seq(Nat), IsInjective(s),
         \A n \in ToSet(s) : n + FrameSize <= r.base \/ r.base + r.length <= n
  PROVE  LET t == Pushes!Run(s, FramesOf(r), l)
         IN  /\ t \in Seq(Nat) /\ IsInjective(t)
             /\ \A n \in ToSet(t) : n \in ToSet(s) \/ (InRegion(r, n) /\ Givable(l, n))
<1> DEFINE q == FramesOf(r)
<1>1. PICK c \in Nat : /\ DOMAIN q = 1 .. c
                       /\ \A k \in 1 .. c : InRegion(r, q[k])
                       /\ \A j, k \in 1 .. c : j < k => q[j] < q[k]
  BY FramesAre
<1> HIDE DEF q
<1> DEFINE From(t, j) == \A n \in ToSet(t) : n \in ToSet(s) \/ (InRegion(r, n) /\ Givable(l, n) /\ \E m \in 1 .. j : n = q[m])
           P == {x \in (0 .. c) \X Seq(Nat) : IsInjective(x[2]) /\ From(x[2], x[1])}
<1>2. <<0, s>> \in P
  <2>1. From(s, 0)
    OBVIOUS
  <2>2. 0 \in 0 .. c
    BY <1>1
  <2> HIDE DEF From
  <2> QED BY <2>1, <2>2
<1>3. ASSUME NEW k \in 1 .. c, NEW d, <<k - 1, d>> \in P PROVE <<k, Pushing(d, q[k], l)>> \in P
  <2>1. d \in Seq(Nat) /\ IsInjective(d) /\ From(d, k - 1)
    <3> HIDE DEF From
    <3> QED BY <1>3
  <2>2. k \in 0 .. c
    BY <1>1
  <2>3. CASE ~Givable(l, q[k])
    <3>1. From(d, k)
      <4>1. \A m \in 1 .. k - 1 : m \in 1 .. k
        BY <1>1
      <4> QED BY <2>1, <4>1
    <3>2. Pushing(d, q[k], l) = d
      BY <2>3 DEF Pushing
    <3> HIDE DEF From
    <3> QED BY <2>1, <2>2, <3>1, <3>2
  <2>4. CASE Givable(l, q[k])
    <3>1. InRegion(r, q[k]) /\ q[k] \in Nat
      BY <1>1 DEF InRegion
    <3>2. q[k] \notin ToSet(s)
      <4>1. FrameSize \in Nat \ {0} /\ r.base \in Nat /\ r.length \in Nat
        BY MemoryAssumption DEF Region
      <4>2. r.base <= q[k] /\ q[k] + FrameSize <= r.base + r.length
        BY <3>1 DEF InRegion
      <4> QED BY <3>1, <4>1, <4>2
    <3>3. \A m \in 1 .. k - 1 : q[m] # q[k]
      <4> SUFFICES ASSUME NEW m \in 1 .. k - 1 PROVE q[m] # q[k]
        OBVIOUS
      <4>1. m \in 1 .. c /\ m < k
        BY <1>1
      <4>2. q[m] < q[k] /\ q[m] \in Nat
        BY <1>1, <4>1 DEF InRegion
      <4> QED BY <3>1, <4>2
    <3>4. q[k] \notin ToSet(d)
      BY <2>1, <3>2, <3>3
    <3>5. Append(d, q[k]) \in Seq(Nat) /\ IsInjective(Append(d, q[k])) /\ ToSet(Append(d, q[k])) = ToSet(d) \cup {q[k]}
      BY <2>1, <3>1, <3>4, StackPushed
    <3>6. From(Append(d, q[k]), k)
      <4> SUFFICES ASSUME NEW n \in ToSet(d) \cup {q[k]}
                   PROVE  n \in ToSet(s) \/ (InRegion(r, n) /\ Givable(l, n) /\ \E m \in 1 .. k : n = q[m])
        BY <3>5
      <4>1. k \in 1 .. k /\ \A m \in 1 .. k - 1 : m \in 1 .. k
        BY <1>1
      <4>2. CASE n = q[k]
        BY <2>4, <3>1, <4>1, <4>2
      <4>3. CASE n \in ToSet(d)
        BY <2>1, <4>1, <4>3
      <4> QED BY <4>2, <4>3
    <3>7. Pushing(d, q[k], l) = Append(d, q[k])
      BY <2>4 DEF Pushing
    <3> HIDE DEF From
    <3> QED BY <2>2, <3>5, <3>6, <3>7
  <2> QED BY <2>3, <2>4
<1>4. <<c, Pushes!Run(s, q, l)>> \in P
  <2> HIDE DEF P
  <2> QED BY <1>1, <1>2, <1>3, Pushes!FoldKeeps
<1>5. Pushes!Run(s, q, l) \in Seq(Nat) /\ IsInjective(Pushes!Run(s, q, l)) /\ From(Pushes!Run(s, q, l), c)
  <2> HIDE DEF From
  <2> QED BY <1>4
<1> QED
  BY <1>5 DEF q

(* What the stack holds at first is whole frames, each once.               *)
LEMMA StackStarts ==
  ASSUME NEW l \in Layouts, Usable(l) # {}
  PROVE  Stacked(l) \in Seq(Nat) /\ IsInjective(Stacked(l)) /\ \A n \in ToSet(Stacked(l)) : Whole(l, n)
<1>1. /\ Len(l) \in Nat /\ DOMAIN l = 1 .. Len(l) /\ \A i \in DOMAIN l : l[i] \in Region
      /\ \A i, j \in DOMAIN l : l[i].usable /\ l[j].usable /\ i # j =>
            l[i].base + l[i].length <= l[j].base \/ l[j].base + l[j].length <= l[i].base
  BY LayoutIs
<1> DEFINE c == Len(l)
           In(n, k) == Givable(l, n) /\ \E i \in 1 .. k : l[i].usable /\ InRegion(l[i], n)
           P == {x \in (0 .. c) \X Seq(Nat) : IsInjective(x[2]) /\ \A n \in ToSet(x[2]) : In(n, x[1])}
<1>2. <<0, <<>>>> \in P
  <2>1. <<>> \in Seq(Nat) /\ IsInjective(<<>>) /\ ToSet(<<>>) = {}
    BY DEF IsInjective, ToSet
  <2>2. 0 \in 0 .. c
    BY <1>1
  <2> HIDE DEF In
  <2> QED BY <2>1, <2>2
<1>3. ASSUME NEW k \in 1 .. c, NEW d, <<k - 1, d>> \in P PROVE <<k, Adding(d, l[k], l)>> \in P
  <2>1. d \in Seq(Nat) /\ IsInjective(d) /\ \A n \in ToSet(d) : In(n, k - 1)
    <3> HIDE DEF In
    <3> QED BY <1>3
  <2>2. k \in 0 .. c /\ k \in DOMAIN l /\ k \in 1 .. k
    BY <1>1
  <2>3. ASSUME NEW n, In(n, k - 1) PROVE In(n, k)
    <3>1. \A m \in 1 .. k - 1 : m \in 1 .. k
      BY <1>1
    <3> QED BY <2>3, <3>1
  <2>4. CASE ~l[k].usable
    <3>1. Adding(d, l[k], l) = d
      BY <2>4 DEF Adding
    <3> HIDE DEF In
    <3> QED BY <2>1, <2>2, <2>3, <3>1
  <2>5. CASE l[k].usable
    <3> DEFINE t == Pushes!Run(d, FramesOf(l[k]), l)
    <3>1. ASSUME NEW n \in ToSet(d) PROVE n + FrameSize <= l[k].base \/ l[k].base + l[k].length <= n
      <4>1. PICK i \in 1 .. k - 1 : l[i].usable /\ InRegion(l[i], n)
        BY <2>1
      <4>2. i \in DOMAIN l /\ i # k
        BY <1>1
      <4>3. l[i].base + l[i].length <= l[k].base \/ l[k].base + l[k].length <= l[i].base
        BY <1>1, <2>2, <2>5, <4>1, <4>2
      <4>4. n \in Nat /\ l[i].base <= n /\ n + FrameSize <= l[i].base + l[i].length
        BY <4>1 DEF InRegion
      <4>5. l[i].base \in Nat /\ l[i].length \in Nat /\ l[k].base \in Nat /\ l[k].length \in Nat
        BY <1>1, <2>2, <4>2 DEF Region
      <4>6. FrameSize \in Nat
        BY MemoryAssumption
      <4> QED BY <4>3, <4>4, <4>5, <4>6
    <3>2. l[k] \in Region
      BY <1>1, <2>2
    <3>3. t \in Seq(Nat) /\ IsInjective(t) /\ \A n \in ToSet(t) : n \in ToSet(d) \/ (InRegion(l[k], n) /\ Givable(l, n))
      <4> HIDE DEF P, In
      <4> QED BY <2>1, <3>1, <3>2, RegionPushed
    <3> HIDE DEF t
    <3>4. \A n \in ToSet(t) : In(n, k)
      <4> SUFFICES ASSUME NEW n \in ToSet(t) PROVE In(n, k)
        OBVIOUS
      <4>1. CASE n \in ToSet(d)
        <5> HIDE DEF In
        <5> QED BY <2>1, <2>3, <4>1
      <4>2. CASE InRegion(l[k], n) /\ Givable(l, n)
        BY <2>2, <2>5, <4>2
      <4> QED BY <3>3, <4>1, <4>2
    <3>5. Adding(d, l[k], l) = t
      BY <2>5 DEF Adding, t
    <3> HIDE DEF In
    <3> QED BY <2>2, <3>3, <3>4, <3>5
  <2> QED BY <2>4, <2>5
<1>4. <<c, Adds!Run(<<>>, l, l)>> \in P
  <2> HIDE DEF P
  <2> QED BY <1>1, <1>2, <1>3, Adds!FoldKeeps
<1>5. /\ Stacked(l) \in Seq(Nat) /\ IsInjective(Stacked(l))
      /\ \A n \in ToSet(Stacked(l)) : In(n, c)
  <2> HIDE DEF In
  <2> QED BY <1>4, StackedIs
<1>6. ASSUME NEW n, In(n, c) PROVE Whole(l, n)
  <2>1. PICK i \in DOMAIN l : l[i].usable /\ InRegion(l[i], n)
    BY <1>1, <1>6
  <2>2. i \in Usable(l)
    BY <2>1 DEF Usable
  <2> QED BY <1>6, <2>1, <2>2, KeptIsWhole
<1> QED
  BY <1>5, <1>6

Made(T) == DOMAIN T \ {Root}
TablesOK(T) == Root \in DOMAIN T /\ T \in [DOMAIN T -> [Indices -> Nat \cup {HugePage}]]

\* Every frame is free, a table or handed out, whole, and no two at once.
MemoryIInv ==
  /\ layout \in Layouts /\ Usable(layout) # {}
  /\ free \in Seq(Nat) /\ IsInjective(free) /\ TablesOK(tables)
  /\ \A n \in ToSet(free) \cup Made(tables) \cup handed : n \in Nat /\ Whole(layout, n)
  /\ ToSet(free) \cap Made(tables) = {} /\ ToSet(free) \cap handed = {} /\ Made(tables) \cap handed = {}

\* What a table leads to, and tables that lead wherever others did.
Entry(T, t, i) == IF t \in DOMAIN T THEN T[t][i] ELSE NoFrame
Extends(T, U) == \A t : \A i \in Indices : Entry(T, t, i) # NoFrame => Entry(U, t, i) = Entry(T, t, i)

\* On the way down a page: its tables are the old ones and free frames.
Walked(w) ==
  /\ w = [at |-> w.at, tables |-> w.tables, free |-> w.free, error |-> w.error]
  /\ w.free \in Seq(Nat) /\ IsInjective(w.free) /\ TablesOK(w.tables)
  /\ ToSet(w.free) \cup Made(w.tables) \subseteq ToSet(free) \cup Made(tables)
  /\ ToSet(w.free) \cap Made(w.tables) = {}
  /\ Extends(tables, w.tables)

(* One level down takes at most a free frame, and makes it a table that    *)
(* leads nowhere.                                                          *)
LEMMA DownKeeps ==
  ASSUME NEW w, Walked(w), NEW i \in Indices
  PROVE  Walked(Down(w, i))
<1>1. CASE w.error # "none"
  BY <1>1 DEF Down
<1>0. CASE w.error = "none" /\ w.tables[w.at][i] = HugePage
  <2>1. Down(w, i) = [at |-> w.at, tables |-> w.tables, free |-> w.free, error |-> "a huge page"]
    BY <1>0 DEF Down, Walked
  <2> DEFINE v == Down(w, i)
  <2>2. v = [at |-> v.at, tables |-> v.tables, free |-> v.free, error |-> v.error] /\ v.tables = w.tables /\ v.free = w.free
    <3> DEFINE e == "a huge page"
    <3>1. v = [at |-> w.at, tables |-> w.tables, free |-> w.free, error |-> e]
      BY <2>1
    <3> HIDE DEF v, e
    <3> QED BY <3>1
  <2> HIDE DEF v
  <2>3. Walked(v)
    BY <2>2 DEF Walked
  <2> QED BY <2>3 DEF v
<1>2. CASE w.error = "none" /\ w.tables[w.at][i] # HugePage /\ ~Missing(w.tables[w.at][i])
  <2>1. Down(w, i) = [at |-> w.tables[w.at][i], tables |-> w.tables, free |-> w.free, error |-> w.error]
    BY <1>2 DEF Down, Walked
  <2> DEFINE v == Down(w, i)
  <2>2. v = [at |-> v.at, tables |-> v.tables, free |-> v.free, error |-> v.error] /\ v.tables = w.tables /\ v.free = w.free
    BY <2>1
  <2> HIDE DEF v
  <2>3. Walked(v)
    BY <2>2 DEF Walked
  <2> QED BY <2>3 DEF v
<1>3. CASE w.error = "none" /\ w.tables[w.at][i] # HugePage /\ Missing(w.tables[w.at][i]) /\ w.free = <<>>
  <2>1. Down(w, i) = [at |-> w.at, tables |-> w.tables, free |-> w.free, error |-> "no frame left"]
    BY <1>3 DEF Down, Walked
  <2> DEFINE v == Down(w, i)
  <2>2. v = [at |-> v.at, tables |-> v.tables, free |-> v.free, error |-> v.error] /\ v.tables = w.tables /\ v.free = w.free
    <3> DEFINE e == "no frame left"
    <3>1. v = [at |-> w.at, tables |-> w.tables, free |-> w.free, error |-> e]
      BY <2>1
    <3> HIDE DEF v, e
    <3> QED BY <3>1
  <2> HIDE DEF v
  <2>3. Walked(v)
    BY <2>2 DEF Walked
  <2> QED BY <2>3 DEF v
<1>4. CASE w.error = "none" /\ w.tables[w.at][i] # HugePage /\ Missing(w.tables[w.at][i]) /\ w.free # <<>>
  <2> DEFINE fresh == Last(w.free)
             U == [t \in DOMAIN w.tables \cup {fresh} |->
                      IF t = fresh THEN Empty
                      ELSE IF t = w.at THEN [w.tables[t] EXCEPT ![i] = fresh] ELSE w.tables[t]]
             v == Down(w, i)
  <2>1. v = [at |-> fresh, tables |-> U, free |-> Front(w.free), error |-> w.error]
    BY <1>4 DEF Down, Walked
  <2>2. v = [at |-> v.at, tables |-> v.tables, free |-> v.free, error |-> v.error] /\ v.tables = U /\ v.free = Front(w.free)
    <3> DEFINE d == w.free
               x == Front(d)
    <3>1. v = [at |-> fresh, tables |-> U, free |-> x, error |-> w.error]
      BY <2>1
    <3> HIDE DEF v, U, fresh, x
    <3>2. v.tables = U /\ v.free = x /\ v.at = fresh /\ v.error = w.error
      BY <3>1
    <3> QED BY <3>1, <3>2 DEF x
  <2>3. /\ Front(w.free) \in Seq(Nat) /\ IsInjective(Front(w.free)) /\ fresh \in ToSet(w.free) /\ fresh \in Nat
        /\ ToSet(Front(w.free)) = ToSet(w.free) \ {fresh}
    BY <1>4, StackPopped DEF Walked
  <2> HIDE DEF v, fresh
  <2>4. fresh \notin DOMAIN w.tables /\ fresh # Root
    BY <2>3 DEF Walked, Made, Root
  <2>5. Empty \in [Indices -> Nat \cup {HugePage}]
    BY DEF Empty, NoFrame
  <2>6. TablesOK(U)
    BY <2>3, <2>5 DEF Walked, TablesOK
  <2>7. Made(U) = Made(w.tables) \cup {fresh}
    BY <2>4 DEF Made
  <2>8. Extends(tables, U)
    <3> SUFFICES ASSUME NEW t, NEW j \in Indices, Entry(tables, t, j) # NoFrame
                 PROVE  Entry(U, t, j) = Entry(tables, t, j)
      BY DEF Extends
    <3>1. Entry(w.tables, t, j) = Entry(tables, t, j)
      BY DEF Walked, Extends
    <3>2. t \in DOMAIN w.tables /\ w.tables[t][j] = Entry(tables, t, j) /\ w.tables[t] \in [Indices -> Nat \cup {HugePage}]
      BY <3>1 DEF Entry, Walked, TablesOK
    <3>3. ~(t = w.at /\ j = i)
      BY <1>4, <3>2 DEF Missing
    <3>4. U[t][j] = w.tables[t][j]
      BY <2>4, <3>2, <3>3
    <3> QED BY <3>2, <3>4 DEF Entry
  <2> HIDE DEF U
  <2>9. Walked(v)
    BY <2>2, <2>3, <2>6, <2>7, <2>8 DEF Walked
  <2> QED BY <2>9 DEF v
<1> QED
  BY <1>0, <1>1, <1>2, <1>3, <1>4

Descending(w, i, p) == Down(w, i)
Downs == INSTANCE FoldLemmas WITH Op <- Descending

(* What put does to the tables and the stack, whether it ends well or not. *)
LEMMA PutFacts ==
  ASSUME MemoryIInv, NEW page \in Pages, NEW frame \in Nat, Put(page, frame)
  PROVE  /\ free' \in Seq(Nat) /\ IsInjective(free') /\ TablesOK(tables')
         /\ ToSet(free') \cup Made(tables') \subseteq ToSet(free) \cup Made(tables)
         /\ ToSet(free') \cap Made(tables') = {}
         /\ Extends(tables, tables')
<1> DEFINE from == [at |-> Root, tables |-> tables, free |-> free, error |-> "none"]
           q == SubSeq(page, 1, Levels - 1)
           down == FoldLeft(Down, from, q)
           n == Levels - 1
<1>1. n \in Nat /\ Levels \in 1 .. Levels /\ Levels \in Nat
  BY MemoryAssumption
<1>2. page \in Seq(Indices) /\ Len(page) = Levels
  BY <1>1 DEF Pages
<1>3. DOMAIN q = 1 .. n /\ \A k \in 1 .. n : q[k] \in Indices
  BY <1>1, <1>2
<1>4. down = Downs!Run(from, q, <<>>)
  BY Zenon DEF FoldLeft, MapThenFoldSet, Max, Downs!Run, Downs!Walk, Downs!Top, Descending
<1>5. Walked(from)
  BY DEF Walked, MemoryIInv, Extends
<1> HIDE DEF from, q, n
<1> DEFINE h == [k \in 0 .. n |-> Downs!After(from, q, <<>>, k)]
<1>6. h[0] = from /\ (\A k \in 1 .. n : h[k] = Descending(h[k - 1], q[k], <<>>)) /\ Downs!Run(from, q, <<>>) = h[n]
  <2>1. n \in Nat /\ DOMAIN q = 1 .. n
    BY <1>1, <1>3
  <2>2. ASSUME NEW k \in 1 .. n
        PROVE  Downs!After(from, q, <<>>, k) = Descending(Downs!After(from, q, <<>>, k - 1), q[k], <<>>)
    BY <2>1, Downs!RunGoes
  <2>3. Downs!After(from, q, <<>>, 0) = from /\ Downs!After(from, q, <<>>, n) = Downs!Run(from, q, <<>>)
    BY <2>1, Downs!RunEnds
  <2> QED BY <2>1, <2>2, <2>3
<1> HIDE DEF h
<1> DEFINE T == {k \in 0 .. n : Walked(h[k])}
<1>7. 0 \in T
  BY <1>1, <1>5, <1>6
<1>8. ASSUME NEW k \in 1 .. n, k - 1 \in T PROVE k \in T
  <2>1. Walked(h[k - 1]) /\ q[k] \in Indices /\ h[k] = Down(h[k - 1], q[k]) /\ k \in 0 .. n
    BY <1>1, <1>3, <1>6, <1>8 DEF Descending
  <2> QED BY <2>1, DownKeeps
<1>9. n \in T
  <2> HIDE DEF T
  <2> QED BY <1>1, <1>7, <1>8, Downs!UpTo
<1>10. Walked(down)
  BY <1>4, <1>6, <1>9
<1>11. /\ free' = down.free
       /\ tables' = IF down.error = "none" /\ down.tables[down.at][page[Levels]] = NoFrame
                    THEN [down.tables EXCEPT ![down.at][page[Levels]] = frame] ELSE down.tables
  BY DEF Put, from, q
<1> HIDE DEF down
<1>12. CASE tables' = down.tables
  BY <1>10, <1>11, <1>12 DEF Walked
<1>13. CASE /\ tables' = [down.tables EXCEPT ![down.at][page[Levels]] = frame]
            /\ down.tables[down.at][page[Levels]] = NoFrame
  <2> DEFINE leaf == page[Levels]
  <2>1. leaf \in Indices /\ TablesOK(down.tables)
    BY <1>1, <1>2, <1>10 DEF Walked, Pages
  <2> HIDE DEF leaf
  <2>2. DOMAIN tables' = DOMAIN down.tables /\ TablesOK(tables')
    BY <1>13, <2>1 DEF TablesOK, leaf
  <2>3. Extends(tables, tables')
    <3> SUFFICES ASSUME NEW t, NEW j \in Indices, Entry(tables, t, j) # NoFrame
                 PROVE  Entry(tables', t, j) = Entry(tables, t, j)
      BY DEF Extends
    <3>1. Entry(down.tables, t, j) = Entry(tables, t, j)
      BY <1>10 DEF Walked, Extends
    <3>2. t \in DOMAIN down.tables /\ down.tables[t][j] = Entry(tables, t, j) /\ down.tables[t] \in [Indices -> Nat \cup {HugePage}]
      BY <2>1, <3>1 DEF Entry, TablesOK
    <3>3. ~(t = down.at /\ j = leaf)
      BY <1>13, <3>2 DEF leaf
    <3>4. tables'[t][j] = down.tables[t][j]
      BY <1>13, <2>1, <3>2, <3>3 DEF leaf
    <3> QED BY <2>2, <3>2, <3>4 DEF Entry
  <2> QED BY <1>10, <1>11, <2>2, <2>3 DEF Walked, Made
<1> QED
  BY <1>11, <1>12, <1>13

(* Each step keeps every frame with one owner.                             *)
LEMMA MemoryStep ==
  ASSUME MemoryIInv, [MemoryNext]_memoryVars
  PROVE  MemoryIInv' /\ Extends(tables, tables')
<1>0. Extends(tables, tables)
  BY DEF Extends
<1>1. CASE Allocate
  <2>1. /\ free' \in Seq(Nat) /\ IsInjective(free') /\ Last(free) \in ToSet(free) /\ Last(free) \in Nat
        /\ ToSet(free') = ToSet(free) \ {Last(free)} /\ handed' = handed \cup {Last(free)}
        /\ UNCHANGED <<layout, tables>>
    BY <1>1, StackPopped DEF Allocate, MemoryIInv
  <2> QED BY <1>0, <2>1 DEF MemoryIInv
<1>2. ASSUME NEW n \in handed, Deallocate(n) PROVE MemoryIInv' /\ Extends(tables, tables')
  <2>1. n \in Nat /\ n \notin ToSet(free)
    BY DEF MemoryIInv
  <2>2. /\ free' \in Seq(Nat) /\ IsInjective(free') /\ ToSet(free') = ToSet(free) \cup {n} /\ handed' = handed \ {n}
        /\ UNCHANGED <<layout, tables>>
    BY <1>2, <2>1, StackPushed DEF Deallocate, MemoryIInv
  <2> QED BY <1>0, <2>1, <2>2 DEF MemoryIInv
<1>3. ASSUME NEW page \in Pages, NEW n \in Nat, Put(page, n) PROVE MemoryIInv' /\ Extends(tables, tables')
  <2>1. /\ free' \in Seq(Nat) /\ IsInjective(free') /\ TablesOK(tables')
        /\ ToSet(free') \cup Made(tables') \subseteq ToSet(free) \cup Made(tables)
        /\ ToSet(free') \cap Made(tables') = {}
        /\ Extends(tables, tables')
    BY <1>3, PutFacts
  <2>2. UNCHANGED <<layout, handed>>
    BY <1>3 DEF Put
  <2> QED BY <2>1, <2>2 DEF MemoryIInv
<1>4. CASE UNCHANGED memoryVars
  BY <1>0, <1>4 DEF MemoryIInv, memoryVars
<1>5. Devices \subseteq Nat /\ handed \subseteq Nat
  BY MemoryAssumption DEF MemoryIInv
<1> QED
  BY <1>1, <1>2, <1>3, <1>4, <1>5 DEF MemoryNext

(* The bytes of a whole frame are usable memory, and none of the heap's.   *)
LEMMA WholeIsOurs ==
  ASSUME NEW l \in Layouts, NEW n \in Nat, Whole(l, n)
  PROVE  n .. n + FrameSize - 1
           \subseteq (UNION {l[i].base .. l[i].base + l[i].length - 1 : i \in Usable(l)})
                     \ (HeapStart(l) .. HeapStart(l) + Taken - 1)
<1>1. PICK i \in Usable(l) : InRegion(l[i], n)
  BY DEF Whole
<1>2. Usable(l) # {} /\ i \in DOMAIN l
  BY DEF Usable
<1>3. HeapStart(l) \in Nat /\ Taken \in Nat /\ l[i].base \in Nat /\ l[i].length \in Nat /\ FrameSize \in Nat
  BY <1>2, HeapIs, LayoutIs, MemoryAssumption DEF Region
<1>4. ASSUME NEW b \in n .. n + FrameSize - 1 PROVE b \in l[i].base .. l[i].base + l[i].length - 1
  BY <1>1, <1>3 DEF InRegion
<1>5. ASSUME NEW b \in n .. n + FrameSize - 1 PROVE b \notin HeapStart(l) .. HeapStart(l) + Taken - 1
  BY <1>3 DEF Whole, Apartness
<1>6. ASSUME NEW b \in n .. n + FrameSize - 1
      PROVE  b \in UNION {l[j].base .. l[j].base + l[j].length - 1 : j \in Usable(l)}
  BY <1>4, Zenon
<1> QED
  BY <1>5, <1>6, Zenon

(* A frame is free, a page table or handed out, never two of these; it is  *)
(* whole, usable, and none of the heap's (memory.rs, paging.rs).           *)
THEOREM MemoryInvariant == MemorySpec => []MemoryIInv
<1>1. MemoryInit => MemoryIInv
  <2> SUFFICES ASSUME MemoryInit PROVE MemoryIInv
    OBVIOUS
  <2>1. layout \in Layouts /\ Usable(layout) # {} /\ free = Stacked(layout)
    BY DEF MemoryInit, Starts
  <2>2. free \in Seq(Nat) /\ IsInjective(free) /\ \A n \in ToSet(free) : Whole(layout, n)
    BY <2>1, StackStarts
  <2>3. ToSet(free) \subseteq Nat
    BY <2>2 DEF ToSet
  <2>4. TablesOK(tables) /\ Made(tables) = {} /\ handed = {}
    BY DEF MemoryInit, TablesOK, Made, AtFirst, NoFrame, HugePage
  <2> QED BY <2>1, <2>2, <2>3, <2>4 DEF MemoryIInv
<1>2. MemoryIInv /\ [MemoryNext]_memoryVars => MemoryIInv'
  BY MemoryStep
<1> QED
  BY <1>1, <1>2, PTL DEF MemorySpec

(* Every frame has one owner, for every memory map whose usable regions    *)
(* do not overlap, every size of the heap and every depth of the tables.   *)
THEOREM FramesHaveOneOwner == MemorySpec => []OneOwner
<1>1. MemoryIInv => OneOwner
  <2> SUFFICES ASSUME MemoryIInv PROVE OneOwner
    OBVIOUS
  <2>1. \A n \in ToSet(free) \cup Made(tables) \cup handed :
           n .. n + FrameSize - 1
             \subseteq (UNION {layout[i].base .. layout[i].base + layout[i].length - 1 : i \in Usable(layout)})
                       \ (HeapStart(layout) .. HeapStart(layout) + Taken - 1)
    BY WholeIsOurs DEF MemoryIInv
  <2>2. /\ IsInjective(free)
        /\ ToSet(free) \cap Made(tables) = {} /\ ToSet(free) \cap handed = {} /\ Made(tables) \cap handed = {}
    BY DEF MemoryIInv
  <2> QED BY <2>1, <2>2, Zenon DEF OneOwner, Made
<1> QED
  BY <1>1, MemoryInvariant, PTL

Leading(t, i, T) == Entry(T, t, i)
Leads == INSTANCE FoldLemmas WITH Op <- Leading

(* A page leads where it led, through tables that extend those it had.     *)
LEMMA TranslationKept ==
  ASSUME NEW T, NEW U, NoFrame \notin DOMAIN T, Extends(T, U), NEW page \in Pages,
         Leads!Run(Root, page, T) # NoFrame
  PROVE  Leads!Run(Root, page, U) = Leads!Run(Root, page, T)
<1>1. Levels \in Nat /\ DOMAIN page = 1 .. Levels /\ \A k \in 1 .. Levels : page[k] \in Indices
  BY MemoryAssumption DEF Pages
<1> DEFINE h == [k \in 0 .. Levels |-> Leads!After(Root, page, T, k)]
           g == [k \in 0 .. Levels |-> Leads!After(Root, page, U, k)]
<1>0. ASSUME NEW V, NEW k \in 1 .. Levels
      PROVE  Leads!After(Root, page, V, k) = Leading(Leads!After(Root, page, V, k - 1), page[k], V)
  BY <1>1, Leads!RunGoes
<1>2. h[0] = Root /\ (\A k \in 1 .. Levels : h[k] = Leading(h[k - 1], page[k], T)) /\ Leads!Run(Root, page, T) = h[Levels]
  <2>1. Leads!After(Root, page, T, 0) = Root /\ Leads!After(Root, page, T, Levels) = Leads!Run(Root, page, T)
    BY <1>1, Leads!RunEnds
  <2> QED BY <1>0, <1>1, <2>1
<1>3. g[0] = Root /\ (\A k \in 1 .. Levels : g[k] = Leading(g[k - 1], page[k], U)) /\ Leads!Run(Root, page, U) = g[Levels]
  <2>1. Leads!After(Root, page, U, 0) = Root /\ Leads!After(Root, page, U, Levels) = Leads!Run(Root, page, U)
    BY <1>1, Leads!RunEnds
  <2> QED BY <1>0, <1>1, <2>1
<1> HIDE DEF g, h
<1> DEFINE S == {k \in 0 .. Levels : h[k] # NoFrame => g[k] = h[k]}
<1>4. 0 \in S
  BY <1>1, <1>2, <1>3
<1>5. ASSUME NEW k \in 1 .. Levels, k - 1 \in S PROVE k \in S
  <2>1. k \in 0 .. Levels
    BY <1>1
  <2>2. ASSUME h[k] # NoFrame PROVE g[k] = h[k]
    <3>1. h[k] = Entry(T, h[k - 1], page[k]) /\ g[k] = Entry(U, g[k - 1], page[k])
      BY <1>2, <1>3 DEF Leading
    <3>2. h[k - 1] \in DOMAIN T
      BY <2>2, <3>1 DEF Entry
    <3>3. g[k - 1] = h[k - 1]
      BY <1>5, <3>2
    <3> QED BY <1>1, <2>2, <3>1, <3>3 DEF Extends
  <2> QED BY <2>1, <2>2
<1>6. Levels \in S
  <2> HIDE DEF S
  <2> QED BY <1>1, <1>4, <1>5, Leads!UpTo
<1> QED
  BY <1>2, <1>3, <1>6

(* A page that is mapped stays mapped to its frame: what is mapped later,  *)
(* or fails to be for want of a frame, moves none (paging.rs, put).        *)
THEOREM PagesStayMapped == MemorySpec => PagesStay
<1> DEFINE A == \A page \in Pages : Translation(page) # NoFrame => Translation(page)' = Translation(page)
<1>1. ASSUME NEW page PROVE Translation(page) = Leads!Run(Root, page, tables)
  BY Zenon DEF Translation, Step1, FoldLeft, MapThenFoldSet, Max, Leads!Run, Leads!Walk, Leads!Top, Leading, Entry
<1>2. ASSUME NEW page PROVE Translation(page)' = Leads!Run(Root, page, tables')
  BY Zenon DEF Translation, Step1, FoldLeft, MapThenFoldSet, Max, Leads!Run, Leads!Walk, Leads!Top, Leading, Entry
<1>3. MemoryIInv => NoFrame \notin DOMAIN tables
  BY DEF MemoryIInv, Made, Whole, NoFrame, Root
<1>4. MemoryIInv /\ [MemoryNext]_memoryVars => [A]_memoryVars
  BY <1>1, <1>2, <1>3, MemoryStep, TranslationKept
<1> QED
  BY <1>4, MemoryInvariant, PTL DEF MemorySpec, PagesStay
==============================================================================
