----------------------------- MODULE KernelInput -----------------------------
(***************************************************************************)
(* From the keyboard and the mouse to the main loop: the PS/2 controller   *)
(* (external), the interrupt handlers (kernel/src/idt.rs, ps2.rs), the     *)
(* ring of events (events.rs), the loop that empties it and rests when it  *)
(* is empty (main.rs), and the two decoders (mouse.rs, keyboard.rs).       *)
(*                                                                         *)
(* A handler runs to its end with interrupts off, between any two steps of *)
(* the loop.  An interrupt may come late, for a byte already read, or      *)
(* never: the timer sweeps up what it left.                                *)
(***************************************************************************)
EXTENDS Naturals, SequencesExt

CONSTANTS RingSize,    \* SIZE, 512 in the code
          PacketSize,  \* 3, or 4 with a wheel
          PortLimit,   \* bytes the controller holds; the devices wait
          MaxPackets, MaxCodes  \* bound what the devices send

ASSUME InputAssumption == RingSize \in Nat \ {0, 1} /\ {PacketSize, MaxPackets, MaxCodes} \subseteq Nat \ {0}

VARIABLES port,      \* the controller's output buffer
          lines,     \* interrupts raised and not handled: "key", "mouse"
          events,    \* the ring: words, head, tail, and whether some were lost
          loop,      \* where the main loop is
          word,      \* the word pop has read
          mouse,     \* the decoder: the bytes of the packet so far
          keyboard,  \* shift, extended
          codes,    \* history: the codes the keyboard sent
          moved,     \* history: how many bytes the mouse sent
          packets,   \* history: the packets decoded
          keys       \* history: the keys decoded: code number, extended, shift

inputVars == <<port, lines, events, loop, word, mouse, keyboard, codes, moved, packets, keys>>

\* A byte: who sent it, its number, what it is, and bit 3 for the mouse,
\* which only the first byte of a packet has here.
Byte(from, n, code, mark) == [from |-> from, n |-> n, code |-> code, mark |-> mark]
Extended == 0
Letter == 1
ShiftDown == 2
ShiftUp == 3
Second == Byte("timer", 0, 0, FALSE)

InputInit ==
    /\ port = <<>> /\ lines = {}
    /\ events = [words |-> [i \in 0 .. RingSize - 1 |-> Second], head |-> 0, tail |-> 0, lost |-> FALSE]
    /\ loop = "pop" /\ word = Second
    /\ mouse = <<>> /\ keyboard = [shift |-> FALSE, extended |-> FALSE]
    /\ codes = <<>> /\ moved = 0 /\ packets = <<>> /\ keys = <<>>

(***************************************************************************)
(* The devices                                                             *)
(***************************************************************************)
DeviceSends(b, line) ==
    /\ Len(port) < PortLimit /\ port' = Append(port, b)
    /\ lines' \in {lines, lines \cup {line}}
    /\ UNCHANGED <<events, loop, word, mouse, keyboard, packets, keys>>

KeyboardSends ==
    /\ Len(codes) < MaxCodes
    /\ \E code \in Extended .. ShiftUp :
          /\ codes' = Append(codes, code)
          /\ DeviceSends(Byte("key", Len(codes'), code, FALSE), "key")
    /\ UNCHANGED moved

MouseSends ==
    /\ moved < MaxPackets * PacketSize
    /\ moved' = moved + 1
    /\ DeviceSends(Byte("mouse", moved', 0, moved % PacketSize = 0), "mouse")
    /\ UNCHANGED codes

(***************************************************************************)
(* The handlers                                                            *)
(***************************************************************************)
After(i) == (i + 1) % RingSize

\* push.
Push(e, b) ==
    IF After(e.head) = e.tail THEN [e EXCEPT !.lost = TRUE]
    ELSE [e EXCEPT !.words[e.head] = b, !.head = After(@)]

\* Mutant: the line says that there is a byte; the port gives the last again.
Found_Blind(w) == IF w = <<>> THEN <<Byte("mouse", moved, 0, TRUE)>> ELSE <<Head(w)>>

\* take, from a device's interrupt: a byte, if the status says there is one.
Found(w) == IF w = <<>> THEN <<>> ELSE <<Head(w)>>

\* idle: cli, until sti and hlt.
Masked == loop = "resting"

\* A handler ends the rest of hlt.
Handles(bytes, rest) ==
    /\ ~Masked
    /\ events' = FoldLeft(Push, events, bytes)
    /\ port' = rest
    /\ loop' = IF loop = "halt" THEN "pop" ELSE loop
    /\ UNCHANGED <<word, mouse, keyboard, codes, moved, packets, keys>>

DeviceHandler(line) ==
    /\ line \in lines /\ lines' = lines \ {line}
    /\ Handles(Found(port), IF port = <<>> THEN <<>> ELSE Tail(port))

Swept(w) == IF Len(w) > 8 THEN SubSeq(w, 1, 8) ELSE w

\* tick, then a sweep of up to eight bytes.
TimerHandler ==
    /\ \E ticks \in {<<>>, <<Second>>} : Handles(ticks \o Swept(port), SubSeq(port, 9, Len(port)))
    /\ UNCHANGED lines

(***************************************************************************)
(* The main loop                                                           *)
(***************************************************************************)
IsEmpty == events.head = events.tail

\* pop, up to the word read.
PopReads ==
    /\ loop = "pop"
    /\ loop' = IF IsEmpty THEN "idle" ELSE "store"
    /\ word' = IF IsEmpty THEN word ELSE events.words[events.tail]
    /\ UNCHANGED <<port, lines, events, mouse, keyboard, codes, moved, packets, keys>>

\* Decoder::feed: a first byte without bit 3 is out of step.
MouseFed(b) ==
    LET bytes == IF mouse = <<>> /\ ~b.mark THEN <<>> ELSE Append(mouse, b.n)
    IN  IF Len(bytes) < PacketSize THEN mouse' = bytes /\ UNCHANGED packets
        ELSE mouse' = <<>> /\ packets' = Append(packets, bytes)

\* Keyboard::feed: the prefix is for the next byte, whatever it is.
Prefix(code) == code = Extended

KeyFed(b) ==
    /\ keyboard' = [shift |-> (b.code = ShiftDown) \/ (keyboard.shift /\ b.code # ShiftUp),
                    extended |-> Prefix(b.code)]
    /\ keys' = IF b.code = Letter THEN Append(keys, <<b.n, keyboard.extended, keyboard.shift>>) ELSE keys

\* pop, from the tail moved on, and what the loop does with the event.  The
\* slot behind the tail is forgotten.
PopStores ==
    /\ loop = "store" /\ loop' = "pop"
    /\ events' = [events EXCEPT !.tail = After(@), !.words[events.tail] = Second]
    /\ word' = Second
    /\ IF word.from = "mouse" THEN MouseFed(word) ELSE UNCHANGED <<mouse, packets>>
    /\ IF word.from = "key" THEN KeyFed(word) ELSE UNCHANGED <<keyboard, keys>>
    /\ UNCHANGED <<port, lines, codes, moved>>

\* Mutant: the ring was looked at before interrupts went off.
Rests_Blind == TRUE

Rests == IsEmpty

\* idle, after the turn: cli and the look at the ring, then sti with hlt.
Look ==
    /\ loop = "idle" /\ loop' = IF Rests THEN "resting" ELSE "pop"
    /\ UNCHANGED <<port, lines, events, word, mouse, keyboard, codes, moved, packets, keys>>
Halt ==
    /\ loop = "resting" /\ loop' = "halt"
    /\ UNCHANGED <<port, lines, events, word, mouse, keyboard, codes, moved, packets, keys>>

InputNext ==
    \/ KeyboardSends \/ MouseSends
    \/ \E line \in {"key", "mouse"} : DeviceHandler(line)
    \/ TimerHandler
    \/ PopReads \/ PopStores \/ Look \/ Halt

InputSpec == InputInit /\ [][InputNext]_inputVars

(***************************************************************************)
(* Properties                                                              *)
(***************************************************************************)
InputTypeOK ==
    /\ {events.head, events.tail} \subseteq 0 .. RingSize - 1
    /\ loop \in {"pop", "store", "idle", "resting", "halt"}
    /\ Len(mouse) < PacketSize /\ keyboard.shift \in BOOLEAN

\* The keys meant by the codes typed: the prefix is of the code before, the
\* shift of the last code about it.
Meant(typed) ==
    LET shifts(i) == {j \in 1 .. i - 1 : typed[j] \in {ShiftDown, ShiftUp}}
        shifted(i) == \E j \in shifts(i) : typed[j] = ShiftDown /\ \A k \in shifts(i) : k <= j
    IN  {<<i, i > 1 /\ typed[i - 1] = Extended, shifted(i)>> : i \in {j \in DOMAIN typed : typed[j] = Letter}}

\* events.rs: unless events were lost, every packet and every key is one that
\* was sent, in order, whichever interrupt brought its bytes.
InStep ==
    ~events.lost =>
        /\ packets = [i \in 1 .. Len(packets) |-> [j \in 1 .. PacketSize |-> (i - 1) * PacketSize + j]]
        /\ ToSet(keys) \subseteq Meant(codes)
        /\ \A i \in DOMAIN keys : i > 1 => keys[i - 1][1] < keys[i][1]

\* main.rs: "no event waits for the one after it".
NoEventWaits == loop = "halt" => IsEmpty
=============================================================================
