------------------------------ MODULE KernelCard -----------------------------
(***************************************************************************)
(* The rings grenOS shares with the 8254x network card                     *)
(* (kernel/src/e1000.rs).  The card is external, after its manual: it owns *)
(* the descriptors from its head up to, not including, the tail the driver *)
(* writes, and works through them whenever it likes.                       *)
(*                                                                         *)
(* Frames are numbered in the order they are sent, or come from the wire.  *)
(***************************************************************************)
EXTENDS Naturals, Sequences

CONSTANTS Ring,      \* RING, 32 in the code
          MaxFrames  \* bounds the frames of each direction

ASSUME CardAssumption == Ring \in Nat \ {0, 1} /\ MaxFrames \in Nat

VARIABLES tx,  \* of each descriptor: done, and the frame in its buffer; tx_at; the card's head and tail
          rx,  \* as above for the receive ring
          accepted,  \* how many frames send took
          out,       \* history: the frames the card put on the wire
          came,      \* how many frames came from the wire
          read       \* history: the frames receive returned

cardVars == <<tx, rx, accepted, out, came, read>>

Following(i) == (i + 1) % Ring
Before(i) == (i + Ring - 1) % Ring
EmptyRing(done, tail) == [done |-> [i \in 0 .. Ring - 1 |-> done], buffer |-> [i \in 0 .. Ring - 1 |-> 0],
                          at |-> 0, head |-> 0, tail |-> tail]

\* start.
CardInit ==
    /\ tx = EmptyRing(TRUE, 0) /\ rx = EmptyRing(FALSE, Ring - 1)
    /\ accepted = 0 /\ out = <<>> /\ came = 0 /\ read = <<>>

\* Mutant: no look at the descriptor's status.
Refuses_Never == FALSE

\* The ring has been round, and the card is not done with this descriptor.
Refuses == accepted >= Ring /\ ~tx.done[tx.at]

\* send.
SendFrame ==
    /\ accepted < MaxFrames /\ ~Refuses
    /\ tx' = [tx EXCEPT !.buffer[tx.at] = accepted + 1, !.done[tx.at] = FALSE,
                        !.at = Following(@), !.tail = Following(tx.at)]
    /\ accepted' = accepted + 1
    /\ UNCHANGED <<rx, out, came, read>>

Cleared(i) == [rx.done EXCEPT ![i] = FALSE]

\* receive.
ReadFrame ==
    /\ rx.done[rx.at]
    /\ read' = Append(read, rx.buffer[rx.at])
    /\ rx' = [rx EXCEPT !.done = Cleared(rx.at), !.at = Following(@), !.tail = Before(rx.at)]
    /\ UNCHANGED <<tx, accepted, out, came>>

\* The card sends what is at its head, and says so in the status.
CardSends ==
    /\ tx.head # tx.tail
    /\ out' = Append(out, tx.buffer[tx.head])
    /\ tx' = [tx EXCEPT !.done[tx.head] = TRUE, !.head = Following(@)]
    /\ UNCHANGED <<rx, accepted, came, read>>

\* A frame comes: into the buffer at its head, or nowhere.
CardReceives ==
    /\ came < MaxFrames /\ came' = came + 1
    /\ rx' = IF rx.head = rx.tail THEN rx
             ELSE [rx EXCEPT !.buffer[rx.head] = came', !.done[rx.head] = TRUE, !.head = Following(@)]
    /\ UNCHANGED <<tx, accepted, out, read>>

CardNext == SendFrame \/ ReadFrame \/ CardSends \/ CardReceives

CardSpec == CardInit /\ [][CardNext]_cardVars

(***************************************************************************)
(* Properties                                                              *)
(***************************************************************************)
CardTypeOK ==
    /\ \A r \in {tx, rx} : {r.at, r.head, r.tail} \subseteq 0 .. Ring - 1
    /\ accepted <= MaxFrames /\ came <= MaxFrames

\* What goes out is what was sent, each frame once and in order: no buffer
\* is written again while the card still has it to send.  What comes in is
\* read once, in the order it came, though frames that find the ring full
\* are lost.
FramesInOrder ==
    /\ Len(out) <= accepted /\ \A i \in DOMAIN out : out[i] = i
    /\ \A i \in DOMAIN read : i > 1 => read[i - 1] < read[i]

\* The ring is never handed over whole: its head and tail would be the same,
\* which to the card is an empty ring, and it would never send again.  It
\* can be, when the card falls a whole ring behind: see the README.
NeverFull == \E i \in 0 .. Ring - 1 : tx.done[i]
=============================================================================
