------------------------------- MODULE KernelTls -----------------------------
(***************************************************************************)
(* The TLS 1.3 client (kernel/src/tls.rs): bytes in, bytes out.  Its bytes *)
(* come from a TCP connection, all of them and in order, but cut anywhere: *)
(* a record may come in several calls of feed or several in one, and a     *)
(* handshake message may span records or share one.  Here a record comes   *)
(* in two halves, and so does a message.                                   *)
(*                                                                         *)
(* Keys are their epoch and the transcript they come from, and a nonce the *)
(* number of records sealed under them; a record opens under the keys and  *)
(* the nonce it was sealed with, and under nothing else.                   *)
(***************************************************************************)
EXTENDS Naturals, SequencesExt

CONSTANTS Flight,     \* the server's handshake messages after its hello, in order
          MaxData,    \* bounds the records of data
          Asides      \* what the server may say once connected: "ticket", "update", "close"

ASSUME FlightAssumption ==
    /\ Flight \in Seq({"extensions", "certificate", "verify", "finished"}) /\ Flight # <<>>
    /\ \A i \in DOMAIN Flight : Flight[i] = "finished" <=> i = Len(Flight)
    /\ MaxData \in Nat /\ Asides \subseteq {"ticket", "update", "close"}

VARIABLES client,   \* stage, pending, transcript, keys to read and to write, received, error
          inbox,    \* what has come of a record that is not whole
          server,   \* messages to send and how many halves of them have gone, transcript, keys, data sent, closed
          wire      \* halves of records on their way to the client

tlsVars == <<client, inbox, server, wire>>

NoKeys == [epoch |-> "none", of |-> <<>>, count |-> 0]
KeysOf(epoch, transcript) == [epoch |-> epoch, of |-> transcript, count |-> 0]
Next1(keys) == [keys EXCEPT !.count = @ + 1]

\* A record: its kind outside, the keys and nonce it was sealed with, its
\* kind inside and what it carries.
Record(kind, keys, inner, body) == [kind |-> kind, keys |-> keys, inner |-> inner, body |-> body]

\* Messages, and records, are halves: <<m, 1>> then <<m, 2>>.
Halves(messages) == [j \in 1 .. 2 * Len(messages) |-> <<messages[(j + 1) \div 2], 2 - (j % 2)>>]
Hellos == <<"client hello">>

\* new and hello; the server has had it.
TlsInit ==
    /\ client = [stage |-> "Hello", pending |-> <<>>, transcript |-> Hellos,
                 read |-> NoKeys, write |-> NoKeys, received |-> <<>>, error |-> "none"]
    /\ server = [script |-> <<"server hello">>, at |-> 0, transcript |-> Hellos, keys |-> NoKeys, data |-> 0, closed |-> FALSE]
    /\ inbox = <<>> /\ wire = <<>>

(***************************************************************************)
(* The server, external                                                    *)
(***************************************************************************)
Puts(r) == wire' = wire \o Halves(<<r>>) /\ UNCHANGED <<client, inbox>>

\* How many halves are left to send.
Left(s) == 2 * Len(s.script) - s.at

\* Some halves of what is left go in one record: in the clear, then sealed.
\* After its hello it changes to the handshake keys, after its Finished to
\* those of the application.
Clear == server.keys.epoch = "none"
Carried(n) == SubSeq(Halves(server.script), server.at + 1, server.at + n)
Completed(n) == SubSeq(server.script, server.at \div 2 + 1, (server.at + n) \div 2)
ServerHandshake(n) ==
    LET transcript == server.transcript \o Completed(n)
        done == n = Left(server)
    IN  /\ n \in 1 .. Left(server)
        /\ Puts(IF Clear THEN Record("handshake", NoKeys, "none", Carried(n))
                         ELSE Record("data", server.keys, "handshake", Carried(n)))
        /\ server' = [server EXCEPT
              !.script = IF ~done THEN @ ELSE IF Clear THEN Flight ELSE <<>>,
              !.at = IF done THEN 0 ELSE @ + n,
              !.transcript = transcript,
              !.keys = IF done THEN KeysOf(IF Clear THEN "handshake" ELSE "application", transcript)
                       ELSE IF Clear THEN @ ELSE Next1(@)]

ServerReady == server.script = <<>> /\ ~server.closed

ServerChangesCipher ==
    /\ server.script = Flight /\ server.at = 0 /\ Len(wire) < 3
    /\ Puts(Record("change cipher", NoKeys, "none", <<>>)) /\ UNCHANGED server

ServerData ==
    /\ ServerReady /\ server.data < MaxData
    /\ Puts(Record("data", server.keys, "data", <<server.data + 1>>))
    /\ server' = [server EXCEPT !.data = @ + 1, !.keys = Next1(@)]

\* A ticket, a change of keys, the end.
ServerAside(aside) ==
    /\ ServerReady /\ server.keys.count < MaxData + 1
    /\ Puts(Record("data", server.keys, IF aside = "close" THEN "alert" ELSE "handshake",
                   IF aside = "close" THEN <<>> ELSE Halves(<<aside>>)))
    /\ server' = [server EXCEPT !.keys = IF aside = "update" THEN KeysOf("updated", @.of) ELSE Next1(@),
                                !.closed = aside = "close"]

(***************************************************************************)
(* The client                                                              *)
(***************************************************************************)

\* Mutant: the keys change and the nonces go on.
Fresh_Counting(c, epoch) == [KeysOf(epoch, c.transcript) EXCEPT !.count = c.read.count]

\* from_secret, at handshake_keys and client_finished.
Fresh(c, epoch) == KeysOf(epoch, c.transcript)

\* server_finished: it covers everything the server said and heard so far.
Covered == Hellos \o <<"server hello">> \o Front(Flight)

\* messages, one of them.
Heard(c, m) ==
    LET noted == [c EXCEPT !.transcript = Append(@, m)]
    IN  IF c.stage = "Hello" /\ m = "server hello"
        THEN [noted EXCEPT !.stage = "Encrypted", !.read = Fresh(noted, "handshake"), !.write = Fresh(noted, "handshake")]
        ELSE IF c.stage = "Encrypted" /\ m \in {"extensions", "certificate", "verify"} THEN noted
        ELSE IF c.stage = "Encrypted" /\ m = "finished"
        THEN IF c.transcript # Covered THEN [c EXCEPT !.error = "finished"] ELSE
             [noted EXCEPT !.stage = "Connected", !.read = Fresh(noted, "application"), !.write = Fresh(noted, "application")]
        ELSE IF c.stage = "Connected" THEN c
        ELSE [c EXCEPT !.error = "out of order"]

\* messages: every whole message that waits, up to the first error.
Messages(c, halves) ==
    LET all == c.pending \o halves
        whole == Len(all) \div 2
        Step(d, i) == IF d.error = "none" THEN Heard(d, all[2 * i][1]) ELSE d
    IN  FoldLeft(Step, [c EXCEPT !.pending = SubSeq(all, 2 * whole + 1, Len(all))], [i \in 1 .. whole |-> i])

\* feed, one record.
Took(c, r) ==
    IF c.error # "none" \/ c.stage = "Closed" THEN c
    ELSE IF r.kind = "change cipher" THEN c
    ELSE IF r.kind = "handshake"
    THEN IF c.stage = "Hello" THEN Messages(c, r.body) ELSE [c EXCEPT !.error = "unexpected record"]
    ELSE IF c.read = NoKeys THEN [c EXCEPT !.error = "encrypted before keys"]
    ELSE IF r.keys # c.read THEN [c EXCEPT !.error = "record"]
    ELSE LET opened == [c EXCEPT !.read = Next1(@)]
         IN  IF r.inner = "handshake" THEN Messages(opened, r.body)
             ELSE IF r.inner = "alert" THEN [opened EXCEPT !.stage = "Closed"]
             ELSE IF c.stage = "Connected" THEN [opened EXCEPT !.received = @ \o r.body]
             ELSE [opened EXCEPT !.error = "unexpected inner record"]

\* feed: n halves more; every whole record in the inbox is taken.  The
\* client's Finished goes out when it connects.
Feed(n) ==
    LET all == inbox \o SubSeq(wire, 1, n)
        whole == Len(all) \div 2
    IN  /\ client.error = "none" /\ client.stage # "Closed" /\ n \in 1 .. Len(wire)
        /\ client' = FoldLeft(Took, client, [i \in 1 .. whole |-> all[2 * i][1]])
        /\ inbox' = SubSeq(all, 2 * whole + 1, Len(all))
        /\ wire' = SubSeq(wire, n + 1, Len(wire))
        /\ UNCHANGED server

TlsNext ==
    \/ \E n \in 1 .. Left(server) : ServerHandshake(n)
    \/ ServerChangesCipher \/ ServerData
    \/ \E aside \in Asides : ServerAside(aside)
    \/ \E n \in 1 .. Len(wire) : Feed(n)

TlsSpec == TlsInit /\ [][TlsNext]_tlsVars

(***************************************************************************)
(* Properties                                                              *)
(***************************************************************************)
TlsTypeOK ==
    /\ client.stage \in {"Hello", "Encrypted", "Connected", "Closed"}
    /\ Len(inbox) <= 1 /\ client.error \in {"none", "record", "finished"}
    /\ client.received \in Seq(1 .. MaxData)

\* However the stream is cut, a client that has been fed all of it has
\* everything the server sent and both are at the same point of the same
\* conversation: the next record will open.
AllIsUnderstood ==
    wire = <<>> =>
        /\ client.error = "none"
        /\ client.received = [i \in 1 .. server.data |-> i]
        /\ server.keys.epoch # "none" => client.read = server.keys
        /\ client.stage = "Connected" => client.transcript = server.transcript
=============================================================================
