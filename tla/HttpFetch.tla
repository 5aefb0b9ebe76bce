----------------------------- MODULE HttpFetch -----------------------------
(***************************************************************************)
(* The kernel's page fetch: one conversation at a time over a small TCP    *)
(* client that never retransmits its data, on a network that loses,        *)
(* duplicates, delays and reorders; the resolver it asks for addresses,    *)
(* and one server. One tick of the clock is a second.                      *)
(*                                                                         *)
(* Whatever was sent stays on the wire and may be received any number of   *)
(* times, or never. A poll that takes several segments is as many polls of *)
(* one; what a poll drops when it returns early is lost, as on the wire.   *)
(* The bytes of an answer are counted in segments, its headers in the      *)
(* first. The conversation is plain: what TLS adds is not in this module.  *)
(***************************************************************************)
EXTENDS Naturals, Sequences, FiniteSets

CONSTANTS
  Patience,       \* PATIENCE: ticks a step may last
  Resend,         \* ticks after which the SYN is sent again
  Retry,          \* RETRY: ticks between two questions to the name server
  Tries,          \* TRIES: questions asked before giving up
  PortSpan,       \* local ports, one per tick
  PortStride,     \* how far a redirect moves the port
  MaxRedirects,   \* MAX_REDIRECTS
  Limit,          \* segments of a body kept
  HeadRoom,       \* segments taken on top of it
  Replies,        \* what the server may answer
  MaxStarts,      \* bound on the pages a person asks for
  MaxConnections  \* bound on the connections the server accepts

(* framed: the headers give a length or chunks; redirect: they give a      *)
(* Location to follow; fin: the last segment closes, or another, or none.  *)
Reply == [size : Nat \ {0}, framed : BOOLEAN, redirect : BOOLEAN,
          fin : {"last", "apart", "never"}]

NoReply == [size |-> 1, framed |-> FALSE, redirect |-> FALSE, fin |-> "never"]

ASSUME ConstantsAssumption ==
  /\ {Patience, Resend, Retry, PortStride, MaxRedirects, Limit, HeadRoom,
      MaxStarts, MaxConnections} \subseteq Nat
  /\ {Tries, PortSpan} \subseteq Nat \ {0}
  /\ Replies \subseteq Reply

VARIABLES
  now,          \* the clock, as far as the local port depends on it
  phase,        \* Fetch.phase
  redirects,    \* Fetch.redirects
  port,         \* Fetch.local_port
  acknowledged, \* the connection and the segment Fetch.acknowledged names
  raw,          \* Fetch.raw: the segments taken, in the order they were
  idle,         \* now - Fetch.since, while the fetch is busy
  lookup,       \* the resolver: none, asking, answered, failed
  tries,        \* Resolver.tries
  waited,       \* now - Resolver.since, while it asks
  starts,       \* pages asked for so far; names the current one
  used,         \* local ports of earlier conversations (history)
  syns,         \* client to server: the ports that asked for a connection
  requests,     \* client to server: requests, by connection
  segments,     \* server to client
  conns         \* the server's connections, in the order it accepted them

client   == <<phase, redirects, port, acknowledged, raw, idle>>
resolver == <<lookup, tries, waited>>
server   == <<segments, conns>>
vars     == <<now, client, resolver, starts, used, syns, requests, server>>

Ports    == 0..(PortSpan - 1)
Urls     == (0..MaxStarts) \X (0..MaxRedirects)
ConnIds  == 1..MaxConnections
Segment  == [conn : ConnIds, kind : {"synack", "data", "close", "rst"}, seq : Nat,
             fin : BOOLEAN]
Conn     == [port : Ports, state : {"half", "replied", "gone"}, url : Urls,
             reply : Reply]

TypeOK ==
  /\ now \in Ports
  /\ phase \in {"idle", "resolving", "connecting", "reading", "done", "failed"}
  /\ redirects \in 0..MaxRedirects
  /\ port \in Ports
  /\ acknowledged \in [conn : 0..MaxConnections, next : Nat]
  /\ raw \in Seq([conn : ConnIds, seq : Nat])
  /\ idle \in 0..(Patience + 1)
  /\ lookup \in {"none", "asking", "answered", "failed"}
  /\ tries \in 0..Tries
  /\ waited \in 0..(Retry + 1)
  /\ starts \in 0..MaxStarts
  /\ used \subseteq Ports
  /\ syns \subseteq Ports
  /\ requests \subseteq [conn : ConnIds, url : Urls]
  /\ segments \subseteq Segment
  /\ conns \in Seq(Conn) /\ Len(conns) <= MaxConnections

NoConn == [conn |-> 0, next |-> 0]

Init ==
  /\ now = 0
  /\ phase = "idle"
  /\ redirects = 0
  /\ port = 0
  /\ acknowledged = NoConn
  /\ raw = <<>>
  /\ idle = 0
  /\ lookup = "none" /\ tries = 0 /\ waited = 0
  /\ starts = 0
  /\ used = {}
  /\ syns = {}
  /\ requests = {}
  /\ segments = {}
  /\ conns = <<>>

Busy == phase \in {"resolving", "connecting", "reading"}

url == <<starts, redirects>>

-----------------------------------------------------------------------------
(* The conversation.                                                       *)

LocalPort(r) == (now + r * PortStride) % PortSpan

(* A question to the name server; without one the lookup fails at once.    *)
Ask ==
  /\ waited' = 0
  /\ \/ lookup' = "asking" /\ tries' = 1
     \/ lookup' = "failed" /\ tries' = 0

(* begin: everything of the last conversation is forgotten, and a new one  *)
(* starts at an address, at a name to be resolved first, or not at all.    *)
Begin(r) ==
  /\ redirects' = r
  /\ port' = LocalPort(r)
  /\ used' = IF phase = "idle" THEN used ELSE used \cup {port}
  /\ raw' = <<>>
  /\ idle' = 0
  /\ \/ phase' = "connecting" /\ syns' = syns \cup {LocalPort(r)} /\ UNCHANGED resolver
     \/ phase' = "resolving" /\ UNCHANGED syns /\ Ask
     \/ phase' = "failed" /\ UNCHANGED <<syns, resolver>>

(* A person opens a page, whatever the fetch is doing.                     *)
StartPage ==
  /\ starts < MaxStarts
  /\ starts' = starts + 1
  /\ Begin(0)
  /\ UNCHANGED <<now, acknowledged, requests, server>>

(* The name is resolved: the SYN leaves.                                   *)
Connect ==
  /\ phase = "resolving"
  /\ lookup = "answered"
  /\ lookup' = "none"
  /\ phase' = "connecting"
  /\ idle' = 0
  /\ syns' = syns \cup {port}
  /\ UNCHANGED <<now, redirects, port, acknowledged, raw, tries, waited, starts,
                 used, requests, server>>

(* The conversation ends: Failed, or Done with a page.                     *)
End(outcome, got) ==
  /\ phase' = outcome
  /\ raw' = got
  /\ idle' = 0
  /\ UNCHANGED <<redirects, port, resolver, used, syns>>

GiveUp == End("failed", raw)

NameUnknown ==
  /\ phase = "resolving"
  /\ lookup = "failed"
  /\ GiveUp
  /\ UNCHANGED <<now, acknowledged, starts, requests, server>>

(* The SYN may have left before the router's card was known.               *)
SynDue == phase = "connecting" /\ idle > Resend

ResendSyn ==
  /\ SynDue
  /\ idle' = 0
  /\ syns' = syns \cup {port}
  /\ UNCHANGED <<now, phase, redirects, port, acknowledged, raw, resolver, starts,
                 used, requests, server>>

(* Mutant: one redirect too many.                                          *)
MayFollow_OneMore == redirects <= MaxRedirects

MayFollow == redirects < MaxRedirects

(* The answer that segments belong to: its headers are in the first.       *)
ReplyOf(got) == conns[got[1].conn].reply

(* Less than the headers announce, or more than is kept.                   *)
Unusable(got) ==
  \/ ReplyOf(got).framed /\ Len(got) < ReplyOf(got).size
  \/ Len(got) > Limit

(* finish: a page, a redirect that the same poll follows, or nothing.      *)
Finish(got) ==
  IF got = <<>> THEN GiveUp
  ELSE IF ReplyOf(got).redirect
    THEN IF MayFollow THEN Begin(redirects + 1) ELSE End("failed", got)
  ELSE End(IF Unusable(got) THEN "failed" ELSE "done", got)

(* Mutant: anything that comes to this machine is taken for ours.          *)
Mine_Any(s) == TRUE

Mine(s) == conns[s.conn].port = port

(* Mutant: data is taken in the order it comes.                            *)
InOrder_Any(s) == s.kind = "data"

InOrder(s) ==
  s.kind = "data" /\ acknowledged = [conn |-> s.conn, next |-> s.seq]

(* Mutant: any segment of ours shows that the server is alive.             *)
Silence_AnySegment(s) == 0

(* Only data that is taken restarts the clock of the step.                 *)
Silence(s) == IF InOrder(s) THEN 0 ELSE idle

ReceiveReset(s) ==
  /\ s.kind = "rst"
  /\ GiveUp
  /\ UNCHANGED <<acknowledged, requests>>

(* The connection is open, and the request leaves in one segment.          *)
ReceiveSynAck(s) ==
  /\ s.kind = "synack"
  /\ phase = "connecting"
  /\ acknowledged' = [conn |-> s.conn, next |-> 1]
  /\ phase' = "reading"
  /\ idle' = 0
  /\ requests' = requests \cup {[conn |-> s.conn, url |-> url]}
  /\ UNCHANGED <<redirects, port, raw, resolver, used, syns>>

(* Data is taken only if it is the next; a FIN is believed whatever it     *)
(* comes with, and is not a data segment the server would send again.      *)
ReceiveData(s) ==
  /\ s.kind \in {"data", "close"}
  /\ phase = "reading"
  /\ LET got == IF InOrder(s) THEN Append(raw, [conn |-> s.conn, seq |-> s.seq]) ELSE raw IN
     IF Len(got) > Limit + HeadRoom THEN GiveUp
     ELSE IF s.fin THEN Finish(got)
     ELSE /\ raw' = got
          /\ idle' = Silence(s)
          /\ UNCHANGED <<phase, redirects, port, resolver, used, syns>>
  /\ acknowledged' = IF InOrder(s) THEN [acknowledged EXCEPT !.next = @ + 1]
                     ELSE acknowledged
  /\ UNCHANGED requests

Receive(s) ==
  /\ Busy
  /\ s \in segments
  /\ Mine(s)
  /\ ReceiveReset(s) \/ ReceiveSynAck(s) \/ ReceiveData(s)
  /\ UNCHANGED <<now, starts, server>>

(* The step has lasted too long. A SYN that is due leaves first, and so    *)
(* does the one that follows an answer of the name server.                 *)
OutOfPatience ==
  /\ Busy
  /\ idle > Patience
  /\ ~SynDue
  /\ ~(phase = "resolving" /\ lookup = "answered")
  /\ Finish(raw)
  /\ UNCHANGED <<now, acknowledged, starts, requests, server>>

-----------------------------------------------------------------------------
(* The resolver.                                                           *)

(* The name server's answer to this very question has come.                *)
Answered ==
  /\ lookup = "asking"
  /\ lookup' = "answered"
  /\ UNCHANGED <<now, client, tries, waited, starts, used, syns, requests, server>>

AskAgain ==
  /\ lookup = "asking"
  /\ waited > Retry
  /\ waited' = 0
  /\ IF tries >= Tries THEN lookup' = "failed" /\ UNCHANGED tries
                       ELSE tries' = tries + 1 /\ UNCHANGED lookup
  /\ UNCHANGED <<now, client, starts, used, syns, requests, server>>

Capped(n, bound) == IF n < bound THEN n + 1 ELSE n

Tick ==
  /\ now' = (now + 1) % PortSpan
  /\ idle' = IF Busy THEN Capped(idle, Patience + 1) ELSE idle
  /\ waited' = IF lookup = "asking" THEN Capped(waited, Retry + 1) ELSE waited
  /\ UNCHANGED <<phase, redirects, port, acknowledged, raw, lookup, tries, starts,
                 used, syns, requests, server>>

-----------------------------------------------------------------------------
(* The server.                                                             *)

(* A SYN opens a connection, unless its port has one.                      *)
Accept(p) ==
  /\ p \in syns
  /\ \A c \in DOMAIN conns : conns[c].port = p => conns[c].state = "gone"
  /\ Len(conns) < MaxConnections
  /\ conns' = Append(conns, [port |-> p, state |-> "half", url |-> <<0, 0>>,
                             reply |-> NoReply])
  /\ segments' = segments \cup {[conn |-> Len(conns) + 1, kind |-> "synack", seq |-> 0,
                                 fin |-> FALSE]}
  /\ UNCHANGED <<now, client, resolver, starts, used, syns, requests>>

Stream(c, r) ==
  [conn : {c}, kind : {"data"}, seq : 1..(r.size - 1), fin : {FALSE}]
    \cup [conn : {c}, kind : {"data"}, seq : {r.size}, fin : {r.fin = "last"}]
    \cup [conn : {c}, kind : {"close"}, seq : {r.size + 1}, fin : IF r.fin = "apart" THEN {TRUE} ELSE {}]

(* The first request of a connection is answered; what else comes on it    *)
(* repeats bytes the server has already read.                              *)
Serve(q, r) ==
  /\ q \in requests
  /\ conns[q.conn].state = "half"
  /\ conns' = [conns EXCEPT ![q.conn] = [port |-> @.port, state |-> "replied",
                                         url |-> q.url, reply |-> r]]
  /\ segments' = segments \cup Stream(q.conn, r)
  /\ UNCHANGED <<now, client, resolver, starts, used, syns, requests>>

(* The server forgets a connection, and may say so.                        *)
Drop(c) ==
  /\ conns[c].state # "gone"
  /\ conns' = [conns EXCEPT ![c].state = "gone"]
  /\ \/ UNCHANGED segments
     \/ segments' = segments \cup {[conn |-> c, kind |-> "rst", seq |-> 0, fin |-> FALSE]}
  /\ UNCHANGED <<now, client, resolver, starts, used, syns, requests>>

-----------------------------------------------------------------------------
Poll == Connect \/ NameUnknown \/ ResendSyn \/ OutOfPatience

Next ==
  \/ StartPage \/ Poll \/ \E s \in segments : Receive(s)
  \/ Answered \/ AskAgain \/ Tick
  \/ \E p \in syns : Accept(p)
  \/ \E q \in requests, r \in Replies : Serve(q, r)
  \/ \E c \in DOMAIN conns : Drop(c)

Spec == Init /\ [][Next]_vars

(* The main loop turns and the clock advances. Nothing is assumed of the   *)
(* person, of the network or of the server.                                *)
FairSpec == Spec /\ WF_vars(Poll) /\ WF_vars(Tick)

-----------------------------------------------------------------------------
(* Properties.                                                             *)

Whole(c) == [i \in 1..conns[c].reply.size |-> [conn |-> c, seq |-> i]]

(* A page whose length is announced is shown only if every segment of one  *)
(* answer was taken, once and in order, whatever was lost, repeated,       *)
(* delayed or reordered on the way (http.rs: the dechunk and the length    *)
(* checks of finish, over the order check of step).                        *)
WholePage ==
  phase = "done" /\ ReplyOf(raw).framed => raw = Whole(raw[1].conn)

(* The page shown is the answer to the page asked for, or to the redirect  *)
(* that was followed last, unless the local port served a conversation     *)
(* before: late segments of abandoned conversations are never mistaken.    *)
RightPage ==
  phase = "done" /\ port \notin used => conns[raw[1].conn].url = url

(* A fetch that never ends is for ever connecting: a resolution or an      *)
(* answer that stalls is ended by PATIENCE, whatever still comes in.       *)
FetchSettles == <>[]Busy => <>[](phase = "connecting")

(* How long each step may take: connecting ends too (http.rs).             *)
ConnectingEnds == phase = "connecting" ~> phase # "connecting"

(* A new port for each redirect (http.rs, begin).                          *)
NewPortForRedirect == [][redirects' = redirects + 1 => port' # port]_vars
=============================================================================
