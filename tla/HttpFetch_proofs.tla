------------------------- MODULE HttpFetch_proofs -------------------------
(* What TLAPS proves of HttpFetch for every patience, every port arithmetic,*)
(* every set of answers and any number of pages and connections.           *)
EXTENDS HttpFetch, SequenceTheorems, TLAPS

-----------------------------------------------------------------------------
(* Types.                                                                  *)

Phases == {"idle", "resolving", "connecting", "reading", "done", "failed"}

Taken == [conn : ConnIds, seq : Nat]

(* The variables that begin and finish write.                              *)
ConversationType ==
  /\ phase \in Phases
  /\ redirects \in 0..MaxRedirects
  /\ port \in Ports
  /\ raw \in Seq(Taken)
  /\ idle \in 0..(Patience + 1)
  /\ lookup \in {"none", "asking", "answered", "failed"}
  /\ tries \in 0..Tries
  /\ waited \in 0..(Retry + 1)
  /\ used \subseteq Ports
  /\ syns \subseteq Ports

(* The others.                                                             *)
RestType ==
  /\ now \in Ports
  /\ acknowledged \in [conn : 0..MaxConnections, next : Nat]
  /\ starts \in 0..MaxStarts
  /\ requests \subseteq [conn : ConnIds, url : Urls]
  /\ segments \subseteq Segment
  /\ conns \in Seq(Conn) /\ Len(conns) <= MaxConnections

LEMMA TypeParts ==
  /\ TypeOK <=> ConversationType /\ RestType
  /\ TypeOK' <=> ConversationType' /\ RestType'
  BY DEF TypeOK, ConversationType, RestType, Phases, Taken

LEMMA ConstantTypes ==
  /\ Patience \in Nat /\ Retry \in Nat /\ PortStride \in Nat /\ MaxRedirects \in Nat
  /\ Limit \in Nat /\ MaxStarts \in Nat /\ MaxConnections \in Nat
  /\ Tries \in Nat /\ Tries > 0 /\ PortSpan \in Nat /\ PortSpan > 0
  BY ConstantsAssumption

LEMMA LocalPortType == ASSUME now \in Ports, NEW r \in Nat PROVE LocalPort(r) \in Ports
<1>1. now + r * PortStride \in Nat
  BY ConstantTypes DEF Ports
<1> QED
  BY <1>1, ConstantTypes DEF LocalPort, Ports

LEMMA BeginType ==
  ASSUME ConversationType, now \in Ports, NEW r \in 0..MaxRedirects, Begin(r)
  PROVE  ConversationType'
<1>1. LocalPort(r) \in Ports
  BY LocalPortType, ConstantTypes
<1>2. syns' \subseteq Ports /\ used' \subseteq Ports
  BY <1>1 DEF Begin, ConversationType
<1>3. /\ lookup' \in {"none", "asking", "answered", "failed"}
      /\ tries' \in 0..Tries
      /\ waited' \in 0..(Retry + 1)
  BY ConstantTypes DEF Begin, Ask, resolver, ConversationType
<1>4. raw' \in Seq(Taken) /\ phase' \in Phases /\ idle' \in 0..(Patience + 1)
  BY ConstantTypes DEF Begin, Phases
<1> QED
  BY <1>1, <1>2, <1>3, <1>4 DEF Begin, ConversationType

LEMMA EndType ==
  ASSUME ConversationType, NEW p \in Phases, NEW got \in Seq(Taken), End(p, got)
  PROVE  ConversationType'
  BY ConstantTypes DEF End, resolver, ConversationType

LEMMA FinishType ==
  ASSUME ConversationType, now \in Ports, NEW got \in Seq(Taken), Finish(got)
  PROVE  ConversationType'
<1>1. CASE GiveUp
  BY <1>1, EndType DEF GiveUp, ConversationType, Phases
<1>2. CASE MayFollow /\ Begin(redirects + 1)
  <2>1. redirects + 1 \in 0..MaxRedirects
    BY <1>2, ConstantTypes DEF MayFollow, ConversationType
  <2> QED
    BY <1>2, <2>1, BeginType
<1>3. CASE End("failed", got) \/ End("done", got)
  BY <1>3, EndType DEF Phases
<1> QED
  BY <1>1, <1>2, <1>3 DEF Finish

LEMMA SegmentType ==
  ASSUME RestType, NEW s \in segments
  PROVE  s \in Segment /\ s.conn \in ConnIds /\ s.seq \in Nat
  BY DEF RestType, Segment

LEMMA ReceiveType ==
  ASSUME TypeOK, NEW s \in segments, Receive(s)
  PROVE  TypeOK'
<1>0. ConversationType /\ RestType
  BY TypeParts
<1>1. s.conn \in ConnIds /\ s.seq \in Nat /\ s.conn \in 0..MaxConnections
  BY <1>0, SegmentType, ConstantTypes DEF ConnIds
<1>2. CASE ReceiveReset(s)
  <2>1. ConversationType'
    BY <1>0, <1>2, EndType DEF ReceiveReset, GiveUp, ConversationType, Phases
  <2> QED
    BY <1>0, <1>2, <2>1, TypeParts DEF Receive, ReceiveReset, RestType, server
<1>3. CASE ReceiveSynAck(s)
  <2>1. ConversationType'
    BY <1>0, <1>3, ConstantTypes DEF ReceiveSynAck, ConversationType, Phases, resolver
  <2>2. requests' \subseteq [conn : ConnIds, url : Urls]
    <3>1. url \in Urls
      BY <1>0 DEF url, Urls, RestType, ConversationType
    <3> QED
      BY <1>0, <1>1, <1>3, <3>1 DEF ReceiveSynAck, RestType
  <2>3. acknowledged' \in [conn : 0..MaxConnections, next : Nat]
    BY <1>1, <1>3 DEF ReceiveSynAck
  <2> QED
    BY <1>0, <1>3, <2>1, <2>2, <2>3, TypeParts DEF Receive, RestType, server
<1>4. CASE ReceiveData(s)
  <2> DEFINE got == IF InOrder(s) THEN Append(raw, [conn |-> s.conn, seq |-> s.seq]) ELSE raw
  <2>1. got \in Seq(Taken)
    <3>1. raw \in Seq(Taken) /\ [conn |-> s.conn, seq |-> s.seq] \in Taken
      BY <1>0, <1>1 DEF ConversationType, Taken
    <3> QED
      BY <3>1
  <2>2. IF Len(got) > Limit + HeadRoom THEN GiveUp
        ELSE IF s.fin THEN Finish(got)
        ELSE /\ raw' = got
             /\ idle' = Silence(s)
             /\ UNCHANGED <<phase, redirects, port, resolver, used, syns>>
    BY <1>4 DEF ReceiveData
  <2>3. ConversationType'
    <3>1. CASE GiveUp
      BY <1>0, <3>1, EndType DEF GiveUp, ConversationType, Phases
    <3>2. CASE Finish(got)
      BY <1>0, <2>1, <3>2, FinishType DEF RestType
    <3>3. CASE /\ raw' = got
               /\ idle' = Silence(s)
               /\ UNCHANGED <<phase, redirects, port, resolver, used, syns>>
      <4>1. Silence(s) \in 0..(Patience + 1)
        BY <1>0, ConstantTypes DEF Silence, ConversationType
      <4> QED
        BY <1>0, <2>1, <3>3, <4>1 DEF ConversationType, resolver
    <3> QED
      BY <2>2, <3>1, <3>2, <3>3
  <2>4. acknowledged' \in [conn : 0..MaxConnections, next : Nat]
    <3>1. /\ InOrder(s) => acknowledged' = [acknowledged EXCEPT !.next = @ + 1]
          /\ ~InOrder(s) => acknowledged' = acknowledged
      BY <1>4 DEF ReceiveData
    <3> QED
      BY <1>0, <3>1 DEF RestType
  <2>5. UNCHANGED <<now, starts, requests, segments, conns>>
    BY <1>4 DEF Receive, ReceiveData, server
  <2> QED
    BY <1>0, <2>3, <2>4, <2>5, TypeParts DEF RestType
<1> QED
  BY <1>2, <1>3, <1>4 DEF Receive

-----------------------------------------------------------------------------
(* The server and the wire.                                                *)

Served(c) == conns[c].state # "half"

(* What is on the wire belongs to a connection, and data to one whose      *)
(* first request was answered, and whose answer is settled since.          *)
WireInv ==
  /\ \A s \in segments :
       /\ s.conn \in DOMAIN conns
       /\ s.kind \in {"data", "close"} => Served(s.conn)
       /\ s.kind = "data" => s.seq \in 1..conns[s.conn].reply.size
  /\ \A q \in requests : q.conn \in DOMAIN conns

(* Connections are only added, keep their port, and once answered their    *)
(* answer.                                                                 *)
Grown ==
  \A c \in DOMAIN conns :
    /\ c \in DOMAIN conns'
    /\ conns'[c].port = conns[c].port
    /\ Served(c) => /\ conns'[c].state # "half"
                    /\ conns'[c].reply = conns[c].reply
                    /\ conns'[c].url = conns[c].url

LEMMA AcceptConns ==
  ASSUME RestType, ConversationType, NEW p \in syns, Accept(p)
  PROVE  /\ RestType' /\ Grown
         /\ DOMAIN conns' = DOMAIN conns \cup {Len(conns) + 1}
         /\ Len(conns) + 1 \notin DOMAIN conns
         /\ conns'[Len(conns) + 1].port = p
         /\ \A c \in DOMAIN conns : conns'[c] = conns[c]
<1> DEFINE n == Len(conns) + 1
           new == [port |-> p, state |-> "half", url |-> <<0, 0>>, reply |-> NoReply]
           syn == [conn |-> n, kind |-> "synack", seq |-> 0, fin |-> FALSE]
<1>1. conns \in Seq(Conn) /\ Len(conns) \in Nat /\ n \in ConnIds
  BY ConstantTypes DEF RestType, Accept, ConnIds
<1>2. new \in Conn
  <2>1. p \in Ports /\ <<0, 0>> \in Urls
    BY ConstantTypes DEF ConversationType, Urls
  <2>2. NoReply \in Reply
    BY DEF NoReply, Reply
  <2> QED
    BY <2>1, <2>2 DEF Conn
<1>3. syn \in Segment
  BY <1>1 DEF Segment
<1>4. conns' = Append(conns, new) /\ segments' = segments \cup {syn} /\ Len(conns) < MaxConnections
  BY DEF Accept
<1>5. /\ conns' \in Seq(Conn) /\ Len(conns') = n
      /\ \A c \in 1..Len(conns) : conns'[c] = conns[c]
      /\ conns'[n] = new
  BY <1>1, <1>2, <1>4, AppendProperties
<1>6. RestType'
  <2>1. UNCHANGED <<now, acknowledged, starts, requests>>
    BY DEF Accept, client
  <2>2. segments' \subseteq Segment /\ Len(conns') <= MaxConnections
    <3>1. segments' \subseteq Segment
      BY <1>3, <1>4 DEF RestType
    <3> QED
      BY <1>1, <1>4, <1>5, <3>1, ConstantTypes
  <2> QED
    BY <1>5, <2>1, <2>2 DEF RestType
<1>7. DOMAIN conns = 1..Len(conns) /\ DOMAIN conns' = 1..n
  BY <1>1, <1>5
<1> QED
  <2>1. Grown
    BY <1>1, <1>5, <1>7 DEF Grown, Served
  <2>2. DOMAIN conns' = DOMAIN conns \cup {n} /\ n \notin DOMAIN conns
    BY <1>1, <1>7
  <2> QED
    BY <1>5, <1>6, <2>1, <2>2

(* A connection c that changes to e.                                       *)
LEMMA ChangedConns ==
  ASSUME RestType, NEW c \in DOMAIN conns, NEW e \in Conn,
         conns' = [conns EXCEPT ![c] = e]
  PROVE  /\ conns' \in Seq(Conn) /\ Len(conns') = Len(conns)
         /\ DOMAIN conns' = DOMAIN conns
         /\ conns'[c] = e
         /\ \A d \in DOMAIN conns : d # c => conns'[d] = conns[d]
<1>1. conns \in Seq(Conn) /\ c \in 1..Len(conns) /\ DOMAIN conns = 1..Len(conns)
  BY DEF RestType
<1> QED
  BY <1>1, ExceptSeq

LEMMA ServeConns ==
  ASSUME RestType, WireInv, NEW q \in requests, NEW r \in Replies, Serve(q, r)
  PROVE  /\ RestType' /\ Grown
         /\ DOMAIN conns' = DOMAIN conns /\ q.conn \in DOMAIN conns
         /\ \A d \in DOMAIN conns : d # q.conn => conns'[d] = conns[d]
         /\ ~Served(q.conn) /\ conns'[q.conn].state = "replied"
         /\ conns'[q.conn].url = q.url /\ conns'[q.conn].reply = r
         /\ conns'[q.conn].port = conns[q.conn].port
         /\ segments' = segments \cup Stream(q.conn, r)
<1> DEFINE c == q.conn
           e == [port |-> conns[c].port, state |-> "replied", url |-> q.url, reply |-> r]
<1>1. c \in DOMAIN conns /\ c \in ConnIds /\ q.url \in Urls /\ r \in Reply
  BY ConstantsAssumption DEF WireInv, RestType
<1>2. conns[c] \in Conn
  BY <1>1 DEF RestType
<1>3. e \in Conn
  BY <1>1, <1>2 DEF Conn
<1>4. conns' = [conns EXCEPT ![c] = e]
  BY DEF Serve
<1>5. Stream(c, r) \subseteq Segment
  <2>1. r.size \in Nat /\ r.size > 0
    BY <1>1 DEF Reply
  <2>2. \A s \in Stream(c, r) : s \in [conn : {c}, kind : {"data", "close"}, seq : Nat, fin : BOOLEAN]
    <3>1. 1..(r.size - 1) \subseteq Nat /\ r.size + 1 \in Nat
      BY <2>1
    <3> QED
      BY <2>1, <3>1, Zenon DEF Stream
  <2> QED
    BY <1>1, <2>2 DEF Segment
<1>6. RestType'
  <2>1. UNCHANGED <<now, acknowledged, starts, requests>> /\ segments' = segments \cup Stream(c, r)
    BY DEF Serve, client
  <2>2. conns' \in Seq(Conn) /\ Len(conns') = Len(conns)
    BY <1>1, <1>3, <1>4, ChangedConns
  <2> QED
    BY <1>5, <2>1, <2>2 DEF RestType
<1>7. /\ DOMAIN conns' = DOMAIN conns /\ conns'[c] = e
      /\ \A d \in DOMAIN conns : d # c => conns'[d] = conns[d]
  BY <1>1, <1>3, <1>4, ChangedConns
<1>8. conns[c].state = "half" /\ segments' = segments \cup Stream(c, r)
  BY DEF Serve
<1> QED
  BY <1>1, <1>6, <1>7, <1>8 DEF Grown, Served

LEMMA DropConns ==
  ASSUME RestType, NEW c \in DOMAIN conns, Drop(c)
  PROVE  /\ RestType' /\ Grown
         /\ DOMAIN conns' = DOMAIN conns
         /\ \A d \in DOMAIN conns : /\ conns'[d].url = conns[d].url
                                   /\ conns'[d].reply = conns[d].reply
                                   /\ conns'[d].port = conns[d].port
         /\ \A s \in segments' \ segments : s.conn = c /\ s.kind = "rst"
<1> DEFINE e == [port |-> conns[c].port, state |-> "gone", url |-> conns[c].url,
                 reply |-> conns[c].reply]
           rst == [conn |-> c, kind |-> "rst", seq |-> 0, fin |-> FALSE]
<1>1. conns[c] \in Conn /\ c \in ConnIds
  BY ConstantTypes DEF RestType, ConnIds
<1>2. e \in Conn
  BY <1>1 DEF Conn
<1>3. conns' = [conns EXCEPT ![c] = e]
  <2>1. conns' = [conns EXCEPT ![c].state = "gone"]
    BY DEF Drop
  <2>2. [conns[c] EXCEPT !.state = "gone"] = e
    BY <1>1 DEF Conn
  <2> QED
    BY <2>1, <2>2 DEF RestType
<1>4. segments' = segments \/ segments' = segments \cup {rst}
  BY DEF Drop
<1>5. rst \in Segment
  BY <1>1 DEF Segment
<1>6. /\ conns' \in Seq(Conn) /\ Len(conns') = Len(conns)
      /\ DOMAIN conns' = DOMAIN conns /\ conns'[c] = e
      /\ \A d \in DOMAIN conns : d # c => conns'[d] = conns[d]
  BY <1>2, <1>3, ChangedConns
<1>7. RestType'
  <2>1. UNCHANGED <<now, acknowledged, starts, requests>>
    BY DEF Drop, client
  <2> QED
    BY <1>4, <1>5, <1>6, <2>1 DEF RestType
<1>8. \A d \in DOMAIN conns : /\ conns'[d].url = conns[d].url
                              /\ conns'[d].reply = conns[d].reply
                              /\ conns'[d].port = conns[d].port
                              /\ d # c => conns'[d].state = conns[d].state
  BY <1>6
<1> QED
  BY <1>4, <1>6, <1>7, <1>8 DEF Grown, Served

LEMMA TypeStep ==
  ASSUME TypeOK, WireInv, [Next]_vars
  PROVE  TypeOK'
<1>0. ConversationType /\ RestType
  BY TypeParts
<1>1. ASSUME StartPage PROVE TypeOK'
  <2>1. ConversationType'
    BY <1>0, <1>1, BeginType, ConstantTypes DEF StartPage, RestType
  <2>2. RestType'
    BY <1>0, <1>1, ConstantTypes DEF StartPage, RestType, server
  <2> QED
    BY <2>1, <2>2, TypeParts
<1>2. ASSUME Connect PROVE TypeOK'
  <2>1. ConversationType'
    BY <1>0, <1>2, ConstantTypes DEF Connect, ConversationType, Phases
  <2> QED
    BY <1>0, <1>2, <2>1, TypeParts DEF Connect, RestType, server
<1>3. ASSUME NameUnknown PROVE TypeOK'
  <2>1. ConversationType'
    BY <1>0, <1>3, EndType DEF NameUnknown, GiveUp, ConversationType, Phases
  <2> QED
    BY <1>0, <1>3, <2>1, TypeParts DEF NameUnknown, RestType, server
<1>4. ASSUME ResendSyn PROVE TypeOK'
  <2>1. ConversationType'
    BY <1>0, <1>4, ConstantTypes DEF ResendSyn, ConversationType, resolver
  <2> QED
    BY <1>0, <1>4, <2>1, TypeParts DEF ResendSyn, RestType, server
<1>5. ASSUME OutOfPatience PROVE TypeOK'
  <2>1. ConversationType'
    <3>1. raw \in Seq(Taken) /\ now \in Ports
      BY <1>0 DEF ConversationType, RestType
    <3> QED
      BY <1>0, <1>5, <3>1, FinishType DEF OutOfPatience
  <2> QED
    BY <1>0, <1>5, <2>1, TypeParts DEF OutOfPatience, RestType, server
<1>6. ASSUME NEW s \in segments, Receive(s) PROVE TypeOK'
  BY <1>6, ReceiveType
<1>7. ASSUME Answered \/ AskAgain PROVE TypeOK'
  <2>1. ConversationType'
    BY <1>0, <1>7, ConstantTypes DEF Answered, AskAgain, ConversationType, client
  <2> QED
    BY <1>0, <1>7, <2>1, TypeParts DEF Answered, AskAgain, RestType, client, server
<1>8. ASSUME Tick PROVE TypeOK'
  <2>1. now' \in Ports
    BY <1>0, <1>8, ConstantTypes DEF Tick, RestType, Ports
  <2>2. ConversationType'
    BY <1>0, <1>8, ConstantTypes DEF Tick, Capped, ConversationType
  <2> QED
    BY <1>0, <1>8, <2>1, <2>2, TypeParts DEF Tick, RestType, server
<1>9. ASSUME NEW p \in syns, Accept(p) PROVE TypeOK'
  <2>1. ConversationType'
    BY <1>0, <1>9 DEF Accept, ConversationType, client, resolver
  <2> QED
    BY <1>0, <1>9, <2>1, AcceptConns, TypeParts
<1>10. ASSUME NEW q \in requests, NEW r \in Replies, Serve(q, r) PROVE TypeOK'
  <2>1. ConversationType'
    BY <1>0, <1>10 DEF Serve, ConversationType, client, resolver
  <2> QED
    BY <1>0, <1>10, <2>1, ServeConns, TypeParts
<1>11. ASSUME NEW c \in DOMAIN conns, Drop(c) PROVE TypeOK'
  <2>1. ConversationType'
    BY <1>0, <1>11 DEF Drop, ConversationType, client, resolver
  <2> QED
    BY <1>0, <1>11, <2>1, DropConns, TypeParts
<1>12. ASSUME UNCHANGED vars PROVE TypeOK'
  <2>1. ConversationType' /\ RestType'
    BY <1>0, <1>12 DEF vars, client, resolver, server, ConversationType, RestType
  <2> QED
    BY <2>1, TypeParts
<1> QED
  BY <1>1, <1>2, <1>3, <1>4, <1>5, <1>6, <1>7, <1>8, <1>9, <1>10, <1>11, <1>12
  DEF Next, Poll

(* Requests leave on the connection whose opening was just received.       *)
LEMMA WireStep ==
  ASSUME TypeOK, WireInv, [Next]_vars
  PROVE  WireInv'
<1>0. ConversationType /\ RestType
  BY TypeParts
<1>1. ASSUME UNCHANGED server,
             \A q \in requests' \ requests : q.conn \in DOMAIN conns
      PROVE  WireInv'
  BY <1>1 DEF WireInv, Served, server
<1>2. ASSUME StartPage \/ Poll \/ Answered \/ AskAgain \/ Tick \/ UNCHANGED vars
      PROVE  UNCHANGED server /\ UNCHANGED requests
  BY <1>2 DEF StartPage, Poll, Connect, NameUnknown, ResendSyn, OutOfPatience,
              Answered, AskAgain, Tick, vars
<1>3. ASSUME NEW s \in segments, Receive(s) PROVE WireInv'
  <2>1. UNCHANGED server
    BY <1>3 DEF Receive
  <2>2. requests' = requests \/ requests' = requests \cup {[conn |-> s.conn, url |-> url]}
    BY <1>3 DEF Receive, ReceiveReset, ReceiveSynAck, ReceiveData
  <2>3. s.conn \in DOMAIN conns
    BY DEF WireInv
  <2> QED
    BY <1>1, <2>1, <2>2, <2>3
<1>4. ASSUME NEW p \in syns, Accept(p) PROVE WireInv'
  <2>1. /\ requests' = requests
        /\ segments' = segments \cup
             {[conn |-> Len(conns) + 1, kind |-> "synack", seq |-> 0, fin |-> FALSE]}
    BY <1>4 DEF Accept
  <2>2. Grown /\ Len(conns) + 1 \in DOMAIN conns'
    BY <1>0, <1>4, AcceptConns
  <2> QED
    BY <2>1, <2>2 DEF WireInv, Grown, Served
<1>5. ASSUME NEW q \in requests, NEW r \in Replies, Serve(q, r) PROVE WireInv'
  <2>1. requests' = requests
    BY <1>5 DEF Serve
  <2>2. /\ Grown /\ DOMAIN conns' = DOMAIN conns /\ q.conn \in DOMAIN conns
        /\ conns'[q.conn].state = "replied" /\ conns'[q.conn].reply = r
        /\ segments' = segments \cup Stream(q.conn, r)
    BY <1>0, <1>5, ServeConns
  <2>3. \A s \in Stream(q.conn, r) : s.conn = q.conn /\ (s.kind = "data" => s.seq \in 1..r.size)
    <3>1. r.size \in Nat /\ r.size > 0
      BY ConstantsAssumption DEF Reply
    <3>2. ASSUME NEW s \in Stream(q.conn, r)
          PROVE  /\ s.conn = q.conn /\ s.kind \in {"data", "close"}
                 /\ s.kind = "data" => s.seq \in 1..(r.size - 1) \cup {r.size}
      BY <3>2 DEF Stream
    <3> QED
      BY <3>1, <3>2
  <2> QED
    BY <2>1, <2>2, <2>3 DEF WireInv, Grown, Served
<1>6. ASSUME NEW c \in DOMAIN conns, Drop(c) PROVE WireInv'
  <2>1. requests' = requests
    BY <1>6 DEF Drop
  <2>2. /\ Grown /\ DOMAIN conns' = DOMAIN conns
        /\ \A s \in segments' \ segments : s.conn = c /\ s.kind = "rst"
    BY <1>0, <1>6, DropConns
  <2> QED
    BY <2>1, <2>2 DEF WireInv, Grown, Served
<1> QED
  BY <1>1, <1>2, <1>3, <1>4, <1>5, <1>6 DEF Next

LEMMA InitTypes == Init => TypeOK /\ WireInv
<1> SUFFICES ASSUME Init PROVE TypeOK /\ WireInv
  OBVIOUS
<1>1. TypeOK
  BY ConstantTypes DEF Init, TypeOK, Ports, NoConn
<1>2. WireInv
  BY DEF Init, WireInv
<1> QED
  BY <1>1, <1>2

(* In every reachable state the fetch, the resolver, the wire and the      *)
(* server hold values of their types: in particular no more redirects are  *)
(* followed and no more questions asked than the limits allow.             *)
THEOREM TypeCorrect == Spec => []TypeOK
<1>1. TypeOK /\ WireInv /\ [Next]_vars => (TypeOK /\ WireInv)'
  BY TypeStep, WireStep
<1> QED
  BY InitTypes, <1>1, PTL DEF Spec

-----------------------------------------------------------------------------
(* The page.                                                               *)

Open == phase \in {"reading", "done"}

Takes(got, c) == \A i \in DOMAIN got : got[i] = [conn |-> c, seq |-> i]

(* What is kept is the beginning of one answer, of a connection that was   *)
(* answered, and nothing before a connection is open.                      *)
TakenInv ==
  /\ phase \in {"idle", "resolving", "connecting"} => raw = <<>>
  /\ Open => /\ acknowledged.conn \in DOMAIN conns
             /\ acknowledged.next = Len(raw) + 1
             /\ Takes(raw, acknowledged.conn)
             /\ raw # <<>> => /\ Served(acknowledged.conn)
                              /\ Len(raw) <= conns[acknowledged.conn].reply.size
  /\ phase = "done" => raw # <<>> /\ ~Unusable(raw)

(* A connection has the port of a SYN, a SYN that of this conversation or  *)
(* of an earlier one, and the open connection that of this one.            *)
PortsInv ==
  /\ \A c \in DOMAIN conns : conns[c].port \in syns
  /\ IF phase = "idle" THEN syns = {} ELSE syns \subseteq used \cup {port}
  /\ Open => conns[acknowledged.conn].port = port

(* On a port that no earlier conversation had, only the page asked for     *)
(* last is asked for and answered.                                         *)
UrlInv ==
  port \notin used =>
    /\ \A q \in requests : conns[q.conn].port = port => q.url = url
    /\ \A s \in segments :
         s.kind \in {"data", "close"} /\ conns[s.conn].port = port => conns[s.conn].url = url
    /\ Open /\ raw # <<>> => conns[acknowledged.conn].url = url

PageInv == TakenInv /\ PortsInv /\ UrlInv

(* A new conversation forgets what was kept, and no connection has its     *)
(* port unless an earlier one had it.                                      *)
LEMMA BeginPage ==
  ASSUME PageInv, WireInv, NEW r, Begin(r), UNCHANGED <<server, requests>>
  PROVE  PageInv'
<1>1. phase' \in {"resolving", "connecting", "failed"} /\ raw' = <<>>
  BY DEF Begin
<1>2. TakenInv'
  BY <1>1 DEF TakenInv, Open
<1>3. /\ port' = LocalPort(r) /\ syns \subseteq syns' /\ syns' \subseteq syns \cup {port'}
      /\ used' = IF phase = "idle" THEN used ELSE used \cup {port}
      /\ UNCHANGED <<segments, conns, requests>>
  BY DEF Begin, Ask, server
<1>4. syns \subseteq used'
  BY <1>3 DEF PageInv, PortsInv
<1>5. PortsInv'
  BY <1>1, <1>3, <1>4 DEF PageInv, PortsInv, Open
<1>6. UrlInv'
  <2>1. \A c \in DOMAIN conns : port' \notin used' => conns'[c].port # port'
    BY <1>3, <1>4 DEF PageInv, PortsInv
  <2> QED
    BY <1>1, <1>3, <2>1 DEF UrlInv, WireInv, Open
<1> QED
  BY <1>2, <1>5, <1>6 DEF PageInv

LEMMA FailPage ==
  ASSUME PageInv, NEW got, End("failed", got), UNCHANGED <<server, requests, starts>>,
         phase # "idle"
  PROVE  PageInv'
<1>1. phase' = "failed" /\ UNCHANGED <<redirects, port, used, syns, segments, conns, requests, starts>>
  BY DEF End, server
<1>2. TakenInv'
  BY <1>1 DEF TakenInv, Open
<1>3. PortsInv'
  BY <1>1 DEF PageInv, PortsInv, Open
<1>4. UrlInv'
  BY <1>1 DEF PageInv, UrlInv, Open, url
<1> QED
  BY <1>2, <1>3, <1>4 DEF PageInv

(* What the fetch must know of what it has kept when it goes on reading    *)
(* or shows it.                                                            *)
Kept(got, ack) ==
  /\ ack.conn \in DOMAIN conns
  /\ ack.next = Len(got) + 1
  /\ Takes(got, ack.conn)
  /\ conns[ack.conn].port = port
  /\ got # <<>> => /\ Served(ack.conn)
                   /\ Len(got) <= conns[ack.conn].reply.size
                   /\ port \notin used => conns[ack.conn].url = url

LEMMA OpenPage ==
  ASSUME PageInv, phase # "idle", NEW got, raw' = got, Kept(got, acknowledged'),
         \/ phase' = "reading"
         \/ phase' = "done" /\ got # <<>> /\ ~Unusable(got),
         UNCHANGED <<server, requests, starts, redirects, port, used, syns>>
  PROVE  PageInv'
<1>1. UNCHANGED <<segments, conns>> /\ phase' \in {"reading", "done"}
  BY DEF server
<1>2. TakenInv'
  BY <1>1 DEF TakenInv, Open, Kept, Takes, Served, Unusable, ReplyOf
<1>3. PortsInv'
  BY <1>1 DEF PageInv, PortsInv, Kept
<1>4. UrlInv'
  BY <1>1 DEF PageInv, UrlInv, Kept, url
<1> QED
  BY <1>2, <1>3, <1>4 DEF PageInv

LEMMA FinishPage ==
  ASSUME PageInv, WireInv, phase # "idle", NEW got, Finish(got),
         got # <<>> => Kept(got, acknowledged'),
         UNCHANGED <<server, requests, starts>>
  PROVE  PageInv'
<1>1. CASE GiveUp
  BY <1>1, FailPage DEF GiveUp
<1>2. CASE Begin(redirects + 1)
  BY <1>2, BeginPage
<1>3. CASE End("failed", got)
  BY <1>3, FailPage
<1>4. CASE got # <<>> /\ ~Unusable(got) /\ End("done", got)
  <2>1. raw' = got /\ phase' = "done" /\ UNCHANGED <<redirects, port, used, syns>>
    BY <1>4 DEF End
  <2> QED
    BY <1>4, <2>1, OpenPage
<1> QED
  BY <1>1, <1>2, <1>3, <1>4 DEF Finish

LEMMA ReceivePage ==
  ASSUME TypeOK, WireInv, PageInv, NEW s \in segments, Receive(s)
  PROVE  PageInv'
<1>0. phase # "idle" /\ Mine(s) /\ UNCHANGED <<server, starts>> /\ s.conn \in DOMAIN conns
  BY DEF Receive, Busy, WireInv
<1>1. CASE ReceiveReset(s)
  BY <1>0, <1>1, FailPage DEF ReceiveReset, GiveUp, Receive
<1>2. CASE ReceiveSynAck(s)
  <2>1. /\ phase = "connecting" /\ phase' = "reading" /\ raw' = <<>> /\ raw = <<>>
        /\ acknowledged' = [conn |-> s.conn, next |-> 1]
        /\ requests' = requests \cup {[conn |-> s.conn, url |-> url]}
        /\ UNCHANGED <<redirects, port, used, syns, segments, conns, starts>>
    BY <1>0, <1>2 DEF ReceiveSynAck, PageInv, TakenInv, server
  <2>2. TakenInv'
    BY <1>0, <2>1 DEF TakenInv, Open, Takes
  <2>3. PortsInv'
    BY <1>0, <2>1 DEF PageInv, PortsInv, Mine
  <2>4. UrlInv'
    <3>1. url' = url
      BY <2>1 DEF url
    <3>2. \A q \in requests' : q \in requests \/ q.url = url
      BY <2>1
    <3> QED
      BY <2>1, <3>1, <3>2 DEF PageInv, UrlInv
  <2> QED
    BY <2>2, <2>3, <2>4 DEF PageInv
<1>3. CASE ReceiveData(s)
  <2> DEFINE next == [conn |-> s.conn, seq |-> s.seq]
             got == IF InOrder(s) THEN Append(raw, next) ELSE raw
  <2>1. /\ IF Len(got) > Limit + HeadRoom THEN GiveUp
           ELSE IF s.fin THEN Finish(got)
           ELSE /\ raw' = got
                /\ UNCHANGED <<phase, redirects, port, used, syns>>
        /\ phase = "reading" /\ UNCHANGED requests
        /\ s.kind \in {"data", "close"}
        /\ InOrder(s) => acknowledged' = [acknowledged EXCEPT !.next = @ + 1]
        /\ ~InOrder(s) => acknowledged' = acknowledged
    BY <1>3 DEF ReceiveData
  <2>2. /\ acknowledged \in [conn : 0..MaxConnections, next : Nat]
        /\ raw \in Seq(Taken) /\ next \in Taken
    BY SegmentType, TypeParts DEF RestType, ConversationType, Taken
  <2>3. Kept(raw, acknowledged)
    BY <2>1 DEF PageInv, TakenInv, PortsInv, UrlInv, Kept, Open
  <2>4. Kept(got, acknowledged')
    <3>1. CASE InOrder(s)
      <4>1. /\ s.kind = "data" /\ s.conn = acknowledged.conn /\ s.seq = Len(raw) + 1
            /\ acknowledged'.conn = s.conn /\ acknowledged'.next = Len(raw) + 2
        BY <2>1, <2>2, <2>3, <3>1 DEF InOrder, Kept
      <4>2. /\ got \in Seq(Taken) /\ Len(got) = Len(raw) + 1
            /\ \A i \in 1..Len(raw) : got[i] = raw[i]
            /\ got[Len(raw) + 1] = next
        BY <2>2, <3>1, AppendProperties
      <4>3. Takes(got, s.conn)
        BY <2>2, <2>3, <4>1, <4>2 DEF Takes, Kept
      <4>4. Served(s.conn) /\ Len(got) <= conns[s.conn].reply.size
        BY <4>1, <4>2 DEF WireInv
      <4>5. port \notin used => conns[s.conn].url = url
        BY <1>0, <4>1 DEF PageInv, UrlInv, Mine
      <4> QED
        BY <1>0, <2>2, <4>1, <4>2, <4>3, <4>4, <4>5 DEF Kept, Mine
    <3>2. CASE ~InOrder(s)
      BY <2>1, <2>3, <3>2
    <3> QED
      BY <3>1, <3>2
  <2>5. CASE GiveUp
    BY <1>0, <2>1, <2>5, FailPage DEF GiveUp
  <2>6. CASE Finish(got)
    BY <1>0, <2>1, <2>4, <2>6, FinishPage
  <2>7. CASE raw' = got /\ UNCHANGED <<phase, redirects, port, used, syns>>
    BY <1>0, <2>1, <2>4, <2>7, OpenPage
  <2> QED
    BY <2>1, <2>5, <2>6, <2>7
<1> QED
  BY <1>1, <1>2, <1>3 DEF Receive

(* Connections that only grow leave what was kept as it was.               *)
LEMMA GrownPage ==
  ASSUME raw \in Seq(Taken), PageInv, Grown, UNCHANGED <<client, starts, used>>,
         PortsInv', UrlInv'
  PROVE  PageInv'
<1>1. UNCHANGED <<phase, raw, acknowledged>>
  BY DEF client
<1>2. Open /\ raw # <<>> => raw[1].conn = acknowledged.conn
  <2>1. CASE Open /\ raw # <<>>
    <3>1. 1 \in DOMAIN raw
      BY <2>1
    <3> QED
      BY <2>1, <3>1 DEF PageInv, TakenInv, Takes
  <2> QED
    BY <2>1
<1>3. TakenInv'
  BY <1>1, <1>2 DEF PageInv, TakenInv, Grown, Served, Open, Takes, Unusable, ReplyOf
<1> QED
  BY <1>3 DEF PageInv

LEMMA PageStep ==
  ASSUME TypeOK, WireInv, PageInv, [Next]_vars
  PROVE  PageInv'
<1>0. ConversationType /\ RestType /\ raw \in Seq(Taken)
  BY TypeParts DEF ConversationType
<1>1. ASSUME StartPage PROVE PageInv'
  BY <1>1, BeginPage DEF StartPage
<1>2. ASSUME Connect PROVE PageInv'
  <2>1. /\ phase = "resolving" /\ phase' = "connecting" /\ syns' = syns \cup {port}
        /\ UNCHANGED <<redirects, port, acknowledged, raw, starts, used, requests,
                        segments, conns>>
    BY <1>2 DEF Connect, server
  <2>2. TakenInv'
    BY <2>1 DEF PageInv, TakenInv, Open
  <2>3. PortsInv'
    BY <2>1 DEF PageInv, PortsInv, Open
  <2>4. UrlInv'
    BY <2>1 DEF PageInv, UrlInv, Open, url
  <2> QED
    BY <2>2, <2>3, <2>4 DEF PageInv
<1>3. ASSUME NameUnknown PROVE PageInv'
  BY <1>3, FailPage DEF NameUnknown, GiveUp
<1>4. ASSUME ResendSyn PROVE PageInv'
  <2>1. /\ phase = "connecting" /\ syns' = syns \cup {port}
        /\ UNCHANGED <<phase, redirects, port, acknowledged, raw, starts, used, requests,
                        segments, conns>>
    BY <1>4 DEF ResendSyn, SynDue, server
  <2>2. TakenInv'
    BY <2>1 DEF PageInv, TakenInv, Open
  <2>3. PortsInv'
    BY <2>1 DEF PageInv, PortsInv, Open
  <2>4. UrlInv'
    BY <2>1 DEF PageInv, UrlInv, Open, url
  <2> QED
    BY <2>2, <2>3, <2>4 DEF PageInv
<1>5. ASSUME OutOfPatience PROVE PageInv'
  <2>1. /\ Busy /\ Finish(raw)
        /\ UNCHANGED <<acknowledged, starts, requests, server>>
    BY <1>5 DEF OutOfPatience
  <2>2. phase # "idle" /\ (raw # <<>> => Kept(raw, acknowledged'))
    BY <2>1 DEF Busy, PageInv, TakenInv, PortsInv, UrlInv, Kept, Open
  <2> QED
    BY <2>1, <2>2, FinishPage
<1>6. ASSUME NEW s \in segments, Receive(s) PROVE PageInv'
  BY <1>6, ReceivePage
<1>7. ASSUME UNCHANGED <<phase, redirects, port, acknowledged, raw, starts, used, syns,
                         requests, segments, conns>>
      PROVE  PageInv'
  <2>1. TakenInv'
    BY <1>7 DEF PageInv, TakenInv, Open, Takes, Served, Unusable, ReplyOf
  <2>2. PortsInv'
    BY <1>7 DEF PageInv, PortsInv, Open
  <2>3. UrlInv'
    BY <1>7 DEF PageInv, UrlInv, Open, url
  <2> QED
    BY <2>1, <2>2, <2>3 DEF PageInv
<1>8. ASSUME NEW p \in syns, Accept(p) PROVE PageInv'
  <2>1. UNCHANGED <<client, starts, used, syns, requests>>
    BY <1>8 DEF Accept
  <2>2. /\ Grown /\ DOMAIN conns' = DOMAIN conns \cup {Len(conns) + 1}
        /\ conns'[Len(conns) + 1].port = p
        /\ \A c \in DOMAIN conns : conns'[c] = conns[c]
    BY <1>0, <1>8, AcceptConns
  <2>3. segments' = segments \cup
          {[conn |-> Len(conns) + 1, kind |-> "synack", seq |-> 0, fin |-> FALSE]}
    BY <1>8 DEF Accept
  <2>4. PortsInv'
    BY <2>1, <2>2 DEF PageInv, PortsInv, TakenInv, Grown, Open, client
  <2>5. UrlInv'
    <3>1. url' = url /\ UNCHANGED <<port, phase, raw, acknowledged>>
      BY <2>1 DEF client, url
    <3> QED
      BY <2>1, <2>2, <2>3, <3>1 DEF PageInv, UrlInv, TakenInv, WireInv, Open
  <2> QED
    BY <1>0, <2>1, <2>2, <2>4, <2>5, GrownPage
<1>9. ASSUME NEW q \in requests, NEW r \in Replies, Serve(q, r) PROVE PageInv'
  <2>1. UNCHANGED <<client, starts, used, syns, requests>>
    BY <1>9 DEF Serve
  <2>2. /\ Grown /\ DOMAIN conns' = DOMAIN conns
        /\ ~Served(q.conn) /\ conns'[q.conn].url = q.url
        /\ conns'[q.conn].port = conns[q.conn].port
        /\ \A d \in DOMAIN conns : d # q.conn => conns'[d] = conns[d]
        /\ segments' = segments \cup Stream(q.conn, r)
    BY <1>0, <1>9, ServeConns
  <2>3. \A s \in Stream(q.conn, r) : s.conn = q.conn
    BY DEF Stream
  <2>4. PortsInv'
    BY <2>1, <2>2 DEF PageInv, PortsInv, TakenInv, Grown, Open, client
  <2>5. UrlInv'
    <3>1. url' = url /\ UNCHANGED <<port, phase, raw, acknowledged>>
      BY <2>1 DEF client, url
    <3>2. SUFFICES ASSUME port \notin used PROVE UrlInv'
      BY <2>1, <3>1 DEF UrlInv
    <3>3. \A x \in requests' : conns'[x.conn].port = port => x.url = url
      BY <2>1, <2>2, <3>2 DEF PageInv, UrlInv, WireInv, Grown
    <3>4. \A s \in segments' :
            s.kind \in {"data", "close"} /\ conns'[s.conn].port = port => conns'[s.conn].url = url
      BY <2>2, <2>3, <3>2 DEF PageInv, UrlInv, WireInv
    <3>5. Open /\ raw # <<>> => conns'[acknowledged.conn].url = url
      BY <2>2, <3>2 DEF PageInv, UrlInv, TakenInv
    <3> QED
      BY <3>1, <3>3, <3>4, <3>5 DEF UrlInv, Open
  <2> QED
    BY <1>0, <2>1, <2>2, <2>4, <2>5, GrownPage
<1>10. ASSUME NEW c \in DOMAIN conns, Drop(c) PROVE PageInv'
  <2>1. UNCHANGED <<client, starts, used, syns, requests>>
    BY <1>10 DEF Drop
  <2>2. /\ Grown /\ DOMAIN conns' = DOMAIN conns
        /\ \A d \in DOMAIN conns : /\ conns'[d].url = conns[d].url
                                  /\ conns'[d].port = conns[d].port
        /\ \A s \in segments' \ segments : s.conn = c /\ s.kind = "rst"
    BY <1>0, <1>10, DropConns
  <2>3. PortsInv'
    BY <2>1, <2>2 DEF PageInv, PortsInv, TakenInv, Open, client
  <2>4. UrlInv'
    <3>1. url' = url /\ UNCHANGED <<port, phase, raw, acknowledged>>
      BY <2>1 DEF client, url
    <3> QED
      BY <2>1, <2>2, <3>1 DEF PageInv, UrlInv, TakenInv, WireInv, Open
  <2> QED
    BY <1>0, <2>1, <2>2, <2>3, <2>4, GrownPage
<1>11. ASSUME Answered \/ AskAgain \/ Tick \/ UNCHANGED vars PROVE PageInv'
  BY <1>7, <1>11 DEF Answered, AskAgain, Tick, vars, client, server
<1> QED
  BY <1>1, <1>2, <1>3, <1>4, <1>5, <1>6, <1>8, <1>9, <1>10, <1>11 DEF Next, Poll

LEMMA PageInvariant == Spec => [](TypeOK /\ WireInv /\ PageInv)
<1>1. Init => PageInv
  BY DEF Init, PageInv, TakenInv, PortsInv, UrlInv, Open
<1>2. TypeOK /\ WireInv /\ PageInv /\ [Next]_vars => (TypeOK /\ WireInv /\ PageInv)'
  BY TypeStep, WireStep, PageStep
<1> QED
  BY InitTypes, <1>1, <1>2, PTL DEF Spec

(* A page whose length is announced is shown only if every segment of one  *)
(* answer was taken, once and in order: the order check of Fetch::step     *)
(* keeps a beginning of the answer, and the length check of finish the     *)
(* whole of it.                                                            *)
THEOREM PagesAreWhole == Spec => []WholePage
<1>1. TypeOK /\ WireInv /\ PageInv => WholePage
  <2> SUFFICES ASSUME TypeOK, PageInv, phase = "done", ReplyOf(raw).framed
               PROVE  raw = Whole(raw[1].conn)
    BY DEF WholePage
  <2> DEFINE c == acknowledged.conn
  <2>1. raw \in Seq(Taken) /\ raw # <<>> /\ conns \in Seq(Conn) /\ c \in DOMAIN conns
    BY TypeParts DEF ConversationType, RestType, PageInv, TakenInv, Open
  <2>2. /\ Takes(raw, c) /\ Len(raw) <= conns[c].reply.size
        /\ ~(ReplyOf(raw).framed /\ Len(raw) < ReplyOf(raw).size)
    BY <2>1 DEF PageInv, TakenInv, Open, Unusable
  <2>3. raw[1].conn = c
    BY <2>1, <2>2 DEF Takes
  <2>4. conns[c].reply.size \in Nat
    <3>1. conns[c] \in Conn
      BY <2>1
    <3>2. conns[c].reply \in Reply
      BY <3>1 DEF Conn
    <3> QED
      BY <3>2 DEF Reply
  <2>5. Len(raw) = conns[c].reply.size
    BY <2>1, <2>2, <2>3, <2>4 DEF ReplyOf
  <2>6. raw = [i \in 1..Len(raw) |-> raw[i]]
    BY <2>1
  <2> QED
    BY <2>1, <2>2, <2>3, <2>5, <2>6 DEF Takes, Whole
<1> QED
  BY PageInvariant, <1>1, PTL

(* The page shown is the answer to the page asked for, or to the redirect  *)
(* that was followed last, unless the local port served a conversation     *)
(* before: the two ports that Fetch::step compares are enough.             *)
THEOREM PagesAreRight == Spec => []RightPage
<1>1. TypeOK /\ WireInv /\ PageInv => RightPage
  <2> SUFFICES ASSUME TypeOK, PageInv, phase = "done", port \notin used
               PROVE  conns[raw[1].conn].url = url
    BY DEF RightPage
  <2>1. raw \in Seq(Taken) /\ raw # <<>> /\ Takes(raw, acknowledged.conn)
    BY TypeParts DEF ConversationType, PageInv, TakenInv, Open
  <2>2. raw[1].conn = acknowledged.conn
    BY <2>1 DEF Takes
  <2> QED
    BY <2>1, <2>2 DEF PageInv, UrlInv, Open
<1> QED
  BY PageInvariant, <1>1, PTL
=============================================================================
