------------------------------ MODULE KernelNet ------------------------------
(***************************************************************************)
(* Names and addresses for grenOS: the stack's ARP table and the datagrams *)
(* it keeps (kernel/src/net.rs), the DHCP client and the resolvers         *)
(* (dhcp.rs), on a wire that loses, delays, repeats and reorders.  The     *)
(* main loop takes in every frame, then polls the clients one after the    *)
(* other; here they go in any order, which is one order more.              *)
(*                                                                         *)
(* An address is who gave it or whose it is: a DHCP server, a name.  What  *)
(* carries it to the wire goes through one router.                         *)
(***************************************************************************)
EXTENDS Naturals, SequencesExt

CONSTANTS Resolvers,      \* the browser's, the update check's, the installer's
          HostNames,      \* names that may be asked for
          DhcpServers,
          NamingServers,  \* those of them whose answers name a router and a name server
          QueryIds,       \* identifiers of questions, of which one is drawn
          Tries,          \* TRIES
          DatagramLimit,  \* 8 in the code
          ArpLimit,       \* 16 in the code
          Neighbours      \* cards on the wire besides the router

ASSUME NetAssumption ==
    /\ NamingServers \subseteq DhcpServers /\ QueryIds \subseteq Nat /\ 0 \in QueryIds
    /\ {Tries, DatagramLimit, ArpLimit} \subseteq Nat \ {0}

VARIABLES dhcp,      \* state, server offered by, tries
          stack,     \* its address, ARP table and datagrams kept
          resolver,  \* of each resolver: asking, answer, failed, xid, tries
          air,       \* the frames that may still come in
          reused     \* history: a question was given a number already in use

netVars == <<dhcp, stack, resolver, air, reused>>

Nobody == "nobody"
Router == "router"
NoName == "no name"

\* A frame: what it is, from whom, the question it answers and what it says.
Frame(kind, who, id, says) == [kind |-> kind, who |-> who, id |-> id, says |-> says]
Whois(who) == Frame("arp", who, 0, NoName)
ToDhcp(kind, s) == Frame(kind, s, 0, NoName)
Stray == Frame("stray", Nobody, 0, NoName)
DhcpKinds == {"offer", "ack", "nak"}

NetInit ==
    /\ dhcp = [state |-> "Asking", offered |-> Nobody, tries |-> 1]
    /\ stack = [ip |-> Nobody, arp |-> <<>>, datagrams |-> <<>>]
    /\ resolver = [r \in Resolvers |->
                      [asking |-> NoName, answer |-> NoName, failed |-> FALSE, xid |-> 0, tries |-> 0]]
    /\ air = {ToDhcp("offer", s) : s \in DhcpServers}
    /\ reused = FALSE

(***************************************************************************)
(* The stack                                                               *)
(***************************************************************************)

\* The oldest goes when there is one too many.
Kept(q, limit) == IF Len(q) > limit THEN Tail(q) ELSE q

\* retain: what is left of the datagrams without these.
Without(q, taken) == FoldLeft(LAMBDA kept, f : IF f \in taken THEN kept ELSE Append(kept, f), <<>>, q)

\* learn: an entry is renewed where it stands.
Learnt(table, who) ==
    IF \E i \in DOMAIN table : table[i].who = who
    THEN [i \in DOMAIN table |-> IF table[i].who = who THEN [table[i] EXCEPT !.fresh = TRUE] ELSE table[i]]
    ELSE Kept(Append(table, [who |-> who, fresh |-> TRUE]), ArpLimit)

\* known, for the next hop.
Known == \E i \in DOMAIN stack.arp : stack.arp[i] = [who |-> Router, fresh |-> TRUE]
HasDns == stack.ip \in NamingServers

\* send_ipv4: the packet, or nothing but the question who has the next hop.
Sent(answers) == IF Known THEN answers ELSE {Whois(Router)}

\* poll, on_arp, on_ipv4: a frame comes in.
Receive ==
    /\ \E f \in air \cup {Stray} \cup {Whois(n) : n \in Neighbours} :
          /\ stack' = IF f.kind = "arp" THEN [stack EXCEPT !.arp = Learnt(@, f.who)]
                      ELSE [stack EXCEPT !.datagrams = Kept(Append(@, f), DatagramLimit)]
    /\ UNCHANGED <<dhcp, resolver, air, reused>>

\* A frame will not come again, or never came.
Lose == \E f \in air : air' = air \ {f} /\ UNCHANGED <<dhcp, stack, resolver, reused>>

\* ARP_LIFE goes by.
Expire ==
    /\ \E i \in DOMAIN stack.arp : stack.arp[i].fresh /\ stack' = [stack EXCEPT !.arp[i].fresh = FALSE]
    /\ UNCHANGED <<dhcp, resolver, air, reused>>

(***************************************************************************)
(* DHCP                                                                    *)
(***************************************************************************)
Going(state) == state \in {"Asking", "Confirming"}

\* Mutant: an offer is taken whenever it comes.
Offered_Always(d, f) == f.kind = "offer"

Offered(d, f) == f.kind = "offer" /\ d.state = "Asking"

\* on_answer.
OnAnswer(d, f) ==
    IF Offered(d, f) THEN [state |-> "Confirming", offered |-> f.who, tries |-> 1]
    ELSE IF f.kind = "ack" THEN [d EXCEPT !.state = "Bound"]
    ELSE IF f.kind = "nak" THEN [d EXCEPT !.state = "Failed"]
    ELSE d

\* What the servers say to discover and to request.
Discover == {ToDhcp("offer", s) : s \in DhcpServers}
Request(s) == {ToDhcp("ack", s), ToDhcp("nak", s)}

\* poll: the answers in the order they came, then another try when nothing
\* has come for RETRY.  OnAnswer passes over what is not for DHCP.
DhcpPoll(late) ==
    LET after == FoldLeft(OnAnswer, dhcp, stack.datagrams)
        acks == {i \in DOMAIN stack.datagrams : stack.datagrams[i].kind = "ack"}
        last == stack.datagrams[Max(acks)]
        rest == Without(stack.datagrams, {f \in ToSet(stack.datagrams) : f.kind \in DhcpKinds})
    IN  IF ~Going(dhcp.state)
        THEN stack' = [stack EXCEPT !.datagrams = rest] /\ UNCHANGED <<dhcp, resolver, air, reused>>
        ELSE /\ late => after = dhcp
             /\ stack' = [stack EXCEPT !.datagrams = rest, !.ip = IF acks = {} THEN @ ELSE last.who]
             /\ dhcp' = IF ~late \/ ~Going(after.state) THEN after
                        ELSE IF after.tries >= Tries THEN [after EXCEPT !.state = "Failed"]
                        ELSE [after EXCEPT !.tries = @ + 1]
             /\ \E reply \in Request(after.offered) :
                   air' = air \cup (IF dhcp' = dhcp THEN {}
                                    ELSE IF after.state = "Confirming" /\ Going(dhcp'.state) THEN {reply}
                                    ELSE IF dhcp'.state = "Asking" THEN Discover
                                    ELSE IF acks # {} /\ last.who \in NamingServers THEN {Whois(Router)} ELSE {})
             /\ UNCHANGED <<resolver, reused>>

(***************************************************************************)
(* Names                                                                   *)
(***************************************************************************)

\* Numbers that have been given: the one a resolver starts with, those of the
\* questions asked and of the answers that may still come.
InUse == {0} \cup {resolver[q].xid : q \in Resolvers} \cup {f.id : f \in air \cup ToSet(stack.datagrams)}

\* send: a name server not known yet is a failure, a next hop not known a try.
Query(s) ==
    IF ~HasDns THEN [s EXCEPT !.failed = TRUE] ELSE [s EXCEPT !.tries = @ + 1]
Replies(s, says) == IF HasDns THEN Sent({Frame("dns", Nobody, s.xid, says)}) ELSE {}

\* ask: sixteen bits of rand::bytes, which may be in use.
Ask(r, name) ==
    \E id \in QueryIds, says \in {name, NoName} :
        LET s == [asking |-> name, answer |-> NoName, failed |-> FALSE, xid |-> id, tries |-> 0]
        IN  /\ resolver' = [resolver EXCEPT ![r] = Query(s)]
            /\ air' = air \cup Replies(s, says)
            /\ reused' = (reused \/ id \in InUse)
            /\ UNCHANGED <<dhcp, stack>>

\* Mutant: every answer of the name server is taken.
Ours_Any(s) == {f \in ToSet(stack.datagrams) : f.kind = "dns"}

Ours(s) == {f \in ToSet(stack.datagrams) : f.kind = "dns" /\ f.id = s.xid}

\* poll: our answers only; the first that holds an address, or another try.
ResolverPoll(r, late) ==
    LET s == resolver[r]
        ours == Ours(s)
        good == {i \in DOMAIN stack.datagrams : stack.datagrams[i] \in ours /\ stack.datagrams[i].says # NoName}
    IN  /\ s.asking # NoName /\ s.answer = NoName
        /\ stack' = [stack EXCEPT !.datagrams = Without(@, ours)]
        /\ \/ /\ good # {}
              /\ resolver' = [resolver EXCEPT ![r].answer = stack.datagrams[Min(good)].says]
              /\ UNCHANGED air
           \/ /\ good = {} /\ ~late /\ UNCHANGED <<resolver, air>>
           \/ /\ good = {} /\ late /\ s.tries >= Tries
              /\ resolver' = [resolver EXCEPT ![r].failed = TRUE, ![r].asking = NoName]
              /\ UNCHANGED air
           \/ /\ good = {} /\ late /\ s.tries < Tries
              /\ resolver' = [resolver EXCEPT ![r] = Query(s)]
              /\ \E says \in {s.asking, NoName} : air' = air \cup Replies(s, says)
        /\ UNCHANGED <<dhcp, reused>>

NetNext ==
    \/ Receive \/ Lose \/ Expire
    \/ \E late \in BOOLEAN : DhcpPoll(late)
    \/ \E r \in Resolvers, name \in HostNames : Ask(r, name)
    \/ \E r \in Resolvers, late \in BOOLEAN : ResolverPoll(r, late)

NetSpec == NetInit /\ [][NetNext]_netVars

(***************************************************************************)
(* Properties                                                              *)
(***************************************************************************)
Addresses == DhcpServers \cup {Nobody}
NetTypeOK ==
    /\ dhcp.state \in {"Asking", "Confirming", "Bound", "Failed"}
    /\ dhcp.offered \in Addresses /\ stack.ip \in Addresses /\ dhcp.tries \in 1..Tries
    /\ reused \in BOOLEAN /\ Len(stack.arp) <= ArpLimit /\ Len(stack.datagrams) <= DatagramLimit
    /\ \A r \in Resolvers :
          /\ {resolver[r].asking, resolver[r].answer} \subseteq HostNames \cup {NoName}
          /\ resolver[r].xid \in QueryIds /\ resolver[r].tries \in 0..Tries

\* A resolver answers the question it was asked last: never an earlier one
\* of its own that came late, never the other's, as long as no question was
\* given a number already in use (one chance in 65536 each time).
EachItsOwnAnswer == ~reused => \A r \in Resolvers : resolver[r].answer \in {NoName, resolver[r].asking}

\* The address in use is that of the offer accepted, however the offers and
\* answers of several servers cross.
AddressIsOurs == stack.ip \in {Nobody, dhcp.offered}

\* dhcp.rs: "A refusal: start again."  Not so: see the README.
FailsOnlyUnanswered == dhcp.state = "Failed" => dhcp.tries >= Tries
=============================================================================
