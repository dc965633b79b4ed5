--------------------------- MODULE N2NPeeringProofs ---------------------------
(***************************************************************************)
(* Proofs about the edges of n2n, for any number of edges and supernodes,  *)
(* any number of datagrams in flight and any faults: an edge's two tables  *)
(* stay apart, and a direct path leads only to a socket that was reached.  *)
(*                                                                         *)
(* The second needs an invariant of the network: a REGISTER_ACK travels    *)
(* only to the host whose REGISTER reached the socket it comes from, and   *)
(* an edge signs what it sends itself with its own address (Mail).         *)
(*                                                                         *)
(* The types rest on a second one: an address never leads to a socket that *)
(* was not its edge's own (Posted, Fitted, Tabled).                        *)
(***************************************************************************)
EXTENDS N2NPeering, FiniteSetTheorems, TLAPS

Shape ==
  /\ pending = [e \in Edges |-> pending[e]]
  /\ known = [e \in Edges |-> known[e]]

\* What is said of a datagram, given the history of those that arrived.
Honest(m, history) ==
  /\ ~m.via => m.sock = NoSock /\ m.src[1] = m.mac
  /\ m.type = "REGISTER_ACK" => <<m.dst[1], m.src>> \in history

Mail == \A m \in net : Honest(m, proven)

IInv == Shape /\ PeersApart /\ KnownProven /\ Mail

-----------------------------------------------------------------------------
\* Facts about the helpers

\* The known peers of table K are among those of L, at the same sockets.
Within(K, L) == \A q \in DOMAIN K : q \in DOMAIN L /\ K[q].sock = L[q].sock

\* What an edge may send at any time: signed by itself and no acknowledgement.
Plain(e, out) ==
  \A m \in out : ~m.via /\ m.sock = NoSock /\ m.src = Sock(e) /\ m.mac = e
                   /\ m.type \notin {"REGISTER_ACK", "REGISTER_SUPER", "REGISTER_SUPER_ACK"}

\* register_with_new_peer touches no known peer.
LEMMA NewPeer ==
  ASSUME NEW e, NEW P, NEW K, NEW via, NEW p, NEW sock,
         DOMAIN P \cap DOMAIN K = {}, p \notin DOMAIN K,
         NEW t, t = register_with_new_peer(e, P, K, via, p, sock)
  PROVE  /\ DOMAIN t.pending \cap DOMAIN t.known = {}
         /\ t.known = K
         /\ Plain(e, t.out)
<1>1. CASE p \in DOMAIN P
  BY <1>1 DEF register_with_new_peer, Tables, Plain
<1>2. CASE p \notin DOMAIN P
  <2>1. t.pending = Put(P, p, [sock |-> sock, asked |-> FALSE]) /\ t.known = K
    BY <1>2 DEF register_with_new_peer, Tables
  <2>2. \A m \in t.out : \E dst : m = send_register(e, p, dst)
    BY <1>2 DEF register_with_new_peer, Tables
  <2>3. Plain(e, t.out)
    BY <2>2 DEF send_register, Datagram, Plain
  <2>4. DOMAIN t.pending = DOMAIN P \cup {p}
    BY <2>1 DEF Put
  <2> QED BY <2>1, <2>3, <2>4
<1> QED BY <1>1, <1>2

\* check_peer_registration_needed only ever forgets known peers.
LEMMA CheckPeer ==
  ASSUME NEW e, NEW P, NEW K, NEW via, NEW p, NEW sock, NEW later,
         DOMAIN P \cap DOMAIN K = {},
         NEW t, t = check_peer_registration_needed(e, P, K, via, p, sock, later)
  PROVE  /\ DOMAIN t.pending \cap DOMAIN t.known = {}
         /\ Within(t.known, K)
         /\ Plain(e, t.out)
<1>1. CASE p \notin DOMAIN K
  <2>1. t = register_with_new_peer(e, P, K, via, p, sock)
    BY <1>1 DEF check_peer_registration_needed
  <2> QED BY <1>1, <2>1, NewPeer DEF Within
<1>2. CASE p \in DOMAIN K
  <2> DEFINE K1 == IF via THEN K ELSE Put(K, p, [sock |-> K[p].sock, idle |-> FALSE])
  <2>1. DOMAIN K1 = DOMAIN K /\ Within(K1, K)
    <3> DEFINE K2 == Put(K, p, [sock |-> K[p].sock, idle |-> FALSE])
    <3>1. DOMAIN K2 = DOMAIN K \cup {p} /\ K2[p] = [sock |-> K[p].sock, idle |-> FALSE]
      BY DEF Put
    <3>2. \A x \in DOMAIN K \ {p} : K2[x] = K[x]
      BY DEF Put
    <3>3. K1 = K \/ K1 = K2
      OBVIOUS
    <3> HIDE DEF K1, K2
    <3> QED BY <1>2, <3>1, <3>2, <3>3 DEF Within
  <2>2. t = IF later THEN check_known_peer_sock_change(e, P, K1, via, p, sock)
            ELSE Tables(P, K1, {})
    BY <1>2 DEF check_peer_registration_needed
  <2> HIDE DEF K1
  <2>3. CASE t = Tables(P, K1, {})
    BY <2>1, <2>3 DEF Tables, Plain
  <2>4. CASE t = register_with_new_peer(e, P, Del(K1, p), via, p, sock)
    <3> DEFINE L == Del(K1, p)
    <3>0. DOMAIN L = DOMAIN K1 \ {p} /\ \A x \in DOMAIN L : L[x] = K1[x]
      BY DEF Del
    <3>1. DOMAIN L = DOMAIN K \ {p} /\ Within(L, K)
      BY <2>1, <3>0 DEF Within
    <3>2. p \notin DOMAIN L /\ DOMAIN P \cap DOMAIN L = {}
      BY <3>1
    <3> HIDE DEF L
    <3>3. DOMAIN t.pending \cap DOMAIN t.known = {} /\ t.known = L /\ Plain(e, t.out)
      BY <2>4, <3>2, NewPeer DEF L
    <3> QED BY <3>1, <3>3
  <2> QED BY <2>2, <2>3, <2>4 DEF check_known_peer_sock_change
<1> QED BY <1>1, <1>2

\* Nothing but what was in flight or is sent now is in flight afterwards.
LEMMA InFlight ==
  ASSUME NEW in, NEW out, Exchange(in, out)
  PROVE  net' \subseteq net \cup out
  BY DEF Exchange

\* Datagrams stay honest: history only grows, what is new is honest.
LEMMA MailStays ==
  ASSUME Mail, proven \subseteq proven',
         NEW out, net' \subseteq net \cup out,
         \A m \in out : Honest(m, proven')
  PROVE  Mail'
  BY DEF Mail, Honest

\* Plain datagrams are honest.
LEMMA PlainIsHonest ==
  ASSUME NEW e \in Edges, NEW out, Plain(e, out), NEW history
  PROVE  \A m \in out : Honest(m, history)
  BY DEF Plain, Honest, Sock

\* An edge's own step: the other edges' tables stay.
LEMMA TablesStay ==
  ASSUME Shape, PeersApart, KnownProven, proven \subseteq proven',
         NEW e \in Edges, NEW P, NEW K,
         pending' = [pending EXCEPT ![e] = P], known' = [known EXCEPT ![e] = K],
         DOMAIN P \cap DOMAIN K = {},
         \A q \in DOMAIN K : <<e, K[q].sock>> \in proven'
  PROVE  Shape' /\ PeersApart' /\ KnownProven'
<1>1. Shape'
  BY DEF Shape
<1>2. pending'[e] = P /\ known'[e] = K
  BY DEF Shape
<1>3. \A x \in Edges \ {e} : pending'[x] = pending[x] /\ known'[x] = known[x]
  BY DEF Shape
<1>4. PeersApart'
  BY <1>2, <1>3 DEF PeersApart
<1>5. KnownProven'
  <2> SUFFICES ASSUME NEW x \in Edges, NEW q \in DOMAIN known'[x]
               PROVE  <<x, known'[x][q].sock>> \in proven'
    BY DEF KnownProven
  <2>1. CASE x = e
    BY <1>2, <2>1
  <2>2. CASE x # e
    BY <1>3, <2>2 DEF KnownProven
  <2> QED BY <2>1, <2>2
<1> QED BY <1>1, <1>4, <1>5

-----------------------------------------------------------------------------
\* One lemma per kind of step

\* The steps of an edge that change its tables by Update.
LEMMA UpdateStep ==
  ASSUME IInv, proven \subseteq proven',
         NEW e \in Edges, NEW t, NEW in, NEW out, Update(e, t, in, out),
         DOMAIN t.pending \cap DOMAIN t.known = {},
         \A q \in DOMAIN t.known : <<e, t.known[q].sock>> \in proven',
         \A m \in out : Honest(m, proven')
  PROVE  IInv'
<1>1. net' \subseteq net \cup out
  BY InFlight DEF Update, EdgeExchange
<1>2. Mail'
  BY <1>1, MailStays DEF IInv
<1>3. Shape' /\ PeersApart' /\ KnownProven'
  BY TablesStay DEF Update, IInv
<1> QED BY <1>2, <1>3 DEF IInv

\* History only grows by what arrives.
LEMMA NoteGrows ==
  ASSUME NEW e, NEW m, NoteDirect(e, m)
  PROVE  /\ proven \subseteq proven'
         /\ ~m.via => <<m.mac, Sock(e)>> \in proven'
  BY DEF NoteDirect, Directly

\* Heard takes a peer from the pending ones only.
LEMMA HeardApart ==
  ASSUME PeersApart, NEW e \in Edges, NEW m
  PROVE  DOMAIN Heard(e, m) \cap DOMAIN known[e] = {}
  BY DEF PeersApart, Heard, Del

\* A datagram makes an edge forget known peers, or keep them where they are.
LEMMA CheckStep ==
  ASSUME IInv, NEW e \in Edges, NEW m, NEW later, proven \subseteq proven',
         NEW t, t = check_peer_registration_needed(
                      e, Heard(e, m), known[e], m.via, m.mac, OrigSender(m), later)
  PROVE  /\ DOMAIN t.pending \cap DOMAIN t.known = {}
         /\ \A q \in DOMAIN t.known : <<e, t.known[q].sock>> \in proven'
         /\ \A d \in t.out : Honest(d, proven')
<1>1. DOMAIN Heard(e, m) \cap DOMAIN known[e] = {}
  BY HeardApart DEF IInv
<1>2. /\ DOMAIN t.pending \cap DOMAIN t.known = {}
      /\ Within(t.known, known[e])
      /\ Plain(e, t.out)
  BY <1>1, CheckPeer
<1>3. \A q \in DOMAIN t.known : <<e, t.known[q].sock>> \in proven'
  BY <1>2 DEF Within, IInv, KnownProven
<1>4. \A d \in t.out : Honest(d, proven')
  BY <1>2, PlainIsHonest
<1> QED BY <1>2, <1>3, <1>4

LEMMA ReceivePacketStep ==
  ASSUME IInv, NEW e \in Edges, NEW m \in net, ReceivePacket(e, m)
  PROVE  IInv'
<1>1. proven \subseteq proven'
  BY NoteGrows DEF ReceivePacket
<1>2. PICK later \in Later :
        LET t == check_peer_registration_needed(
                   e, Heard(e, m), known[e], m.via, m.mac, OrigSender(m), later) IN
        Update(e, t, {m}, t.out)
  BY DEF ReceivePacket
<1> DEFINE t == check_peer_registration_needed(
                  e, Heard(e, m), known[e], m.via, m.mac, OrigSender(m), later)
<1> HIDE DEF t
<1>3. Update(e, t, {m}, t.out)
  BY <1>2 DEF t
<1>4. /\ DOMAIN t.pending \cap DOMAIN t.known = {}
      /\ \A q \in DOMAIN t.known : <<e, t.known[q].sock>> \in proven'
      /\ \A d \in t.out : Honest(d, proven')
  BY <1>1, CheckStep DEF t
<1> QED BY <1>1, <1>3, <1>4, UpdateStep

\* The acknowledgement goes to the host whose REGISTER has just arrived.
LEMMA ReceiveRegisterStep ==
  ASSUME IInv, NEW e \in Edges, NEW m \in net, ReceiveRegister(e, m)
  PROVE  IInv'
<1>1. /\ proven \subseteq proven'
      /\ ~m.via => <<m.mac, Sock(e)>> \in proven'
  BY NoteGrows DEF ReceiveRegister
<1> DEFINE T(later) == check_peer_registration_needed(
                         e, Heard(e, m), known[e], m.via, m.mac, OrigSender(m), later)
           ack == IF m.via THEN {} ELSE {send_register_ack(e, m.mac, OrigSender(m))}
<1>2. PICK later \in Later : Update(e, T(later), {m}, T(later).out \cup ack)
  BY DEF ReceiveRegister
<1> DEFINE t == T(later)
<1>3. Update(e, t, {m}, t.out \cup ack)
  BY <1>2
<1>4. /\ DOMAIN t.pending \cap DOMAIN t.known = {}
      /\ \A q \in DOMAIN t.known : <<e, t.known[q].sock>> \in proven'
      /\ \A d \in t.out : Honest(d, proven')
  BY <1>1, CheckStep
<1>5. \A d \in ack : Honest(d, proven')
  <2> SUFFICES ASSUME ~m.via PROVE Honest(send_register_ack(e, m.mac, OrigSender(m)), proven')
    OBVIOUS
  <2>1. m.sock = NoSock /\ m.src[1] = m.mac
    BY DEF IInv, Mail, Honest
  <2>2. OrigSender(m) = m.src
    BY <2>1 DEF OrigSender
  <2>3. <<OrigSender(m)[1], Sock(e)>> \in proven'
    BY <1>1, <2>1, <2>2
  <2> QED BY <2>3 DEF send_register_ack, Datagram, Honest, Sock
<1> HIDE DEF t, ack
<1>6. \A d \in t.out \cup ack : Honest(d, proven')
  BY <1>4, <1>5
<1> QED BY <1>1, <1>3, <1>4, <1>6, UpdateStep

\* The peer becomes known at the socket it acknowledged from: the edge that reads
\* the acknowledgement is the host it was sent to.
LEMMA ReceiveRegisterAckStep ==
  ASSUME IInv, NEW e \in Edges, NEW m \in net, ReceiveRegisterAck(e, m)
  PROVE  IInv'
<1>1. proven \subseteq proven'
  BY NoteGrows DEF ReceiveRegisterAck
<1> DEFINE t == peer_set_p2p_confirmed(e, m.mac, m.src)
<1>2. Update(e, t, {m}, {})
  BY DEF ReceiveRegisterAck
<1>3. <<e, m.src>> \in proven
  <2>1. m.dst = Sock(e) /\ m.type = "REGISTER_ACK"
    BY DEF ReceiveRegisterAck, Takes, Reaches
  <2> QED BY <2>1 DEF IInv, Mail, Honest, Sock
<1>4. CASE m.mac \notin DOMAIN pending[e]
  <2>1. t.pending = pending[e] /\ t.known = known[e]
    BY <1>4 DEF peer_set_p2p_confirmed, Tables
  <2>2. /\ DOMAIN t.pending \cap DOMAIN t.known = {}
        /\ \A q \in DOMAIN t.known : <<e, t.known[q].sock>> \in proven'
    BY <1>1, <2>1 DEF IInv, PeersApart, KnownProven
  <2> HIDE DEF t
  <2> QED BY <1>1, <1>2, <2>2, UpdateStep
<1>5. CASE m.mac \in DOMAIN pending[e]
  <2>1. /\ t.pending = Del(pending[e], m.mac)
        /\ t.known = Put(known[e], m.mac, [sock |-> m.src, idle |-> FALSE])
    BY <1>5 DEF peer_set_p2p_confirmed, Tables
  <2> HIDE DEF t
  <2>2. DOMAIN t.pending = DOMAIN pending[e] \ {m.mac}
    BY <2>1 DEF Del
  <2>3. /\ DOMAIN t.known = DOMAIN known[e] \cup {m.mac}
        /\ t.known[m.mac].sock = m.src
        /\ \A q \in DOMAIN known[e] \ {m.mac} : t.known[q] = known[e][q]
    BY <2>1 DEF Put
  <2>4. DOMAIN t.pending \cap DOMAIN t.known = {}
    BY <2>2, <2>3 DEF IInv, PeersApart
  <2>5. \A q \in DOMAIN t.known : <<e, t.known[q].sock>> \in proven'
    BY <1>1, <1>3, <2>3 DEF IInv, KnownProven
  <2> QED BY <1>1, <1>2, <2>4, <2>5, UpdateStep
<1> QED BY <1>4, <1>5

LEMMA ReceivePeerInfoStep ==
  ASSUME IInv, NEW e \in Edges, NEW m \in net, ReceivePeerInfo(e, m)
  PROVE  IInv'
<1> DEFINE P == IF m.to \in DOMAIN pending[e]
                THEN [pending[e] EXCEPT ![m.to].sock = m.sock] ELSE pending[e]
           out == IF m.to \in DOMAIN pending[e]
                  THEN {send_register(e, m.to, m.sock)} ELSE {}
<1>1. Update(e, Tables(P, known[e], {}), {m}, out) /\ proven' = proven
  BY DEF ReceivePeerInfo
<1>2. DOMAIN P = DOMAIN pending[e]
  OBVIOUS
<1>3. \A d \in out : Honest(d, proven')
  <2>1. Plain(e, out)
    BY DEF Plain, send_register, Datagram
  <2> QED BY <2>1, PlainIsHonest
<1> DEFINE t == Tables(P, known[e], {})
<1>4. t.pending = P /\ t.known = known[e]
  BY DEF Tables
<1> HIDE DEF P, out, t
<1>5. /\ DOMAIN t.pending \cap DOMAIN t.known = {}
      /\ \A q \in DOMAIN t.known : <<e, t.known[q].sock>> \in proven'
  BY <1>1, <1>2, <1>4 DEF IInv, PeersApart, KnownProven
<1> QED BY <1>1, <1>3, <1>5, UpdateStep DEF t

\* Steps that leave the edges' tables alone and send nothing but honest datagrams.
LEMMA OtherStep ==
  ASSUME IInv, UNCHANGED <<peerVars, proven>>, NEW out, net' \subseteq net \cup out,
         \A m \in out : Honest(m, proven)
  PROVE  IInv'
<1>1. Mail'
  BY MailStays DEF IInv
<1>2. Shape' /\ PeersApart' /\ KnownProven'
  BY DEF IInv, Shape, PeersApart, KnownProven, peerVars
<1> QED BY <1>1, <1>2 DEF IInv

\* The same when nothing is sent.
LEMMA SilentStep ==
  ASSUME IInv, UNCHANGED <<peerVars, proven>>, net' \subseteq net
  PROVE  IInv'
<1>1. Mail'
  BY DEF IInv, Mail
<1>2. Shape' /\ PeersApart' /\ KnownProven'
  BY DEF IInv, Shape, PeersApart, KnownProven, peerVars
<1> QED BY <1>1, <1>2 DEF IInv

LEMMA ReceiveRegisterSuperAckStep ==
  ASSUME IInv, NEW e \in Edges, NEW m \in net, ReceiveRegisterSuperAck(e, m)
  PROVE  IInv'
<1>1. net' \subseteq net
  BY DEF ReceiveRegisterSuperAck, EdgeExchange, Exchange
<1>2. UNCHANGED <<peerVars, proven>>
  BY DEF ReceiveRegisterSuperAck
<1> QED BY <1>1, <1>2, SilentStep

\* A frame for a known peer, or for one that becomes pending.
LEMMA TalkStep ==
  ASSUME IInv, NEW e \in Edges, NEW p \in Peers(e), SendTo(e, p), proven' = proven
  PROVE  IInv'
<1>1. CASE p \in DOMAIN known[e] /\ ~known[e][p].idle
  <2> DEFINE t == Tables(pending[e], known[e], {})
             out == {send_packet(e, p, known[e][p].sock)}
  <2>1. Update(e, t, {}, out)
    BY <1>1 DEF SendTo
  <2>2. Plain(e, out)
    BY DEF Plain, send_packet, Datagram
  <2>3. /\ DOMAIN t.pending \cap DOMAIN t.known = {}
        /\ \A q \in DOMAIN t.known : <<e, t.known[q].sock>> \in proven'
    BY DEF Tables, IInv, PeersApart, KnownProven
  <2> HIDE DEF t, out
  <2>4. \A d \in out : Honest(d, proven')
    BY <2>2, PlainIsHonest
  <2> QED BY <2>1, <2>3, <2>4, UpdateStep
<1>2. CASE ~(p \in DOMAIN known[e] /\ ~known[e][p].idle)
  <2> DEFINE P == IF p \in DOMAIN pending[e] THEN pending[e]
                  ELSE Put(pending[e], p, [sock |-> NoSock, asked |-> FALSE])
             Q == [P EXCEPT ![p].asked = TRUE]
             K == Del(known[e], p)
             t == Tables(Q, K, {})
             out == {send_packet(e, p, supernode[e])}
                      \cup (IF P[p].asked THEN {} ELSE {send_query_peer(e, p)})
  <2>1. Update(e, t, {}, out)
    BY <1>2 DEF SendTo
  <2>2. Plain(e, out)
    BY DEF Plain, send_packet, send_query_peer, Datagram
  <2>3. DOMAIN P = DOMAIN pending[e] \cup {p}
    BY DEF Put
  <2>4. DOMAIN K = DOMAIN known[e] \ {p} /\ \A q \in DOMAIN K : K[q] = known[e][q]
    BY DEF Del
  <2> HIDE DEF P, K
  <2>5. DOMAIN Q = DOMAIN P
    OBVIOUS
  <2>6. t.pending = Q /\ t.known = K
    BY DEF Tables
  <2> HIDE DEF Q, t, out
  <2>7. /\ DOMAIN t.pending \cap DOMAIN t.known = {}
        /\ \A q \in DOMAIN t.known : <<e, t.known[q].sock>> \in proven'
    BY <2>3, <2>4, <2>5, <2>6 DEF IInv, PeersApart, KnownProven
  <2>8. \A d \in out : Honest(d, proven')
    BY <2>2, PlainIsHonest
  <2> QED BY <2>1, <2>7, <2>8, UpdateStep
<1> QED BY <1>1, <1>2

LEMMA SendStep ==
  ASSUME IInv, NEW e \in Edges, NEW to \in Peers(e) \cup {Broadcast},
         edge_send_packet2net(e, to)
  PROVE  IInv'
<1>1. CASE to = Broadcast
  <2> DEFINE t == Tables(pending[e], known[e], {})
             out == {send_packet(e, to, supernode[e])}
  <2>1. Update(e, t, {}, out) /\ proven' = proven
    BY <1>1 DEF edge_send_packet2net
  <2>2. Plain(e, out)
    BY DEF Plain, send_packet, Datagram
  <2>3. /\ DOMAIN t.pending \cap DOMAIN t.known = {}
        /\ \A q \in DOMAIN t.known : <<e, t.known[q].sock>> \in proven
    BY DEF Tables, IInv, PeersApart, KnownProven
  <2> HIDE DEF t, out
  <2>4. \A d \in out : Honest(d, proven')
    BY <2>2, PlainIsHonest
  <2> QED BY <2>1, <2>3, <2>4, UpdateStep
<1>2. CASE to # Broadcast
  BY <1>2, TalkStep DEF edge_send_packet2net
<1> QED BY <1>1, <1>2

\* A round of registrations: signed by the edge.
LEMMA RoundStep ==
  ASSUME IInv, NEW e \in Edges, NEW old, Round(e, old)
  PROVE  IInv'
<1>1. PICK up \in SUBSET Supernodes :
        net' = net \cup {send_register_super(e, Ring[i], NewCookie(e, up)) :
                          i \in {j \in DOMAIN Ring : Ring[j] \in up}}
  BY DEF Round
<1> DEFINE out == {send_register_super(e, Ring[i], NewCookie(e, up)) :
                   i \in {j \in DOMAIN Ring : Ring[j] \in up}}
<1>2. ASSUME NEW s, NEW c PROVE Honest(send_register_super(e, s, c), proven)
  BY DEF send_register_super, Datagram, Honest, Sock
<1>3. \A d \in out : Honest(d, proven)
  BY <1>2
<1>4. UNCHANGED <<peerVars, proven>>
  BY DEF Round, peerVars
<1> QED BY <1>1, <1>3, <1>4, OtherStep

\* The timers keep the sockets of the peers they leave in the tables.
LEMMA TimerStep ==
  ASSUME IInv, NEW e \in Edges, NEW p \in Peers(e),
         Idle(e, p) \/ QueryAgain(e, p) \/ PurgePending(e, p) \/ PurgeKnown(e, p)
  PROVE  IInv'
<1>1. net' = net /\ proven' = proven
  BY DEF Idle, QueryAgain, PurgePending, PurgeKnown
<1>2. \E P, K : /\ pending' = [pending EXCEPT ![e] = P] /\ known' = [known EXCEPT ![e] = K]
                /\ DOMAIN P \cap DOMAIN K = {} /\ Within(K, known[e])
  <2>1. CASE Idle(e, p)
    <3> DEFINE K == Put(known[e], p, [sock |-> known[e][p].sock, idle |-> TRUE])
    <3>1. p \in DOMAIN known[e]
      BY <2>1 DEF Idle
    <3>2. /\ DOMAIN K = DOMAIN known[e] /\ K[p].sock = known[e][p].sock
          /\ \A q \in DOMAIN known[e] \ {p} : K[q] = known[e][q]
      BY <3>1 DEF Put
    <3>3. pending' = [pending EXCEPT ![e] = pending[e]] /\ known' = [known EXCEPT ![e] = K]
      BY <2>1 DEF Idle, IInv, Shape, Put
    <3> HIDE DEF K
    <3>4. DOMAIN pending[e] \cap DOMAIN K = {} /\ Within(K, known[e])
      BY <3>2 DEF IInv, PeersApart, Within
    <3> QED BY <3>3, <3>4
  <2>2. CASE QueryAgain(e, p)
    <3> DEFINE P == [pending[e] EXCEPT ![p].asked = FALSE]
    <3>1. pending' = [pending EXCEPT ![e] = P] /\ known' = [known EXCEPT ![e] = known[e]]
      BY <2>2 DEF QueryAgain, IInv, Shape
    <3>2. DOMAIN P = DOMAIN pending[e]
      OBVIOUS
    <3> HIDE DEF P
    <3>3. DOMAIN P \cap DOMAIN known[e] = {} /\ Within(known[e], known[e])
      BY <3>2 DEF IInv, PeersApart, Within
    <3> QED BY <3>1, <3>3
  <2>3. CASE PurgePending(e, p)
    <3> DEFINE P == Del(pending[e], p)
    <3>1. pending' = [pending EXCEPT ![e] = P] /\ known' = [known EXCEPT ![e] = known[e]]
      BY <2>3 DEF PurgePending, IInv, Shape
    <3>2. DOMAIN P \subseteq DOMAIN pending[e]
      BY DEF Del
    <3> HIDE DEF P
    <3>3. DOMAIN P \cap DOMAIN known[e] = {} /\ Within(known[e], known[e])
      BY <3>2 DEF IInv, PeersApart, Within
    <3> QED BY <3>1, <3>3
  <2>4. CASE PurgeKnown(e, p)
    <3> DEFINE K == Del(known[e], p)
    <3>1. pending' = [pending EXCEPT ![e] = pending[e]] /\ known' = [known EXCEPT ![e] = K]
      BY <2>4 DEF PurgeKnown, IInv, Shape
    <3>2. DOMAIN K \subseteq DOMAIN known[e] /\ \A q \in DOMAIN K : K[q] = known[e][q]
      BY DEF Del
    <3> HIDE DEF K
    <3>3. DOMAIN pending[e] \cap DOMAIN K = {} /\ Within(K, known[e])
      BY <3>2 DEF IInv, PeersApart, Within
    <3> QED BY <3>1, <3>3
  <2> QED BY <2>1, <2>2, <2>3, <2>4
<1>3. PICK P, K : /\ pending' = [pending EXCEPT ![e] = P] /\ known' = [known EXCEPT ![e] = K]
                  /\ DOMAIN P \cap DOMAIN K = {} /\ Within(K, known[e])
  BY <1>2
<1>4. \A q \in DOMAIN K : <<e, K[q].sock>> \in proven'
  BY <1>1, <1>3 DEF Within, IInv, KnownProven
<1>5. Shape' /\ PeersApart' /\ KnownProven'
  BY <1>1, <1>3, <1>4, TablesStay DEF IInv
<1>6. Mail'
  BY <1>1 DEF IInv, Mail
<1> QED BY <1>5, <1>6 DEF IInv

LEMMA StopStep ==
  ASSUME IInv, NEW e \in Edges, EdgeStop(e)
  PROVE  IInv'
<1>1. /\ pending' = [pending EXCEPT ![e] = Empty] /\ known' = [known EXCEPT ![e] = Empty]
      /\ net' = net /\ proven' = proven
  BY DEF EdgeStop
<1>2. DOMAIN Empty = {}
  BY DEF Empty
<1>3. Shape' /\ PeersApart' /\ KnownProven'
  BY <1>1, <1>2, TablesStay DEF IInv
<1>4. Mail'
  BY <1>1 DEF IInv, Mail
<1> QED BY <1>3, <1>4 DEF IInv

\* What a supernode sends is marked as such and never an acknowledgement of a
\* REGISTER.
LEMMA SupernodeStep ==
  ASSUME IInv, NEW s \in Supernodes, Supernode(s)
  PROVE  IInv'
<1>1. PICK m \in net : process_udp(s, m, cookie)
  BY DEF Supernode
<1>2. UNCHANGED <<peerVars, proven>>
  BY DEF Supernode, edgeVars, peerVars
<1>3. ASSUME NEW type, type # "REGISTER_ACK", NEW to, NEW sock
      PROVE  Honest(SnReply(s, m, type, to, sock), proven)
  BY <1>3 DEF SnReply, Honest
<1>4. ASSUME NEW to, m.type # "REGISTER_ACK"
      PROVE  \A d \in Forwarded(s, m, to) : Honest(d, proven)
  BY <1>3, <1>4 DEF Forwarded
<1>5. CASE SnPacket(s, m)
  <2> DEFINE out == IF m.to = Broadcast THEN try_broadcast(s, m) ELSE try_forward(s, m)
  <2>1. net' \subseteq net \cup out
    BY <1>5, InFlight DEF SnPacket, SnExchange
  <2>2. \A d \in out : Honest(d, proven)
    BY <1>4, <1>5 DEF SnPacket, try_broadcast, try_forward
  <2> QED BY <1>2, <2>1, <2>2, OtherStep
<1>6. CASE SnRegister(s, m)
  <2>1. net' \subseteq net \cup try_forward(s, m)
    BY <1>6, InFlight DEF SnRegister, SnExchange
  <2>2. \A d \in try_forward(s, m) : Honest(d, proven)
    BY <1>4, <1>6 DEF SnRegister, try_forward
  <2> QED BY <1>2, <2>1, <2>2, OtherStep
<1>7. CASE SnRegisterSuper(s, m, cookie)
  <2> DEFINE out == {SnReply(s, m, "REGISTER_SUPER_ACK", m.src, m.src)}
  <2>1. net' \subseteq net \cup out
    BY <1>7, InFlight DEF SnRegisterSuper, SnExchange
  <2>2. \A d \in out : Honest(d, proven)
    BY <1>3
  <2> HIDE DEF out
  <2> QED BY <1>2, <2>1, <2>2, OtherStep
<1>8. CASE SnQueryPeer(s, m)
  <2> DEFINE out == {SnReply(s, m, "PEER_INFO", m.src, edges[s][t]) :
                     t \in {m.to} \cap DOMAIN edges[s]}
  <2>1. net' \subseteq net \cup out
    BY <1>8, InFlight DEF SnQueryPeer, SnExchange
  <2>2. \A d \in out : Honest(d, proven)
    <3> SUFFICES ASSUME NEW t \in {m.to} \cap DOMAIN edges[s]
                 PROVE  Honest(SnReply(s, m, "PEER_INFO", m.src, edges[s][t]), proven)
      OBVIOUS
    <3>1. "PEER_INFO" # "REGISTER_ACK"
      OBVIOUS
    <3> QED BY <1>3, <3>1
  <2> QED BY <1>2, <2>1, <2>2, OtherStep
<1> QED BY <1>1, <1>5, <1>6, <1>7, <1>8 DEF process_udp

-----------------------------------------------------------------------------
LEMMA InitiallyHolds == Init => IInv
<1> SUFFICES ASSUME Init PROVE IInv
  OBVIOUS
<1>1. Shape /\ \A e \in Edges : pending[e] = Empty /\ known[e] = Empty
  BY DEF Init, EdgeInit, Shape
<1>2. DOMAIN Empty = {}
  BY DEF Empty
<1>3. PeersApart /\ KnownProven
  BY <1>1, <1>2 DEF PeersApart, KnownProven
<1>4. Mail
  BY DEF Init, NetInit, Mail
<1> QED BY <1>1, <1>3, <1>4 DEF IInv

LEMMA InductiveStep == IInv /\ [Next]_vars => IInv'
<1> SUFFICES ASSUME IInv, [Next]_vars PROVE IInv'
  OBVIOUS
<1>1. CASE Network
  <2>1. net' \subseteq net /\ UNCHANGED <<peerVars, proven>>
    BY <1>1 DEF Network, NetNext, Vanish, Lose, Rebind, edgeVars, peerVars
  <2> QED BY <2>1, SilentStep
<1>2. CASE \E s \in Supernodes : Supernode(s)
  BY <1>2, SupernodeStep
<1>3. CASE \E s \in Supernodes : SupernodeForgets(s)
  <2>1. net' = net /\ UNCHANGED <<peerVars, proven>>
    BY <1>3 DEF SupernodeForgets, SnRestart, SnPurge, edgeVars, peerVars
  <2> QED BY <2>1, SilentStep
<1>4. CASE \E e \in Edges : readFromIPSocket(e)
  BY <1>4, ReceivePacketStep, ReceiveRegisterStep, ReceiveRegisterAckStep,
     ReceiveRegisterSuperAckStep, ReceivePeerInfoStep DEF readFromIPSocket, ReadDatagram
<1>5. CASE \E e \in Edges : Talk(e)
  BY <1>5, SendStep DEF Talk
<1>6. CASE \E e \in Edges : Timers(e)
  BY <1>6, TimerStep, RoundStep DEF Timers, update_supernode_reg
<1>7. CASE \E e \in Edges : EdgeStart(e)
  BY <1>7, RoundStep DEF EdgeStart
<1>8. CASE \E e \in Edges : EdgeStop(e)
  BY <1>8, StopStep
<1>9. CASE UNCHANGED vars
  <2>1. net' = net /\ UNCHANGED <<peerVars, proven>>
    BY <1>9 DEF vars, netVars, edgeVars, peerVars
  <2> QED BY <2>1, SilentStep
<1> QED BY <1>1, <1>2, <1>3, <1>4, <1>5, <1>6, <1>7, <1>8, <1>9 DEF Next

\* The invariant holds in every reachable state.
THEOREM Inductive == Spec => []IInv
BY InitiallyHolds, InductiveStep, PTL DEF Spec

\* HASH_ADD_PEER of register_with_new_peer and peer_set_p2p_confirmed: no edge ever
\* has a peer in both tables.
THEOREM PeersStayApart == Spec => []PeersApart
<1>1. IInv => PeersApart
  BY DEF IInv
<1> QED BY <1>1, Inductive, PTL

\* peer_set_p2p_confirmed: whatever is lost, late, doubled or relayed, an edge
\* writes straight to a peer only at a socket that a datagram of its own reached.
THEOREM KnownStaysProven == Spec => []KnownProven
<1>1. IInv => KnownProven
  BY DEF IInv
<1> QED BY <1>1, Inductive, PTL

-----------------------------------------------------------------------------
\* REGISTER_SUPER_ACK

\* A cookie is random: the one drawn next is unlike any that is still under way.
CookiesLeft ==
  \A e \in Edges : \E c \in Cookies : c # cookie[e] /\ \A m \in net : m.mac = e => m.cookie # c

Registered ==
  /\ running = [e \in Edges |-> running[e]]
  /\ snWait = [e \in Edges |-> snWait[e]]
  /\ cookie = [e \in Edges |-> cookie[e]]
  /\ granted = [e \in Edges |-> granted[e]]
  /\ gen \in [Edges -> Nat]

\* The edge of m has or had that socket, and a stopped edge has another one now.
Once(m, sock, number, runs) ==
  m.mac \in Edges /\ \E n \in 0..number[m.mac] :
                       sock = <<m.mac, n>> /\ (runs[m.mac] \/ n # number[m.mac])

\* A registration comes from a socket of its edge, the answer goes back there:
\* an edge that starts has none under way, though its first rounds may draw no
\* cookie and send the zeros that an earlier one sent.
Answers(mail, number, runs) ==
  \A m \in mail : /\ m.type = "REGISTER_SUPER" => Once(m, m.src, number, runs)
                  /\ m.type = "REGISTER_SUPER_ACK" => Once(m, m.dst, number, runs)

Answered == Answers(net, gen, running)

\* An acknowledgement on its way to an edge, with its cookie, was granted.
Vouched ==
  \A m \in net : \A e \in Edges :
    /\ m.type = "REGISTER_SUPER_ACK" /\ m.mac = e
    /\ m.cookie = cookie[e] /\ running[e] /\ m.dst = Sock(e)
    => granted[e] # {}

AInv == Registered /\ Answered /\ Vouched /\ AckFresh

\* An edge registers in its rounds only, and nobody but a supernode answers.
NoSuperAck(out) == \A m \in out : m.type \notin {"REGISTER_SUPER", "REGISTER_SUPER_ACK"}

\* Sockets are only ever given up, as they are by an edge that stops.
LEMMA AnsweredStays ==
  ASSUME Answered, gen \in [Edges -> Nat], gen' \in [Edges -> Nat],
         \A e \in Edges : gen[e] <= gen'[e] /\ (running[e] /\ ~running'[e] => gen[e] # gen'[e]),
         \A m \in net' \ net : /\ m.type = "REGISTER_SUPER" => Once(m, m.src, gen', running')
                               /\ m.type = "REGISTER_SUPER_ACK" => Once(m, m.dst, gen', running')
  PROVE  Answered'
<1>1. ASSUME NEW m \in net, NEW sock, Once(m, sock, gen, running)
      PROVE  Once(m, sock, gen', running')
  <2>1. PICK n \in 0..gen[m.mac] : sock = <<m.mac, n>> /\ (running[m.mac] \/ n # gen[m.mac])
    BY <1>1 DEF Once
  <2>2. m.mac \in Edges
    BY <1>1 DEF Once
  <2> DEFINE g == gen[m.mac] h == gen'[m.mac]
  <2>3. g \in Nat /\ h \in Nat /\ g <= h /\ (running[m.mac] /\ ~running'[m.mac] => g # h)
    BY <2>2
  <2>4. n \in 0..h /\ (running'[m.mac] \/ n # h)
    <3> HIDE DEF g, h
    <3>1. n \in 0..g /\ (running[m.mac] \/ n # g)
      BY <2>1 DEF g
    <3>2. n \in 0..h
      BY <2>3, <3>1
    <3>3. n = h => n = g /\ g = h
      BY <2>3, <3>1
    <3> QED BY <2>3, <3>1, <3>2, <3>3
  <2>5. n \in 0..gen'[m.mac] /\ (running'[m.mac] \/ n # gen'[m.mac])
    BY <2>4
  <2> HIDE DEF g, h
  <2> QED BY <2>1, <2>2, <2>5, Zenon DEF Once
<1>2. Answers(net', gen', running')
  BY <1>1 DEF Answered, Answers
<1> QED BY <1>2 DEF Answered

LEMMA TalkSends ==
  ASSUME NEW e \in Edges, Talk(e)
  PROVE  NoSuperAck(net' \ net)
<1>1. PICK to \in Peers(e) \cup (IF Broadcasts THEN {Broadcast} ELSE {}) :
        edge_send_packet2net(e, to)
  BY DEF Talk
<1>2. \A dst : send_packet(e, to, dst).type = "PACKET"
  BY DEF send_packet, Datagram
<1>3. send_query_peer(e, to).type = "QUERY_PEER"
  BY DEF send_query_peer, Datagram
<1>4. PICK t, out : Update(e, t, {}, out) /\ NoSuperAck(out)
  BY <1>1, <1>2, <1>3 DEF edge_send_packet2net, SendTo, NoSuperAck
<1>5. net' \subseteq net \cup out
  BY <1>4, InFlight DEF Update, EdgeExchange
<1> QED BY <1>4, <1>5 DEF NoSuperAck

LEMMA ReadSends ==
  ASSUME IInv, NEW e \in Edges, NEW m \in net, ReadDatagram(e, m)
  PROVE  NoSuperAck(net' \ net)
<1>1. ASSUME NEW later
      PROVE  NoSuperAck(check_peer_registration_needed(
               e, Heard(e, m), known[e], m.via, m.mac, OrigSender(m), later).out)
  <2>1. DOMAIN Heard(e, m) \cap DOMAIN known[e] = {}
    BY HeardApart DEF IInv
  <2> QED BY <2>1, CheckPeer DEF Plain, NoSuperAck
<1>2. NoSuperAck({send_register_ack(e, m.mac, OrigSender(m))})
  BY DEF send_register_ack, Datagram, NoSuperAck
<1>3. NoSuperAck({send_register(e, m.to, m.sock)}) /\ NoSuperAck({})
  BY DEF send_register, Datagram, NoSuperAck
<1>4. ASSUME NEW A, NEW B, NoSuperAck(A), NoSuperAck(B) PROVE NoSuperAck(A \cup B)
  BY <1>4 DEF NoSuperAck
<1>5. \E in, out : EdgeExchange(e, in, out) /\ NoSuperAck(out)
  <2>1. CASE ReceivePacket(e, m)
    BY <1>1, <2>1 DEF ReceivePacket, Update
  <2>2. CASE ReceiveRegister(e, m)
    BY <1>1, <1>2, <1>3, <1>4, <2>2 DEF ReceiveRegister, Update
  <2>3. CASE ReceiveRegisterAck(e, m)
    BY <1>3, <2>3 DEF ReceiveRegisterAck, Update
  <2>4. CASE ReceiveRegisterSuperAck(e, m)
    BY <1>3, <2>4 DEF ReceiveRegisterSuperAck
  <2>5. CASE ReceivePeerInfo(e, m)
    BY <1>3, <2>5 DEF ReceivePeerInfo, Update
  <2> QED BY <2>1, <2>2, <2>3, <2>4, <2>5 DEF ReadDatagram
<1>6. PICK in, out : EdgeExchange(e, in, out) /\ NoSuperAck(out)
  BY <1>5
<1>7. net' \subseteq net \cup out
  BY <1>6, InFlight DEF EdgeExchange
<1> QED BY <1>6, <1>7 DEF NoSuperAck

\* Steps that leave the registrations alone; a NAT may rebind.
LEMMA RegistrationsStay ==
  ASSUME AInv, UNCHANGED <<running, snWait, cookie, granted>>, NoSuperAck(net' \ net),
         gen' = gen \/ \E e \in Edges : gen' = [gen EXCEPT ![e] = @ + 1]
  PROVE  AInv'
<1>0. gen \in [Edges -> Nat]
  BY DEF AInv, Registered
<1>1. gen' \in [Edges -> Nat] /\ \A e \in Edges : gen[e] <= gen'[e]
  BY <1>0
<1>2. Registered' /\ AckFresh'
  BY <1>1 DEF AInv, Registered, AckFresh
<1>3. Answered'
  BY <1>0, <1>1, AnsweredStays DEF AInv, NoSuperAck
<1>4. Vouched'
  <2> SUFFICES ASSUME NEW m \in net', NEW e \in Edges, m.type = "REGISTER_SUPER_ACK", m.mac = e,
                      m.cookie = cookie[e], running[e], m.dst = <<e, gen'[e]>>
               PROVE  granted[e] # {}
    BY DEF Vouched, Sock
  <2>1. m \in net
    BY DEF NoSuperAck
  <2>2. Once(m, m.dst, gen, running)
    BY <2>1 DEF AInv, Answered, Answers
  <2>3. gen'[e] \in 0..gen[e]
    BY <2>2 DEF Once
  <2>4. gen'[e] = gen[e]
    BY <1>0, <1>1, <2>3
  <2> QED BY <2>1, <2>4 DEF AInv, Vouched, Sock
<1> QED BY <1>2, <1>3, <1>4 DEF AInv

\* The wait ends with an acknowledgement of the latest cookie.
LEMMA AckedStep ==
  ASSUME AInv, NEW e \in Edges, NEW m \in net, ReceiveRegisterSuperAck(e, m)
  PROVE  AInv'
<1> DEFINE right == snWait[e] /\ m.mac = e /\ m.cookie = cookie[e]
<1>1. /\ UNCHANGED <<running, cookie, granted, gen>> /\ net' \subseteq net
      /\ running[e] /\ m.type = "REGISTER_SUPER_ACK" /\ m.dst = Sock(e)
      /\ snWait' = [snWait EXCEPT ![e] = @ /\ ~right]
  BY DEF ReceiveRegisterSuperAck, EdgeExchange, Exchange, Takes, Reaches, supernodeVars
<1>2. Registered' /\ Answered' /\ Vouched'
  <2>1. Registered' /\ Vouched'
    BY <1>1 DEF AInv, Registered, Vouched, Sock
  <2>2. Answered'
    BY <1>1 DEF AInv, Answered, Answers, Once
  <2> QED BY <2>1, <2>2
<1>3. AckFresh'
  <2> SUFFICES ASSUME NEW x \in Edges, running[x], ~snWait'[x]
               PROVE  granted[x] # {}
    BY <1>1 DEF AckFresh
  <2>1. CASE ~snWait[x]
    BY <2>1 DEF AInv, AckFresh
  <2>2. CASE snWait[x]
    <3>1. x = e /\ right
      BY <1>1, <2>2 DEF AInv, Registered
    <3> QED BY <1>1, <3>1 DEF AInv, Vouched
  <2> QED BY <2>1, <2>2
<1> QED BY <1>2, <1>3 DEF AInv

\* A round starts with a new cookie, or with none and the answers that are under
\* way to an edge that ran before.
LEMMA NewRound ==
  ASSUME AInv, CookiesLeft, NEW e \in Edges, NEW old, Round(e, old),
         running' = [running EXCEPT ![e] = TRUE]
  PROVE  AInv'
<1>1. PICK up \in SUBSET Supernodes :
        LET c == NewCookie(e, up) IN
        /\ cookie' = [cookie EXCEPT ![e] = c]
        /\ snWait' = [snWait EXCEPT ![e] = TRUE]
        /\ granted' = [granted EXCEPT ![e] = IF Ring[1] \in up THEN {} ELSE @]
        /\ gen' = gen
        /\ net' = net \cup {send_register_super(e, Ring[i], c) :
                            i \in {j \in DOMAIN Ring : Ring[j] \in up}}
  BY DEF Round
<1> DEFINE c == NewCookie(e, up)
<1>2. IF Ring[1] \in up THEN \A m \in net : m.mac = e => m.cookie # c
      ELSE c = cookie[e] /\ granted'[e] = granted[e]
  <2>1. CASE Ring[1] \in up
    BY <2>1 DEF NewCookie, CookiesLeft
  <2>2. CASE Ring[1] \notin up
    BY <1>1, <2>2 DEF NewCookie, AInv, Registered
  <2> QED BY <2>1, <2>2
<1>3. \A s : LET d == send_register_super(e, s, c) IN
            d.type = "REGISTER_SUPER" /\ d.mac = e /\ d.src = Sock(e)
  BY DEF send_register_super, Datagram
<1>4. \A m \in net' \ net : m.type = "REGISTER_SUPER" /\ m.mac = e /\ m.src = Sock(e)
  BY <1>1, <1>3
<1> HIDE DEF c
<1>5. /\ Registered' /\ cookie'[e] = c /\ snWait'[e] /\ running'[e]
      /\ \A x \in Edges \ {e} : /\ running'[x] = running[x] /\ snWait'[x] = snWait[x]
                                /\ cookie'[x] = cookie[x] /\ granted'[x] = granted[x]
  BY <1>1 DEF AInv, Registered, c
<1>6. AckFresh'
  BY <1>5 DEF AInv, AckFresh
<1>7. Answered'
  <2>1. gen \in [Edges -> Nat] /\ gen' = gen
    BY <1>1 DEF AInv, Registered
  <2>2. \A x \in Edges : gen[x] <= gen'[x] /\ (running[x] => running'[x])
    BY <1>5, <2>1
  <2>3. gen[e] \in 0..gen[e]
    BY <2>1
  <2>4. ASSUME NEW m \in net' \ net
        PROVE  m.type = "REGISTER_SUPER" /\ Once(m, m.src, gen', running')
    BY <1>4, <1>5, <2>1, <2>3 DEF Once, Sock
  <2> QED BY <2>1, <2>2, <2>4, AnsweredStays DEF AInv
<1>8. Vouched'
  <2> SUFFICES ASSUME NEW m \in net', NEW x \in Edges, m.type = "REGISTER_SUPER_ACK", m.mac = x,
                      m.cookie = cookie'[x], running'[x], m.dst = Sock(x)
               PROVE  granted'[x] # {}
    BY <1>1 DEF Vouched, Sock
  <2>1. m \in net
    BY <1>4
  <2>2. CASE x # e
    BY <1>5, <2>1, <2>2 DEF AInv, Vouched
  <2>3. CASE x = e
    <3>1. c = cookie[e] /\ granted'[e] = granted[e]
      BY <1>2, <1>5, <2>1, <2>3
    <3>2. Once(m, m.dst, gen, running)
      BY <2>1 DEF AInv, Answered, Answers
    <3>3. running[e]
      BY <2>3, <3>2 DEF Once, Sock
    <3> QED BY <1>5, <2>1, <2>3, <3>1, <3>3 DEF AInv, Vouched
  <2> QED BY <2>2, <2>3
<1> QED BY <1>5, <1>6, <1>7, <1>8 DEF AInv

\* The supernode that acknowledges is one that took the registration.
LEMMA GrantStep ==
  ASSUME AInv, NEW s \in Supernodes, Supernode(s)
  PROVE  AInv'
<1>1. PICK m \in net : process_udp(s, m, cookie)
  BY DEF Supernode
<1>2. UNCHANGED <<running, snWait, cookie>> /\ gen' = gen
  BY <1>1 DEF Supernode, edgeVars, process_udp, SnPacket, SnRegister, SnRegisterSuper,
     SnQueryPeer, SnExchange
<1>3. ASSUME NEW type, NEW to, NEW sock PROVE SnReply(s, m, type, to, sock).type = type
  BY DEF SnReply
<1>4. CASE SnPacket(s, m) \/ SnRegister(s, m) \/ SnQueryPeer(s, m)
  <2>1. granted' = granted
    BY <1>4 DEF SnPacket, SnRegister, SnQueryPeer, supernodeVars
  <2>2. PICK out : SnExchange(m, out) /\ NoSuperAck(out)
    <3>1. m.type \in {"PACKET", "REGISTER"} => \A to : NoSuperAck(Forwarded(s, m, to))
      BY <1>3 DEF Forwarded, NoSuperAck
    <3>2. NoSuperAck({SnReply(s, m, "PEER_INFO", m.src, edges[s][t]) :
                      t \in {m.to} \cap DOMAIN edges[s]})
      BY <1>3 DEF NoSuperAck
    <3> QED BY <1>4, <3>1, <3>2 DEF SnPacket, SnRegister, SnQueryPeer, try_forward, try_broadcast
  <2>3. NoSuperAck(net' \ net)
    BY <2>2, InFlight DEF SnExchange, NoSuperAck
  <2> QED BY <1>2, <2>1, <2>3, RegistrationsStay
<1>5. CASE SnRegisterSuper(s, m, cookie)
  <2> DEFINE ack == SnReply(s, m, "REGISTER_SUPER_ACK", m.src, m.src)
  <2>1. /\ net' \subseteq net \cup {ack}
        /\ granted' = IF m.cookie = cookie[m.mac]
                      THEN [granted EXCEPT ![m.mac] = @ \cup {s}] ELSE granted
    BY <1>5, InFlight DEF SnRegisterSuper, SnExchange
  <2>2. ack.mac = m.mac /\ ack.cookie = m.cookie
    BY DEF SnReply
  <2>6. ack.type = "REGISTER_SUPER_ACK" /\ ack.dst = m.src
    BY DEF SnReply
  <2> HIDE DEF ack
  <2>3. /\ Registered' /\ \A e \in Edges : granted[e] \subseteq granted'[e]
        /\ \A e \in Edges : m.mac = e /\ m.cookie = cookie[e] => granted'[e] # {}
    BY <1>2, <2>1 DEF AInv, Registered
  <2>4. AckFresh'
    BY <1>2, <2>3 DEF AInv, AckFresh
  <2>5. Vouched'
    BY <1>2, <2>1, <2>2, <2>3 DEF AInv, Vouched, Sock
  <2>7. Answered'
    <3>1. Once(m, m.src, gen, running)
      BY <1>5 DEF SnRegisterSuper, AInv, Answered, Answers
    <3>2. \A d \in net' : d \in net \/ d = ack
      BY <2>1
    <3>3. Once(ack, ack.dst, gen, running)
      BY <2>2, <2>6, <3>1 DEF Once
    <3>4. \A d \in net' : /\ d.type = "REGISTER_SUPER" => Once(d, d.src, gen, running)
                          /\ d.type = "REGISTER_SUPER_ACK" => Once(d, d.dst, gen, running)
      BY <2>6, <3>2, <3>3 DEF AInv, Answered, Answers
    <3>5. running' = running /\ gen' = gen
      BY <1>2
    <3>6. Answers(net', gen', running')
      BY <3>4, <3>5 DEF Answers
    <3> QED BY <3>6 DEF Answered
  <2> QED BY <2>3, <2>4, <2>5, <2>7 DEF AInv
<1> QED BY <1>1, <1>4, <1>5 DEF process_udp

\* REGISTER_SUPER_ACK with the cookie: whatever is lost, late or doubled and
\* whichever names resolve, an edge that waits for no supernode was registered by
\* one with the cookie it drew last, if every cookie drawn differs from those that
\* are under way.
THEOREM AcksAreFresh == Spec /\ []CookiesLeft => []AckFresh
<1>1. Init => AInv
  BY DEF Init, NetInit, SupernodeInit, EdgeInit, AInv, Registered, Answered, Answers,
     Vouched, AckFresh
<1>2. IInv /\ AInv /\ CookiesLeft /\ [Next]_vars => AInv'
  <2> SUFFICES ASSUME IInv, AInv, CookiesLeft, [Next]_vars PROVE AInv'
    OBVIOUS
  <2>1. CASE Network \/ (\E s \in Supernodes : SupernodeForgets(s)) \/ UNCHANGED vars
    <3>1. net' \subseteq net /\ UNCHANGED <<running, snWait, cookie, granted>>
      BY <2>1 DEF Network, NetNext, Vanish, Lose, Rebind, SupernodeForgets, SnRestart,
         SnPurge, edgeVars, supernodeVars, vars, netVars
    <3>2. gen' = gen \/ \E e \in Edges : gen' = [gen EXCEPT ![e] = @ + 1]
      BY <2>1 DEF Network, NetNext, Vanish, Lose, Rebind, NewSocket, SupernodeForgets, SnRestart,
         SnPurge, vars, netVars
    <3> QED BY <3>1, <3>2, RegistrationsStay DEF NoSuperAck
  <2>2. CASE \E s \in Supernodes : Supernode(s)
    BY <2>2, GrantStep
  <2>3. CASE \E e \in Edges : readFromIPSocket(e)
    <3>1. PICK e \in Edges, m \in net : ReadDatagram(e, m)
      BY <2>3 DEF readFromIPSocket
    <3>2. CASE ReceiveRegisterSuperAck(e, m)
      BY <3>2, AckedStep
    <3>3. CASE ~ReceiveRegisterSuperAck(e, m)
      <4>1. UNCHANGED <<running, snWait, cookie, granted>> /\ gen' = gen
        BY <3>1, <3>3 DEF ReadDatagram, ReceivePacket, ReceiveRegister, ReceiveRegisterAck,
           ReceivePeerInfo, superVars, supernodeVars, Update, EdgeExchange
      <4> QED BY <3>1, <4>1, ReadSends, RegistrationsStay
    <3> QED BY <3>2, <3>3
  <2>4. CASE \E e \in Edges : Talk(e)
    <3>1. UNCHANGED <<running, snWait, cookie, granted>> /\ gen' = gen
      BY <2>4 DEF Talk, edge_send_packet2net, SendTo, superVars, supernodeVars, Update,
         EdgeExchange
    <3> QED BY <2>4, <3>1, TalkSends, RegistrationsStay
  <2>5. CASE \E e \in Edges : Timers(e)
    <3>1. PICK e \in Edges : Timers(e)
      BY <2>5
    <3>2. CASE update_supernode_reg(e)
      <4>1. running' = [running EXCEPT ![e] = TRUE]
        BY <3>2 DEF update_supernode_reg, AInv, Registered
      <4> QED BY <3>2, <4>1, NewRound DEF update_supernode_reg
    <3>3. CASE ~update_supernode_reg(e)
      <4>1. net' = net /\ gen' = gen /\ UNCHANGED <<running, snWait, cookie, granted>>
        BY <3>1, <3>3 DEF Timers, Idle, QueryAgain, PurgePending, PurgeKnown, superVars,
           supernodeVars
      <4> QED BY <4>1, RegistrationsStay DEF NoSuperAck
    <3> QED BY <3>2, <3>3
  <2>6. CASE \E e \in Edges : EdgeStart(e)
    BY <2>6, NewRound DEF EdgeStart
  <2>7. CASE \E e \in Edges : EdgeStop(e)
    <3>1. PICK e \in Edges : EdgeStop(e)
      BY <2>7
    <3>0. gen \in [Edges -> Nat] /\ gen' = [gen EXCEPT ![e] = @ + 1]
      BY <3>1 DEF EdgeStop, NewSocket, AInv, Registered
    <3>6. gen' \in [Edges -> Nat] /\ \A x \in Edges \ {e} : gen'[x] = gen[x]
      BY <3>0
    <3>2. /\ Registered' /\ ~running'[e] /\ net' = net
          /\ \A x \in Edges \ {e} : /\ running'[x] = running[x] /\ snWait'[x] = snWait[x]
                                    /\ cookie'[x] = cookie[x] /\ granted'[x] = granted[x]
      BY <3>1, <3>6 DEF EdgeStop, AInv, Registered
    <3>3. AckFresh'
      BY <3>2 DEF AInv, AckFresh
    <3>4. Vouched'
      BY <3>2, <3>6 DEF AInv, Vouched, Sock
    <3>5. Answered'
      <4>1. gen' \in [Edges -> Nat] /\ gen'[e] # gen[e] /\ \A x \in Edges : gen[x] <= gen'[x]
        BY <3>0
      <4>2. \A x \in Edges : running[x] /\ ~running'[x] => gen[x] # gen'[x]
        BY <3>2, <4>1
      <4> QED BY <3>0, <3>2, <4>1, <4>2, AnsweredStays DEF AInv
    <3> QED BY <3>2, <3>3, <3>4, <3>5 DEF AInv
  <2> QED BY <2>1, <2>2, <2>3, <2>4, <2>5, <2>6, <2>7 DEF Next
<1>3. AInv => AckFresh
  BY DEF AInv
<1> QED BY <1>1, <1>2, <1>3, Inductive, PTL DEF Spec

-----------------------------------------------------------------------------
(***************************************************************************)
(* Types, and with them who is where: an address that names an edge leads  *)
(* to a socket of that edge.  A supernode stamps what it forwards with the *)
(* sender's socket and stores only the socket a REGISTER_SUPER came from   *)
(* (WellFormed, Tabled), so a peer is only ever looked for at sockets of   *)
(* its own (Fits), and an edge never meets itself as a peer.               *)
(***************************************************************************)
Gens == 0..MaxFaults
EdgeSocks == Edges \X Gens
SnSocks == {<<s, Port[t]>> : s \in Supernodes, t \in Supernodes}

WellFormed(m) ==
  /\ m.mac \in Edges
  /\ IF m.via THEN m.src \in SnSocks /\ m.dst \in EdgeSocks ELSE m.src \in {m.mac} \X Gens
  /\ m.type = "REGISTER_ACK" => ~m.via
  /\ m.type \in {"PACKET", "REGISTER"} => m.to # m.mac /\ (m.via => m.sock \in {m.mac} \X Gens)
  /\ m.type = "PEER_INFO" => m.sock \in {m.to} \X Gens
  /\ m.dst \in EdgeSocks \cup SnSocks
  /\ m.type \in {"PACKET", "REGISTER", "REGISTER_ACK"} /\ m.dst \in EdgeSocks => m.dst[1] # m.mac

Posted == \A m \in net : WellFormed(m)

\* The tables of an edge: its peers, each at a socket of its own.
Fits(e, P, K) ==
  /\ \A p \in DOMAIN P : p \in Peers(e) /\ P[p].sock \in {NoSock} \cup ({p} \X Gens)
  /\ \A p \in DOMAIN K : p \in Peers(e) /\ K[p].sock \in {p} \X Gens

Fitted == \A e \in Edges : Fits(e, pending[e], known[e])

\* The table of a supernode.
Fills(E) == \A e \in DOMAIN E : e \in Edges /\ E[e] \in {e} \X Gens

Tabled ==
  /\ edges = [s \in Supernodes |-> edges[s]]
  /\ \A s \in Supernodes : Fills(edges[s])

Counted == faults \in Gens /\ gen \in [Edges -> Nat] /\ \A e \in Edges : gen[e] <= faults

Rounds ==
  /\ supernode \in [Edges -> {NoSock} \cup SnSocks]
  /\ snIdx \in [Edges -> DOMAIN Ring]
  /\ attempts \in [Edges -> 0..SupAttempts]

\* CookiesLeft: a round draws a cookie.
Drawn == cookie \in [Edges -> Cookies \cup {0}]

TInv == IInv /\ Posted /\ Fitted /\ Tabled /\ Counted /\ Rounds

LEMMA Apart ==
  /\ NoSock \notin EdgeSocks /\ EdgeSocks \cap SnSocks = {}
  /\ \A s \in Supernodes : SnSock(s) \in SnSocks
  /\ \A e \in Edges : \A k \in {e} \X Gens : k \in EdgeSocks /\ k[1] = e /\ k # NoSock
<1>1. Edges \cap Supernodes = {} /\ "none" \notin Edges
  BY NetworkAssumption
<1> QED BY <1>1 DEF NoSock, EdgeSocks, SnSocks, SnSock

\* What a supernode's socket never is.
LEMMA NotSn == NoSock \notin SnSocks
<1>1. "none" \notin Supernodes
  BY NetworkAssumption
<1> QED BY <1>1 DEF NoSock, SnSocks

LEMMA OwnSocket ==
  ASSUME Counted, NEW e \in Edges PROVE Sock(e) \in {e} \X Gens /\ Sock(e) \in EdgeSocks
<1>1. gen[e] \in Gens
  BY NetworkAssumption DEF Counted, Gens
<1> QED BY <1>1 DEF Sock, EdgeSocks

LEMMA TypeParts == TInv /\ Drawn => TypeOK
<1> SUFFICES ASSUME TInv, Drawn PROVE TypeOK
  OBVIOUS
<1>1. \A m \in net : m.src \in Sockets /\ m.dst \in Sockets \ {NoSock}
  <2> SUFFICES ASSUME NEW m \in net PROVE m.src \in Sockets /\ m.dst \in Sockets \ {NoSock}
    OBVIOUS
  <2>1. EdgeSocks \cup SnSocks \subseteq Sockets \ {NoSock}
    <3>1. EdgeSocks \subseteq Sockets
      BY DEF EdgeSocks, Gens, Sockets
    <3>2. SnSocks \subseteq Sockets
      BY DEF SnSocks, Sockets
    <3> QED BY <3>1, <3>2, Apart, NotSn
  <2>2. WellFormed(m)
    BY DEF TInv, Posted
  <2>3. m.src \in EdgeSocks \cup SnSocks
    BY <2>2, Apart DEF WellFormed
  <2>4. m.dst \in EdgeSocks \cup SnSocks
    BY <2>2 DEF WellFormed
  <2> QED BY <2>1, <2>3, <2>4
<1>2. gen \in [Edges -> 0..MaxFaults]
  BY NetworkAssumption DEF TInv, Counted, Gens
<1>3. \A e \in Edges : DOMAIN pending[e] \subseteq Peers(e) /\ DOMAIN known[e] \subseteq Peers(e)
  BY DEF TInv, Fitted, Fits
<1>4. \A s \in Supernodes : \A e \in DOMAIN edges[s] : edges[s][e] \in Edges \X Nat
  BY NetworkAssumption DEF TInv, Tabled, Fills, Gens
<1>5. \A e \in Edges : /\ cookie[e] \in Cookies \cup {0} /\ snIdx[e] \in DOMAIN Ring
                       /\ attempts[e] \in 0..SupAttempts
  BY DEF TInv, Rounds, Drawn
<1> QED BY <1>1, <1>2, <1>3, <1>4, <1>5 DEF TypeOK

LEMMA TypesInitially == Init => TInv
<1> SUFFICES ASSUME Init PROVE TInv
  OBVIOUS
<1> USE DEF Init, NetInit, SupernodeInit, EdgeInit
<1>1. DOMAIN Empty = {}
  BY DEF Empty
<1>2. IInv
  BY InitiallyHolds
<1>3. Posted /\ Fitted /\ Tabled
  BY <1>1 DEF Posted, Fitted, Fits, Tabled, Fills
<1>4. Counted
  BY NetworkAssumption DEF Counted, Gens
<1>5. Rounds
  <2>1. 1 \in DOMAIN Ring /\ SupAttempts \in 0..SupAttempts
    BY EdgeAssumption
  <2> QED BY <2>1 DEF Rounds
<1> QED BY <1>2, <1>3, <1>4, <1>5 DEF TInv

-----------------------------------------------------------------------------
\* What is sent

\* An edge's own datagrams are well-formed when they go to the supernode, or to a
\* socket of the peer they are for.
LEMMA OwnMail ==
  ASSUME Counted, Rounds, NEW e \in Edges, NEW p \in Peers(e), NEW dst,
         dst \in {NoSock} \cup SnSocks \cup ({p} \X Gens)
  PROVE  /\ dst # NoSock => WellFormed(send_register(e, p, dst))
         /\ dst # NoSock => WellFormed(send_register_ack(e, p, dst))
         /\ dst # NoSock => WellFormed(send_packet(e, p, dst))
         /\ supernode[e] # NoSock => WellFormed(send_query_peer(e, p))
<1>1. Sock(e) \in {e} \X Gens
  BY OwnSocket
<1>2. dst # NoSock => dst \in EdgeSocks \cup SnSocks /\ (dst \in EdgeSocks => dst[1] # e)
  BY Apart DEF Peers
<1>3. supernode[e] # NoSock => supernode[e] \in SnSocks
  BY DEF Rounds
<1>4. ASSUME NEW type \in {"REGISTER", "REGISTER_ACK", "PACKET"}, dst # NoSock
      PROVE  WellFormed(Datagram(type, Sock(e), dst, e, p))
  BY <1>1, <1>2, <1>4 DEF Datagram, WellFormed, Peers
<1>5. supernode[e] # NoSock => WellFormed(Datagram("QUERY_PEER", Sock(e), supernode[e], e, p))
  BY <1>1, <1>3 DEF Datagram, WellFormed
<1> QED BY <1>4, <1>5 DEF send_register, send_register_ack, send_packet, send_query_peer

\* A broadcast frame goes to the supernode.
LEMMA BroadcastMail ==
  ASSUME Counted, Rounds, NEW e \in Edges, supernode[e] # NoSock
  PROVE  WellFormed(send_packet(e, Broadcast, supernode[e]))
<1>1. Sock(e) \in {e} \X Gens /\ supernode[e] \in SnSocks /\ Broadcast # e
  BY OwnSocket, NetworkAssumption DEF Rounds
<1>2. supernode[e] \notin EdgeSocks
  BY <1>1, Apart
<1> QED BY <1>1, <1>2 DEF send_packet, Datagram, WellFormed

LEMMA PostedStays ==
  ASSUME Posted, NEW in, NEW out, Exchange(in, out),
         \A m \in out : m.dst # NoSock => WellFormed(m)
  PROVE  Posted'
<1>1. net' \subseteq net \cup {m \in out : m.dst # NoSock}
  BY DEF Exchange
<1>2. \A m \in net' : WellFormed(m)
  BY <1>1 DEF Posted
<1> QED BY <1>2 DEF Posted, WellFormed

\* The network's budget of faults.
LEMMA CountedStays ==
  ASSUME Counted, faults' = faults \/ \E kind : Fault(kind),
         gen' = gen \/ \E e \in Edges : /\ gen' = [gen EXCEPT ![e] = @ + 1]
                                        /\ \E kind : Fault(kind)
  PROVE  Counted'
<1>1. faults' \in Gens /\ faults <= faults'
  BY NetworkAssumption DEF Counted, Fault, Gens
<1>2. CASE gen' = gen
  BY <1>1, <1>2, NetworkAssumption DEF Counted, Gens
<1>3. CASE \E e \in Edges : gen' = [gen EXCEPT ![e] = @ + 1] /\ \E kind : Fault(kind)
  <2>1. PICK e \in Edges : gen' = [gen EXCEPT ![e] = @ + 1] /\ faults' = faults + 1
    BY <1>3 DEF Fault
  <2>2. gen' \in [Edges -> Nat]
    BY <2>1 DEF Counted
  <2>3. \A x \in Edges : gen'[x] <= faults'
    BY <2>1, NetworkAssumption DEF Counted, Gens
  <2> QED BY <1>1, <2>2, <2>3 DEF Counted
<1> QED BY <1>2, <1>3

-----------------------------------------------------------------------------
\* The tables of the edges

LEMMA NewPeerFits ==
  ASSUME Counted, Rounds, NEW e \in Edges, NEW P, NEW K, Fits(e, P, K),
         NEW via, NEW p \in Peers(e), NEW sock \in {p} \X Gens,
         NEW t, t = register_with_new_peer(e, P, K, via, p, sock)
  PROVE  Fits(e, t.pending, t.known) /\ \A m \in t.out : m.dst # NoSock => WellFormed(m)
<1>1. CASE p \in DOMAIN P
  <2> DEFINE Q == [P EXCEPT ![p].sock = sock]
  <2>1. t.pending = Q /\ t.known = K /\ t.out = {}
    BY <1>1 DEF register_with_new_peer, Tables
  <2>2. DOMAIN Q = DOMAIN P /\ \A q \in DOMAIN P \ {p} : Q[q] = P[q]
    OBVIOUS
  <2>3. Q[p].sock = sock \/ Q[p].sock = P[p].sock
    <3>1. Q[p] = [P[p] EXCEPT !.sock = sock]
      BY <1>1
    <3> HIDE DEF Q
    <3> QED BY <3>1
  <2> HIDE DEF Q
  <2> QED BY <2>1, <2>2, <2>3 DEF Fits
<1>2. CASE p \notin DOMAIN P
  <2> DEFINE Q == Put(P, p, [sock |-> sock, asked |-> FALSE])
  <2>1. t.pending = Q /\ t.known = K
    BY <1>2 DEF register_with_new_peer, Tables
  <2>2. /\ DOMAIN Q = DOMAIN P \cup {p} /\ Q[p].sock = sock
        /\ \A q \in DOMAIN P : Q[q] = P[q]
    BY <1>2 DEF Put
  <2>3. \A m \in t.out : m = send_register(e, p, sock) \/ m = send_register(e, p, supernode[e])
    BY <1>2 DEF register_with_new_peer, Tables
  <2>4. supernode[e] \in {NoSock} \cup SnSocks
    BY DEF Rounds
  <2>5. \A m \in t.out : m.dst # NoSock => WellFormed(m)
    <3>1. \A dst : send_register(e, p, dst).dst = dst
      BY DEF send_register, Datagram
    <3> QED BY <2>3, <2>4, <3>1, OwnMail
  <2> HIDE DEF Q
  <2> QED BY <2>1, <2>2, <2>5 DEF Fits
<1> QED BY <1>1, <1>2

LEMMA CheckFits ==
  ASSUME Counted, Rounds, NEW e \in Edges, NEW P, NEW K, Fits(e, P, K),
         NEW via, NEW p \in Peers(e), NEW sock \in {p} \X Gens, NEW later,
         NEW t, t = check_peer_registration_needed(e, P, K, via, p, sock, later)
  PROVE  Fits(e, t.pending, t.known) /\ \A m \in t.out : m.dst # NoSock => WellFormed(m)
<1>1. CASE p \notin DOMAIN K
  BY <1>1, NewPeerFits DEF check_peer_registration_needed
<1>2. CASE p \in DOMAIN K
  <2> DEFINE K2 == Put(K, p, [sock |-> K[p].sock, idle |-> FALSE])
             K1 == IF via THEN K ELSE K2
  <2>1. /\ DOMAIN K2 = DOMAIN K /\ K2[p].sock = K[p].sock
        /\ \A q \in DOMAIN K \ {p} : K2[q] = K[q]
    BY <1>2 DEF Put
  <2>2. t = IF later THEN check_known_peer_sock_change(e, P, K1, via, p, sock)
            ELSE Tables(P, K1, {})
    BY <1>2 DEF check_peer_registration_needed
  <2>3. K1 = K \/ K1 = K2
    OBVIOUS
  <2> HIDE DEF K2, K1
  <2>4. Fits(e, P, K1)
    BY <2>1, <2>3 DEF Fits
  <2>5. CASE t = Tables(P, K1, {})
    BY <2>4, <2>5 DEF Tables
  <2>6. CASE t = register_with_new_peer(e, P, Del(K1, p), via, p, sock)
    <3>1. DOMAIN Del(K1, p) \subseteq DOMAIN K1 /\ \A q \in DOMAIN Del(K1, p) : Del(K1, p)[q] = K1[q]
      BY DEF Del
    <3>2. Fits(e, P, Del(K1, p))
      BY <2>4, <3>1 DEF Fits
    <3> QED BY <2>6, <3>2, NewPeerFits
  <2> QED BY <2>2, <2>5, <2>6 DEF check_known_peer_sock_change
<1> QED BY <1>1, <1>2

LEMMA FittedStays ==
  ASSUME IInv, Fitted, NEW e \in Edges, NEW P, NEW K, Fits(e, P, K),
         pending' = [pending EXCEPT ![e] = P], known' = [known EXCEPT ![e] = K]
  PROVE  Fitted'
<1>1. pending'[e] = P /\ known'[e] = K
  BY DEF IInv, Shape
<1>2. \A x \in Edges \ {e} : pending'[x] = pending[x] /\ known'[x] = known[x]
  BY DEF IInv, Shape
<1>3. \A x \in Edges : Fits(x, pending'[x], known'[x])
  BY <1>1, <1>2 DEF Fitted
<1> QED BY <1>3 DEF Fitted, Fits, Peers

\* A datagram an edge reads is somebody else's.
LEMMA FromAPeer ==
  ASSUME TInv, NEW e \in Edges, NEW m \in net, Takes(e, m)
  PROVE  /\ WellFormed(m)
         /\ m.type \in {"PACKET", "REGISTER", "REGISTER_ACK"} => m.mac \in Peers(e)
         /\ m.type \in {"PACKET", "REGISTER"} => OrigSender(m) \in {m.mac} \X Gens
         /\ m.type = "REGISTER_ACK" => m.src \in {m.mac} \X Gens
<1>1. WellFormed(m) /\ m.dst = Sock(e) /\ Honest(m, proven)
  BY DEF TInv, Posted, Takes, Reaches, IInv, Mail
<1>2. m.dst \in EdgeSocks /\ m.dst[1] = e
  BY <1>1, OwnSocket, Apart DEF TInv
<1>3. m.type \in {"PACKET", "REGISTER"} => OrigSender(m) \in {m.mac} \X Gens
  <2>1. CASE m.via
    BY <1>1, <2>1, Apart DEF WellFormed, OrigSender
  <2>2. CASE ~m.via
    BY <1>1, <2>2 DEF WellFormed, Honest, OrigSender
  <2> QED BY <2>1, <2>2
<1> QED BY <1>1, <1>2, <1>3 DEF WellFormed, Peers

\* The parts of the invariant an edge's own step may change.
LEMMA UpdateTyped ==
  ASSUME TInv, NEW e \in Edges, NEW t, NEW in, NEW out, Update(e, t, in, out),
         Fits(e, t.pending, t.known), \A m \in out : m.dst # NoSock => WellFormed(m),
         UNCHANGED <<superVars, supernodeVars>>
  PROVE  Posted' /\ Fitted' /\ Tabled' /\ Counted' /\ Rounds'
<1>1. Posted'
  BY PostedStays DEF TInv, Update, EdgeExchange
<1>2. Fitted'
  BY FittedStays DEF TInv, Update
<1>3. Counted'
  BY CountedStays DEF TInv, Update, EdgeExchange, Exchange
<1>4. Tabled' /\ Rounds'
  BY DEF TInv, Tabled, Rounds, superVars, supernodeVars
<1> QED BY <1>1, <1>2, <1>3, <1>4

LEMMA ReadTyped ==
  ASSUME TInv, NEW e \in Edges, NEW m \in net, ReadDatagram(e, m)
  PROVE  Posted' /\ Fitted' /\ Tabled' /\ Counted' /\ Rounds'
<1>0. Counted /\ Rounds /\ Fits(e, pending[e], known[e])
  BY DEF TInv, Fitted
<1> DEFINE T(later) == check_peer_registration_needed(
                         e, Heard(e, m), known[e], m.via, m.mac, OrigSender(m), later)
<1>1. ASSUME Takes(e, m), m.type \in {"PACKET", "REGISTER"}, NEW later
      PROVE  /\ Fits(e, T(later).pending, T(later).known)
             /\ \A d \in T(later).out : d.dst # NoSock => WellFormed(d)
  <2>1. Fits(e, Heard(e, m), known[e])
    BY <1>0 DEF Fits, Heard, Del
  <2>2. m.mac \in Peers(e) /\ OrigSender(m) \in {m.mac} \X Gens
    BY <1>1, FromAPeer
  <2> QED BY <1>0, <2>1, <2>2, CheckFits
<1> HIDE DEF T
<1>2. CASE ReceivePacket(e, m)
  <2>1. PICK later \in Later : Update(e, T(later), {m}, T(later).out)
    BY <1>2 DEF ReceivePacket, T
  <2>2. Takes(e, m) /\ m.type \in {"PACKET", "REGISTER"} /\ UNCHANGED <<superVars, supernodeVars>>
    BY <1>2 DEF ReceivePacket
  <2> QED BY <1>1, <2>1, <2>2, UpdateTyped
<1>3. CASE ReceiveRegister(e, m)
  <2> DEFINE ack == IF m.via THEN {} ELSE {send_register_ack(e, m.mac, OrigSender(m))}
  <2>1. PICK later \in Later : Update(e, T(later), {m}, T(later).out \cup ack)
    BY <1>3 DEF ReceiveRegister, T
  <2>2. Takes(e, m) /\ m.type \in {"PACKET", "REGISTER"} /\ UNCHANGED <<superVars, supernodeVars>>
    BY <1>3 DEF ReceiveRegister
  <2>3. \A d \in ack : d.dst # NoSock => WellFormed(d)
    <3>1. m.mac \in Peers(e) /\ OrigSender(m) \in {m.mac} \X Gens
      BY <2>2, FromAPeer
    <3>2. send_register_ack(e, m.mac, OrigSender(m)).dst = OrigSender(m)
      BY DEF send_register_ack, Datagram
    <3> QED BY <1>0, <3>1, <3>2, OwnMail
  <2> HIDE DEF ack
  <2> QED BY <1>1, <2>1, <2>2, <2>3, UpdateTyped
<1>4. CASE ReceiveRegisterAck(e, m)
  <2> DEFINE t == peer_set_p2p_confirmed(e, m.mac, m.src)
  <2>1. Update(e, t, {m}, {}) /\ Takes(e, m) /\ m.type = "REGISTER_ACK"
        /\ UNCHANGED <<superVars, supernodeVars>>
    BY <1>4 DEF ReceiveRegisterAck
  <2>2. m.mac \in Peers(e) /\ m.src \in {m.mac} \X Gens
    BY <2>1, FromAPeer
  <2>3. CASE m.mac \notin DOMAIN pending[e]
    <3>1. t.pending = pending[e] /\ t.known = known[e]
      BY <2>3 DEF peer_set_p2p_confirmed, Tables
    <3> QED BY <1>0, <2>1, <3>1, UpdateTyped
  <2>4. CASE m.mac \in DOMAIN pending[e]
    <3>1. /\ t.pending = Del(pending[e], m.mac)
          /\ t.known = Put(known[e], m.mac, [sock |-> m.src, idle |-> FALSE])
      BY <2>4 DEF peer_set_p2p_confirmed, Tables
    <3> HIDE DEF t
    <3>2. /\ DOMAIN t.pending \subseteq DOMAIN pending[e]
          /\ \A p \in DOMAIN t.pending : t.pending[p] = pending[e][p]
      BY <3>1 DEF Del
    <3>3. /\ DOMAIN t.known = DOMAIN known[e] \cup {m.mac} /\ t.known[m.mac].sock = m.src
          /\ \A p \in DOMAIN known[e] \ {m.mac} : t.known[p] = known[e][p]
      BY <3>1 DEF Put
    <3>4. Fits(e, t.pending, t.known)
      BY <1>0, <2>2, <3>2, <3>3 DEF Fits
    <3> QED BY <2>1, <3>4, UpdateTyped
  <2> QED BY <2>3, <2>4
<1>5. CASE ReceiveRegisterSuperAck(e, m)
  <2>1. Posted'
    BY <1>5, PostedStays DEF ReceiveRegisterSuperAck, EdgeExchange, TInv
  <2>2. Counted'
    BY <1>5, CountedStays DEF ReceiveRegisterSuperAck, EdgeExchange, Exchange, TInv
  <2>3. Fitted' /\ Tabled'
    BY <1>5 DEF ReceiveRegisterSuperAck, peerVars, supernodeVars, TInv, Fitted, Fits, Peers, Tabled
  <2>4. Rounds'
    <3>1. attempts' \in [Edges -> 0..SupAttempts]
      BY <1>0, <1>5, EdgeAssumption DEF ReceiveRegisterSuperAck, Rounds
    <3> QED BY <1>0, <1>5, <3>1 DEF ReceiveRegisterSuperAck, Rounds
  <2> QED BY <2>1, <2>2, <2>3, <2>4
<1>6. CASE ReceivePeerInfo(e, m)
  <2> DEFINE P == [pending[e] EXCEPT ![m.to].sock = m.sock]
  <2>1. Takes(e, m) /\ m.type = "PEER_INFO" /\ UNCHANGED <<superVars, supernodeVars>>
    BY <1>6 DEF ReceivePeerInfo
  <2>2. CASE m.to \notin DOMAIN pending[e]
    <3> DEFINE t == Tables(pending[e], known[e], {})
    <3>1. Update(e, t, {m}, {})
      BY <1>6, <2>2 DEF ReceivePeerInfo
    <3>2. Fits(e, t.pending, t.known)
      BY <1>0 DEF Tables
    <3> HIDE DEF t
    <3> QED BY <2>1, <3>1, <3>2, UpdateTyped
  <2>3. CASE m.to \in DOMAIN pending[e]
    <3> DEFINE t == Tables(P, known[e], {})
    <3>1. Update(e, t, {m}, {send_register(e, m.to, m.sock)})
      BY <1>6, <2>3 DEF ReceivePeerInfo
    <3>2. m.sock \in {m.to} \X Gens /\ m.to \in Peers(e)
      BY <1>0, <2>1, <2>3, FromAPeer DEF WellFormed, Fits
    <3>3. DOMAIN P = DOMAIN pending[e] /\ \A q \in DOMAIN P \ {m.to} : P[q] = pending[e][q]
      OBVIOUS
    <3>4. P[m.to].sock = m.sock \/ P[m.to].sock = pending[e][m.to].sock
      <4>1. P[m.to] = [pending[e][m.to] EXCEPT !.sock = m.sock]
        BY <2>3
      <4> HIDE DEF P
      <4> QED BY <4>1
    <3> HIDE DEF P
    <3>5. Fits(e, t.pending, t.known)
      BY <1>0, <3>2, <3>3, <3>4 DEF Tables, Fits
    <3>6. WellFormed(send_register(e, m.to, m.sock))
      <4>1. m.sock # NoSock
        BY <3>2, Apart DEF Peers
      <4> QED BY <1>0, <3>2, <4>1, OwnMail
    <3> HIDE DEF t
    <3> QED BY <2>1, <3>1, <3>5, <3>6, UpdateTyped
  <2> QED BY <2>2, <2>3
<1> QED BY <1>2, <1>3, <1>4, <1>5, <1>6 DEF ReadDatagram

LEMMA TalkTyped ==
  ASSUME TInv, NEW e \in Edges, Talk(e)
  PROVE  Posted' /\ Fitted' /\ Tabled' /\ Counted' /\ Rounds'
<1>0. Counted /\ Rounds /\ Fits(e, pending[e], known[e]) /\ supernode[e] \in {NoSock} \cup SnSocks
  BY DEF TInv, Fitted, Rounds
<1>1. \A to, dst : send_packet(e, to, dst).dst = dst /\ send_query_peer(e, to).dst = supernode[e]
  BY DEF send_packet, send_query_peer, Datagram
<1>2. PICK to \in Peers(e) \cup {Broadcast} : edge_send_packet2net(e, to)
  BY DEF Talk
<1>3. UNCHANGED <<superVars, supernodeVars>>
  BY <1>2 DEF edge_send_packet2net
<1> DEFINE t0 == Tables(pending[e], known[e], {})
<1>4. Fits(e, t0.pending, t0.known)
  BY <1>0 DEF Tables
<1> HIDE DEF t0
<1>5. CASE to = Broadcast
  <2>1. Update(e, t0, {}, {send_packet(e, to, supernode[e])})
    BY <1>2, <1>5 DEF edge_send_packet2net, t0
  <2>2. \A m \in {send_packet(e, to, supernode[e])} : m.dst # NoSock => WellFormed(m)
    BY <1>0, <1>1, <1>5, BroadcastMail
  <2> QED BY <1>3, <1>4, <2>1, <2>2, UpdateTyped
<1>6. CASE to \in Peers(e) /\ to # Broadcast /\ to \in DOMAIN known[e] /\ ~known[e][to].idle
  <2>1. Update(e, t0, {}, {send_packet(e, to, known[e][to].sock)})
    BY <1>2, <1>6 DEF edge_send_packet2net, SendTo, t0
  <2>2. known[e][to].sock \in {to} \X Gens
    BY <1>0, <1>6 DEF Fits
  <2>3. \A m \in {send_packet(e, to, known[e][to].sock)} : m.dst # NoSock => WellFormed(m)
    BY <1>0, <1>1, <1>6, <2>2, OwnMail
  <2> QED BY <1>3, <1>4, <2>1, <2>3, UpdateTyped
<1>7. CASE to \in Peers(e) /\ to # Broadcast /\ ~(to \in DOMAIN known[e] /\ ~known[e][to].idle)
  <2> DEFINE P == IF to \in DOMAIN pending[e] THEN pending[e]
                  ELSE Put(pending[e], to, [sock |-> NoSock, asked |-> FALSE])
             Q == [P EXCEPT ![to].asked = TRUE]
             K == Del(known[e], to)
             t == Tables(Q, K, {})
             out == {send_packet(e, to, supernode[e])}
                      \cup (IF P[to].asked THEN {} ELSE {send_query_peer(e, to)})
  <2>1. Update(e, t, {}, out)
    BY <1>2, <1>7 DEF edge_send_packet2net, SendTo
  <2>2. /\ DOMAIN P = DOMAIN pending[e] \cup {to}
        /\ \A q \in DOMAIN P : (q \in DOMAIN pending[e] /\ P[q] = pending[e][q])
                               \/ (q = to /\ P[q].sock = NoSock)
    BY DEF Put
  <2>3. DOMAIN K \subseteq DOMAIN known[e] /\ \A q \in DOMAIN K : K[q] = known[e][q]
    BY DEF Del
  <2>4. \A m \in out : m.dst # NoSock => WellFormed(m)
    BY <1>0, <1>1, <1>7, OwnMail
  <2>5. t.pending = Q /\ t.known = K
    BY DEF Tables
  <2> HIDE DEF P, K, out, t
  <2>6. /\ DOMAIN Q = DOMAIN P /\ \A q \in DOMAIN P \ {to} : Q[q] = P[q]
        /\ Q[to] = [P[to] EXCEPT !.asked = TRUE]
    BY <2>2
  <2> HIDE DEF Q
  <2>7. \A q \in DOMAIN Q : Q[q].sock = P[q].sock
    <3>1. Q[to].sock = P[to].sock
      BY <2>6
    <3> QED BY <2>6, <3>1
  <2>8. Fits(e, t.pending, t.known)
    BY <1>0, <1>7, <2>2, <2>3, <2>5, <2>6, <2>7 DEF Fits
  <2> QED BY <1>3, <2>1, <2>4, <2>8, UpdateTyped
<1> QED BY <1>2, <1>5, <1>6, <1>7
-----------------------------------------------------------------------------
\* Registrations

\* The last of some places in the ring.
LEMMA LastOf ==
  ASSUME NEW l \in Nat, NEW found \in SUBSET (1..l), found # {}
  PROVE  \E i \in found : \A j \in found : j <= i
<1> DEFINE From(i) == {j \in 1..l : i <= j}
           R == StrictSubsetOrdering(1..l)
           T == {From(i) : i \in found}
<1>1. T \subseteq FiniteSubsetsOf(1..l) /\ T # {}
  <2>1. \A i \in found : IsFiniteSet(From(i))
    <3>1. IsFiniteSet(1..l)
      BY FS_Interval
    <3> QED BY <3>1, FS_Subset
  <2> QED BY <2>1 DEF FiniteSubsetsOf
<1>2. IsWellFoundedOn(R, FiniteSubsetsOf(1..l))
  BY FS_StrictSubsetOrderingWellFounded
<1> HIDE DEF R
<1>3. PICK x \in T : \A y \in T : ~(<<y, x>> \in R)
  <2> HIDE DEF T
  <2> QED BY <1>1, <1>2, WFMin
<1>4. PICK i \in found : x = From(i)
  OBVIOUS
<1>5. ASSUME NEW j \in found, ~(j <= i) PROVE FALSE
  <2>1. From(j) \subseteq From(i) /\ i \in From(i) /\ i \notin From(j)
    BY <1>5
  <2>2. <<From(j), From(i)>> \in R
    BY <2>1 DEF R, StrictSubsetOrdering
  <2> QED BY <1>3, <1>4, <2>2
<1> QED BY <1>5

\* supernode2addr: host and port may be two supernodes', the edge's own they are not.
LEMMA ResolveFits ==
  ASSUME NEW old \in {NoSock} \cup SnSocks, NEW up
  PROVE  Resolve(old, up) \in {NoSock} \cup SnSocks
<1> DEFINE l == Len(Ring)
           found == {i \in 1..l : Ring[i] \in up}
<1>1. l \in Nat \ {0} /\ \A i \in 1..l : Ring[i] \in Supernodes
  BY EdgeAssumption
<1>2. CASE found = {}
  <2>1. Resolve(old, up) = NoSock \/ (old # NoSock /\ Resolve(old, up) = <<old[1], Port[Ring[l]]>>)
    BY <1>2 DEF Resolve
  <2>2. old # NoSock => \E s \in Supernodes : old[1] = s
    BY DEF SnSocks
  <2> QED BY <1>1, <2>1, <2>2 DEF SnSocks
<1>3. CASE found # {}
  <2> DEFINE last == CHOOSE i \in found : \A j \in found : j <= i
  <2>1. Resolve(old, up) = <<Ring[last], Port[Ring[l]]>>
    BY <1>3 DEF Resolve
  <2>2. last \in found
    <3>1. found \in SUBSET (1..l)
      OBVIOUS
    <3> HIDE DEF found, l
    <3> QED BY <1>1, <1>3, <3>1, LastOf
  <2> HIDE DEF last
  <2> QED BY <1>1, <2>1, <2>2 DEF SnSocks
<1> QED BY <1>2, <1>3

LEMMA RoundTyped ==
  ASSUME TInv, NEW e \in Edges, NEW old \in {NoSock} \cup SnSocks, Round(e, old)
  PROVE  Posted' /\ Fitted' /\ Tabled' /\ supernode' \in [Edges -> {NoSock} \cup SnSocks]
<1>1. PICK up \in SUBSET Supernodes :
        LET c == NewCookie(e, up) IN
        /\ supernode' = [supernode EXCEPT ![e] = Resolve(old, up)]
        /\ net' = net \cup {send_register_super(e, Ring[i], c) :
                            i \in {j \in DOMAIN Ring : Ring[j] \in up}}
  BY DEF Round
<1>2. Fitted' /\ Tabled'
  BY DEF Round, TInv, Fitted, Fits, Peers, Tabled
<1>3. supernode' \in [Edges -> {NoSock} \cup SnSocks]
  BY <1>1, ResolveFits DEF TInv, Rounds
<1>4. ASSUME NEW s \in Supernodes, NEW c PROVE WellFormed(send_register_super(e, s, c))
  <2>1. Sock(e) \in {e} \X Gens /\ SnSock(s) \in SnSocks
    BY OwnSocket, Apart DEF TInv
  <2> QED BY <2>1 DEF send_register_super, Datagram, WellFormed
<1>5. \A i \in DOMAIN Ring : Ring[i] \in Supernodes
  BY EdgeAssumption
<1>6. \A m \in net' : WellFormed(m)
  BY <1>1, <1>4, <1>5 DEF TInv, Posted
<1>7. Posted'
  BY <1>6 DEF Posted, WellFormed
<1> QED BY <1>2, <1>3, <1>7

-----------------------------------------------------------------------------
\* The other steps of an edge

LEMMA TimersTyped ==
  ASSUME TInv, NEW e \in Edges, Timers(e)
  PROVE  Posted' /\ Fitted' /\ Tabled' /\ Counted' /\ Rounds'
<1>0. Counted /\ Rounds /\ Fits(e, pending[e], known[e])
  BY DEF TInv, Fitted
<1>1. CASE update_supernode_reg(e)
  <2>1. Posted' /\ Fitted' /\ Tabled' /\ supernode' \in [Edges -> {NoSock} \cup SnSocks]
    BY <1>0, <1>1, RoundTyped DEF update_supernode_reg, Rounds
  <2>2. Counted'
    BY <1>0, <1>1, CountedStays DEF update_supernode_reg, Round, Timer
  <2>3. snIdx' \in [Edges -> DOMAIN Ring]
    <3>1. Len(Ring) \in Nat \ {0} /\ DOMAIN Ring = 1..Len(Ring)
      BY EdgeAssumption
    <3>2. snIdx[e] \in Nat /\ (snIdx[e] % Len(Ring)) + 1 \in 1..Len(Ring)
      BY <1>0, <3>1 DEF Rounds
    <3>3. snIdx' = snIdx \/ snIdx' = [snIdx EXCEPT ![e] = (@ % Len(Ring)) + 1]
      BY <1>1 DEF update_supernode_reg
    <3> QED BY <1>0, <3>1, <3>2, <3>3 DEF Rounds
  <2>4. attempts' \in [Edges -> 0..SupAttempts]
    <3>1. attempts[e] \in 0..SupAttempts /\ SupAttempts \in Nat
      BY <1>0, EdgeAssumption DEF Rounds
    <3>2. \E n \in 0..SupAttempts : attempts' = [attempts EXCEPT ![e] = n]
      <4>1. CASE attempts[e] = 0
        BY <1>1, <3>1, <4>1 DEF update_supernode_reg
      <4>2. CASE attempts[e] # 0
        <5>1. attempts[e] - 1 \in 0..SupAttempts
          BY <3>1, <4>2
        <5> QED BY <1>1, <4>2, <5>1 DEF update_supernode_reg
      <4> QED BY <4>1, <4>2
    <3> QED BY <1>0, <3>2 DEF Rounds
  <2> QED BY <2>1, <2>2, <2>3, <2>4 DEF Rounds
<1>2. ASSUME NEW p \in Peers(e), Idle(e, p) \/ QueryAgain(e, p) \/ PurgePending(e, p) \/ PurgeKnown(e, p)
      PROVE  Posted' /\ Fitted' /\ Tabled' /\ Counted' /\ Rounds'
  <2>1. UNCHANGED <<net, gen, hole, supernodeVars, superVars>> /\ \E awaited : Timer(awaited)
    BY <1>2 DEF Idle, QueryAgain, PurgePending, PurgeKnown
  <2>2. Posted' /\ Tabled' /\ Rounds'
    BY <2>1 DEF TInv, Posted, WellFormed, Tabled, Rounds, supernodeVars, superVars
  <2>3. Counted'
    BY <1>0, <2>1, CountedStays DEF Timer
  <2>4. \E P, K : /\ Fits(e, P, K)
                  /\ pending' = [pending EXCEPT ![e] = P] /\ known' = [known EXCEPT ![e] = K]
    <3>0. /\ pending = [pending EXCEPT ![e] = pending[e]]
          /\ known = [known EXCEPT ![e] = known[e]]
      BY DEF TInv, IInv, Shape
    <3>1. CASE Idle(e, p)
      <4> DEFINE K == Put(known[e], p, [sock |-> known[e][p].sock, idle |-> TRUE])
      <4>1. /\ DOMAIN K = DOMAIN known[e] /\ K[p].sock = known[e][p].sock
            /\ \A q \in DOMAIN K \ {p} : K[q] = known[e][q]
        BY <3>1 DEF Idle, Put
      <4>2. known' = [known EXCEPT ![e] = K] /\ pending' = pending
        BY <3>1 DEF Idle
      <4> HIDE DEF K
      <4>3. Fits(e, pending[e], K)
        BY <1>0, <4>1 DEF Fits
      <4> QED BY <3>0, <4>2, <4>3
    <3>2. CASE QueryAgain(e, p)
      <4> DEFINE P == [pending[e] EXCEPT ![p].asked = FALSE]
      <4>1. DOMAIN P = DOMAIN pending[e] /\ \A q \in DOMAIN P \ {p} : P[q] = pending[e][q]
        OBVIOUS
      <4>2. P[p] = [pending[e][p] EXCEPT !.asked = FALSE]
        BY <3>2 DEF QueryAgain
      <4>3. pending' = [pending EXCEPT ![e] = P] /\ known' = known
        BY <3>2 DEF QueryAgain
      <4> HIDE DEF P
      <4>4. P[p].sock = pending[e][p].sock
        BY <4>2
      <4>5. Fits(e, P, known[e])
        BY <1>0, <4>1, <4>4 DEF Fits
      <4> QED BY <3>0, <4>3, <4>5
    <3>3. CASE PurgePending(e, p)
      <4>1. Fits(e, Del(pending[e], p), known[e])
        BY <1>0 DEF Fits, Del
      <4>2. pending' = [pending EXCEPT ![e] = Del(pending[e], p)] /\ known' = known
        BY <3>3 DEF PurgePending
      <4> QED BY <3>0, <4>1, <4>2
    <3>4. CASE PurgeKnown(e, p)
      <4>1. Fits(e, pending[e], Del(known[e], p))
        BY <1>0 DEF Fits, Del
      <4>2. known' = [known EXCEPT ![e] = Del(known[e], p)] /\ pending' = pending
        BY <3>4 DEF PurgeKnown
      <4> QED BY <3>0, <4>1, <4>2
    <3> QED BY <1>2, <3>1, <3>2, <3>3, <3>4
  <2>5. Fitted'
    BY <2>4, FittedStays DEF TInv
  <2> QED BY <2>2, <2>3, <2>5
<1> QED BY <1>1, <1>2 DEF Timers

LEMMA StartTyped ==
  ASSUME TInv, NEW e \in Edges, EdgeStart(e)
  PROVE  Posted' /\ Fitted' /\ Tabled' /\ Counted' /\ Rounds'
<1>0. Counted /\ Rounds
  BY DEF TInv
<1>1. PICK old \in {NoSock} \cup SnSocks : Round(e, old)
  <2>1. Ring[1] \in Supernodes
    BY EdgeAssumption
  <2> QED BY <2>1, Apart DEF EdgeStart
<1>2. Posted' /\ Fitted' /\ Tabled' /\ supernode' \in [Edges -> {NoSock} \cup SnSocks]
  BY <1>1, RoundTyped
<1>3. Counted'
  BY <1>0, CountedStays DEF EdgeStart, Round
<1>4. attempts' \in [Edges -> 0..SupAttempts]
  <2>1. SupAttempts - 1 \in 0..SupAttempts
    BY EdgeAssumption
  <2> QED BY <1>0, <2>1 DEF EdgeStart, Rounds
<1> QED BY <1>0, <1>2, <1>3, <1>4 DEF EdgeStart, Rounds

LEMMA StopTyped ==
  ASSUME TInv, NEW e \in Edges, EdgeStop(e)
  PROVE  Posted' /\ Fitted' /\ Tabled' /\ Counted' /\ Rounds'
<1>0. Counted /\ Rounds
  BY DEF TInv
<1>1. DOMAIN Empty = {}
  BY DEF Empty
<1>2. Posted' /\ Tabled'
  BY DEF EdgeStop, TInv, Posted, WellFormed, Tabled
<1>3. Fitted'
  <2>1. Fits(e, Empty, Empty)
    BY <1>1 DEF Fits
  <2> QED BY <2>1, FittedStays DEF EdgeStop, TInv
<1>4. Counted'
  BY <1>0, CountedStays DEF EdgeStop, NewSocket
<1>5. Rounds'
  <2>1. 1 \in DOMAIN Ring /\ SupAttempts \in 0..SupAttempts
    BY EdgeAssumption
  <2> QED BY <1>0, <2>1 DEF EdgeStop, Rounds
<1> QED BY <1>2, <1>3, <1>4, <1>5

-----------------------------------------------------------------------------
\* The supernodes

LEMMA SupernodeTyped ==
  ASSUME TInv, NEW s \in Supernodes, Supernode(s)
  PROVE  Posted' /\ Fitted' /\ Tabled' /\ Counted' /\ Rounds'
<1>0. Counted /\ Rounds /\ Fills(edges[s])
  BY DEF TInv, Tabled
<1>1. PICK m \in net : process_udp(s, m, cookie)
  BY DEF Supernode
<1>2. WellFormed(m) /\ ~m.via /\ SnSock(s) \in SnSocks
  BY <1>1, Apart DEF TInv, Posted, process_udp, WellFormed
<1>3. m.src \in {m.mac} \X Gens /\ m.mac \in Edges /\ m.src \in EdgeSocks
  BY <1>2, Apart DEF WellFormed
<1>4. ASSUME NEW dst \in EdgeSocks
      PROVE  WellFormed(SnReply(s, m, "REGISTER_SUPER_ACK", dst, m.src))
  BY <1>2, <1>3 DEF SnReply, WellFormed
<1>5. ASSUME NEW to, m.type \in {"PACKET", "REGISTER"}, m.mac \notin to
      PROVE  \A d \in Forwarded(s, m, to) : WellFormed(d)
  <2> SUFFICES ASSUME NEW x \in to \cap DOMAIN edges[s]
               PROVE  WellFormed(SnReply(s, m, m.type, edges[s][x], m.src))
    BY DEF Forwarded
  <2>1. x \in Edges /\ edges[s][x] \in {x} \X Gens
    BY <1>0 DEF Fills
  <2>2. edges[s][x] \in EdgeSocks /\ edges[s][x][1] = x /\ x # m.mac
    BY <1>5, <2>1, Apart
  <2>3. m.to # m.mac
    BY <1>2, <1>5 DEF WellFormed
  <2> QED BY <1>2, <1>3, <1>5, <2>2, <2>3 DEF SnReply, WellFormed
<1>6. ASSUME NEW t \in {m.to} \cap DOMAIN edges[s]
      PROVE  WellFormed(SnReply(s, m, "PEER_INFO", m.src, edges[s][t]))
  <2>1. t = m.to /\ edges[s][t] \in {t} \X Gens
    BY <1>0 DEF Fills
  <2> QED BY <1>2, <1>3, <2>1 DEF SnReply, WellFormed
<1>7. ASSUME NEW out, SnExchange(m, out), \A d \in out : WellFormed(d)
      PROVE  Posted' /\ Counted'
  BY <1>0, <1>7, PostedStays, CountedStays DEF SnExchange, Exchange, TInv
<1>8. Fitted' /\ Rounds'
  BY DEF Supernode, edgeVars, TInv, Fitted, Fits, Peers, Rounds
<1>9. Posted' /\ Counted' /\ Tabled'
  <2>1. CASE SnPacket(s, m) \/ SnRegister(s, m)
    <3>1. m.to # m.mac /\ m.type \in {"PACKET", "REGISTER"}
      BY <1>2, <2>1 DEF SnPacket, SnRegister, WellFormed
    <3>2. /\ \A d \in try_forward(s, m) : WellFormed(d)
          /\ \A d \in try_broadcast(s, m) : WellFormed(d)
      BY <1>5, <3>1 DEF try_forward, try_broadcast
    <3>3. SnExchange(m, try_forward(s, m)) \/ SnExchange(m, try_broadcast(s, m))
      BY <2>1 DEF SnPacket, SnRegister
    <3>4. Tabled'
      BY <2>1 DEF SnPacket, SnRegister, supernodeVars, TInv, Tabled
    <3> QED BY <1>7, <3>2, <3>3, <3>4
  <2>2. CASE SnRegisterSuper(s, m, cookie)
    <3> DEFINE E == Put(edges[s], m.mac, m.src)
    <3>1. DOMAIN E = DOMAIN edges[s] \cup {m.mac} /\ E[m.mac] = m.src
          /\ \A x \in DOMAIN E \ {m.mac} : E[x] = edges[s][x]
      BY DEF Put
    <3>2. edges' = [edges EXCEPT ![s] = E]
      BY <2>2 DEF SnRegisterSuper
    <3> HIDE DEF E
    <3>3. Fills(E)
      BY <1>0, <1>3, <3>1 DEF Fills
    <3>4. Tabled'
      BY <3>2, <3>3 DEF TInv, Tabled, Fills
    <3> QED BY <1>3, <1>4, <1>7, <2>2, <3>4 DEF SnRegisterSuper
  <2>3. CASE SnQueryPeer(s, m)
    <3>1. Tabled'
      BY <2>3 DEF SnQueryPeer, supernodeVars, TInv, Tabled
    <3> QED BY <1>6, <1>7, <2>3, <3>1 DEF SnQueryPeer
  <2> QED BY <1>1, <2>1, <2>2, <2>3 DEF process_udp
<1> QED BY <1>8, <1>9

LEMMA ForgetsTyped ==
  ASSUME TInv, NEW s \in Supernodes, SupernodeForgets(s)
  PROVE  Posted' /\ Fitted' /\ Tabled' /\ Counted' /\ Rounds'
<1>1. UNCHANGED <<net, gen>> /\ UNCHANGED edgeVars /\ (faults' = faults \/ \E kind : Fault(kind))
  BY DEF SupernodeForgets, SnRestart, SnPurge
<1>2. Posted' /\ Fitted' /\ Rounds'
  BY <1>1 DEF TInv, Posted, WellFormed, Fitted, Fits, Peers, Rounds, edgeVars
<1>3. Counted'
  BY <1>1, CountedStays DEF TInv
<1>4. \E E : Fills(E) /\ edges' = [edges EXCEPT ![s] = E]
  <2>1. CASE SnRestart(s)
    <3>1. Fills(Empty)
      BY DEF Fills, Empty
    <3> QED BY <2>1, <3>1 DEF SnRestart
  <2>2. CASE \E e \in Edges : SnPurge(s, e, running[e])
    <3>1. PICK e \in Edges : SnPurge(s, e, running[e])
      BY <2>2
    <3>2. Fills(Del(edges[s], e))
      BY DEF TInv, Tabled, Fills, Del
    <3> QED BY <3>1, <3>2 DEF SnPurge
  <2> QED BY <2>1, <2>2 DEF SupernodeForgets
<1>5. Tabled'
  BY <1>4 DEF TInv, Tabled, Fills
<1> QED BY <1>2, <1>3, <1>5

LEMMA NetworkTyped ==
  ASSUME TInv, Network
  PROVE  Posted' /\ Fitted' /\ Tabled' /\ Counted' /\ Rounds'
<1>1. net' \subseteq net /\ UNCHANGED <<supernodeVars, edgeVars>>
  BY DEF Network, NetNext, Vanish, Lose, Rebind
<1>2. Posted' /\ Fitted' /\ Rounds' /\ Tabled'
  BY <1>1 DEF TInv, Posted, WellFormed, Fitted, Fits, Peers, Rounds, Tabled, edgeVars, supernodeVars
<1>3. Counted'
  BY CountedStays DEF Network, NetNext, Vanish, Lose, Rebind, NewSocket, TInv
<1> QED BY <1>2, <1>3

LEMMA TypedStep == TInv /\ [Next]_vars => TInv'
<1> SUFFICES ASSUME TInv, [Next]_vars PROVE TInv'
  OBVIOUS
<1>1. IInv'
  BY InductiveStep DEF TInv
<1>2. Posted' /\ Fitted' /\ Tabled' /\ Counted' /\ Rounds'
  <2>1. CASE Network
    BY <2>1, NetworkTyped
  <2>2. CASE \E s \in Supernodes : Supernode(s) \/ SupernodeForgets(s)
    BY <2>2, SupernodeTyped, ForgetsTyped
  <2>3. CASE \E e \in Edges : readFromIPSocket(e)
    BY <2>3, ReadTyped DEF readFromIPSocket
  <2>4. CASE \E e \in Edges : Talk(e) \/ Timers(e) \/ EdgeStart(e) \/ EdgeStop(e)
    BY <2>4, TalkTyped, TimersTyped, StartTyped, StopTyped
  <2>5. CASE UNCHANGED vars
    BY <2>5 DEF vars, netVars, supernodeVars, edgeVars, TInv, Posted, WellFormed, Fitted, Fits,
       Peers, Tabled, Counted, Rounds
  <2> QED BY <2>1, <2>2, <2>3, <2>4, <2>5 DEF Next
<1> QED BY <1>1, <1>2 DEF TInv

LEMMA DrawnStays ==
  ASSUME Drawn, CookiesLeft, [Next]_vars PROVE Drawn'
<1>1. ASSUME NEW e \in Edges, NEW old, Round(e, old) PROVE Drawn'
  <2>1. PICK up \in SUBSET Supernodes : cookie' = [cookie EXCEPT ![e] = NewCookie(e, up)]
    BY <1>1 DEF Round
  <2>2. NewCookie(e, up) \in Cookies \cup {0}
    BY DEF NewCookie, CookiesLeft, Drawn
  <2> QED BY <2>1, <2>2 DEF Drawn
<1>2. cookie' = cookie \/ (\E e \in Edges : cookie' = [cookie EXCEPT ![e] = 0])
      \/ \E e \in Edges : \E old : Round(e, old)
  <2>1. CASE Network \/ (\E s \in Supernodes : Supernode(s) \/ SupernodeForgets(s)) \/ UNCHANGED vars
    BY <2>1 DEF Network, Supernode, SupernodeForgets, vars, edgeVars
  <2>2. CASE \E e \in Edges : readFromIPSocket(e)
    BY <2>2 DEF readFromIPSocket, ReadDatagram, ReceivePacket, ReceiveRegister,
       ReceiveRegisterAck, ReceiveRegisterSuperAck, ReceivePeerInfo, superVars
  <2>3. CASE \E e \in Edges : Talk(e)
    BY <2>3 DEF Talk, edge_send_packet2net, superVars
  <2>4. CASE \E e \in Edges : Timers(e)
    BY <2>4 DEF Timers, update_supernode_reg, Idle, QueryAgain, PurgePending, PurgeKnown, superVars
  <2>5. CASE \E e \in Edges : EdgeStart(e) \/ EdgeStop(e)
    BY <2>5 DEF EdgeStart, EdgeStop
  <2> QED BY <2>1, <2>2, <2>3, <2>4, <2>5 DEF Next
<1> QED BY <1>1, <1>2 DEF Drawn

\* update_edge of the supernode, register_with_new_peer and PEER_INFO:
\* whatever is lost, late, doubled or relayed, an edge looks for a peer, and a
\* supernode for an edge, only at sockets that are or were that peer's own; an
\* edge is never its own peer.
THEOREM PeersAtHome == Spec => [](Fitted /\ Tabled)
<1>1. TInv => Fitted /\ Tabled
  BY DEF TInv
<1> QED BY <1>1, TypesInitially, TypedStep, PTL DEF Spec

\* The state is well-formed: a datagram goes to an edge's socket or to a
\* supernode's host, sn_idx stays in the list, sup_attempts in its range.
THEOREM Types == Spec /\ []CookiesLeft => []TypeOK
<1>1. Init => Drawn
  BY DEF Init, EdgeInit, Drawn
<1>2. Drawn /\ CookiesLeft /\ [Next]_vars => Drawn'
  BY DrawnStays
<1> QED BY <1>1, <1>2, TypesInitially, TypedStep, TypeParts, PTL DEF Spec
=============================================================================
