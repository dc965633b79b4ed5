------------------------------- MODULE N2NEdge -------------------------------
(***************************************************************************)
(* The edge of n2n v2 (edge_utils.c), the program in which the phone       *)
(* joins the virtual network: one thread that waits in select(2) and       *)
(* handles one datagram, one frame from the tunnel or one timer at a time. *)
(*                                                                         *)
(* It registers with its supernodes over and over, relays frames through   *)
(* one of them, and tries to get a direct path to each peer: a peer is     *)
(* pending until it acknowledged a REGISTER, and known from then on.       *)
(***************************************************************************)
EXTENDS N2NSupernode, Sequences

CONSTANTS
  Ring,         \* conf.sn_ip_array
  Flaky,        \* supernodes whose name may not resolve at times
  SupAttempts,  \* N2N_EDGE_SUP_ATTEMPTS
  Cookies,      \* random values of a REGISTER_SUPER
  Broadcasts,   \* edges send broadcast frames, too
  MaySkip       \* two datagrams of a peer may come within one second

ASSUME EdgeAssumption ==
  /\ Ring \in Seq(Supernodes) /\ Ring # <<>>
  /\ Flaky \subseteq Supernodes
  /\ SupAttempts \in Nat \ {0}
  /\ 0 \notin Cookies
  /\ Broadcasts \in BOOLEAN /\ MaySkip \in BOOLEAN

VARIABLES
  running,    \* the edge is in run_edge_loop
  pending,    \* pending_peers: a function from some edges to [sock, asked]
  known,      \* known_peers: a function from some edges to [sock, idle]
  supernode,  \* eee->supernode, a socket
  snWait,     \* a REGISTER_SUPER is not yet acknowledged
  cookie,     \* last_cookie
  attempts,   \* sup_attempts
  snIdx,      \* sn_idx, counted from 1
  proven      \* history: <<e, s>> if a datagram of e itself reached socket s

superVars == <<supernode, snWait, cookie, attempts, snIdx>>
peerVars == <<pending, known>>
edgeVars == <<running, pending, known, supernode, snWait, cookie, attempts, snIdx, proven>>

Peers(e) == Edges \ {e}
Directly(e, s) == proven' = proven \cup {<<e, s>>}

-----------------------------------------------------------------------------
\* What an edge sends.
send_register(e, p, dst) == Datagram("REGISTER", Sock(e), dst, e, p)
send_register_super(e, s, c) ==
  [Datagram("REGISTER_SUPER", Sock(e), SnSock(s), e, e) EXCEPT !.cookie = c]
send_query_peer(e, p) == Datagram("QUERY_PEER", Sock(e), supernode[e], e, p)
send_register_ack(e, p, dst) == Datagram("REGISTER_ACK", Sock(e), dst, e, p)
send_packet(e, to, dst) == Datagram("PACKET", Sock(e), dst, e, to)

\* The tables of an edge and what it sends, the result of a helper.
Tables(P, K, out) == [pending |-> P, known |-> K, out |-> out]

\* A peer that is not pending yet is asked to register, over the supernode as
\* well when it was heard of there; one that is gets its new socket.
register_with_new_peer(e, P, K, via, p, sock) ==
  IF p \in DOMAIN P
  THEN Tables([P EXCEPT ![p].sock = sock], K, {})
  ELSE Tables(Put(P, p, [sock |-> sock, asked |-> FALSE]), K,
              {send_register(e, p, sock)}
                \cup (IF via THEN {send_register(e, p, supernode[e])} ELSE {}))

\* A known peer that writes from another socket has to register again; what the
\* supernode says of its socket does not count.
check_known_peer_sock_change_Keeps(e, P, K, via, p, sock) ==
  IF K[p].sock # sock /\ ~via
  THEN register_with_new_peer(e, P, K, via, p, sock)
  ELSE Tables(P, K, {})

check_known_peer_sock_change(e, P, K, via, p, sock) ==
  IF K[p].sock # sock /\ ~via
  THEN register_with_new_peer(e, P, Del(K, p), via, p, sock)
  ELSE Tables(P, K, {})

\* later: at least a second has passed since the peer was last seen.
check_peer_registration_needed(e, P, K, via, p, sock, later) ==
  IF p \notin DOMAIN K THEN register_with_new_peer(e, P, K, via, p, sock)
  ELSE LET K1 == IF via THEN K ELSE Put(K, p, [sock |-> K[p].sock, idle |-> FALSE]) IN
       IF later THEN check_known_peer_sock_change(e, P, K1, via, p, sock)
       ELSE Tables(P, K1, {})

\* find_and_remove_peer: a direct datagram ends a registration that waits.
Heard(e, m) == IF m.via THEN pending[e] ELSE Del(pending[e], m.mac)

\* The socket a datagram came from: what the supernode saw, or what we see.
OrigSender(m) == IF m.sock # NoSock THEN m.sock ELSE m.src

Takes(e, m) == running[e] /\ Reaches(m, e)

Later == IF MaySkip THEN BOOLEAN ELSE {TRUE}

Update(e, t, in, out) ==
  /\ pending' = [pending EXCEPT ![e] = t.pending]
  /\ known' = [known EXCEPT ![e] = t.known]
  /\ EdgeExchange(e, in, out)

NoteDirect(e, m) == IF m.via THEN UNCHANGED proven ELSE Directly(m.mac, Sock(e))

-----------------------------------------------------------------------------
\* readFromIPSocket

\* PACKET, with handle_PACKET: the frame itself goes to the tunnel.
ReceivePacket(e, m) ==
  /\ Takes(e, m) /\ m.type = "PACKET"
  /\ \E later \in Later :
       LET t == check_peer_registration_needed(
                  e, Heard(e, m), known[e], m.via, m.mac, OrigSender(m), later) IN
       Update(e, t, {m}, t.out)
  /\ NoteDirect(e, m)
  /\ UNCHANGED <<running, superVars, supernodeVars>>

\* REGISTER of a peer: acknowledged when it came directly, and returned.
ReceiveRegister_AcksAll(e, m) ==
  /\ Takes(e, m) /\ m.type = "REGISTER" /\ m.to = e
  /\ \E later \in Later :
       LET t == check_peer_registration_needed(
                  e, Heard(e, m), known[e], m.via, m.mac, OrigSender(m), later) IN
       Update(e, t, {m}, t.out \cup {send_register_ack(e, m.mac, OrigSender(m))})
  /\ NoteDirect(e, m)
  /\ UNCHANGED <<running, superVars, supernodeVars>>

ReceiveRegister(e, m) ==
  /\ Takes(e, m) /\ m.type = "REGISTER" /\ m.to = e
  /\ \E later \in Later :
       LET t == check_peer_registration_needed(
                  e, Heard(e, m), known[e], m.via, m.mac, OrigSender(m), later)
           ack == IF m.via THEN {} ELSE {send_register_ack(e, m.mac, OrigSender(m))} IN
       Update(e, t, {m}, t.out \cup ack)
  /\ NoteDirect(e, m)
  /\ UNCHANGED <<running, superVars, supernodeVars>>

\* REGISTER_ACK, with peer_set_p2p_confirmed: a pending peer becomes known at
\* the socket the acknowledgement came from.  Nothing in it is compared.
peer_set_p2p_confirmed(e, p, sock) ==
  IF p \in DOMAIN pending[e]
  THEN Tables(Del(pending[e], p), Put(known[e], p, [sock |-> sock, idle |-> FALSE]), {})
  ELSE Tables(pending[e], known[e], {})

ReceiveRegisterAck(e, m) ==
  /\ Takes(e, m) /\ m.type = "REGISTER_ACK"
  /\ Update(e, peer_set_p2p_confirmed(e, m.mac, m.src), {m}, {})
  /\ NoteDirect(e, m)
  /\ UNCHANGED <<running, superVars, supernodeVars>>

\* REGISTER_SUPER_ACK: only one that is waited for and has the latest cookie.
ReceiveRegisterSuperAck_AnyCookie(e, m) ==
  /\ Takes(e, m) /\ m.type = "REGISTER_SUPER_ACK"
  /\ snWait' = [snWait EXCEPT ![e] = FALSE]
  /\ attempts' = [attempts EXCEPT ![e] = SupAttempts]
  /\ EdgeExchange(e, {m}, {})
  /\ UNCHANGED <<running, peerVars, supernodeVars, supernode, cookie, snIdx, proven>>

ReceiveRegisterSuperAck(e, m) ==
  /\ Takes(e, m) /\ m.type = "REGISTER_SUPER_ACK"
  /\ LET right == snWait[e] /\ m.mac = e /\ m.cookie = cookie[e] IN
     /\ snWait' = [snWait EXCEPT ![e] = @ /\ ~right]
     /\ attempts' = [attempts EXCEPT ![e] = IF right THEN SupAttempts ELSE @]
  /\ EdgeExchange(e, {m}, {})
  /\ UNCHANGED <<running, peerVars, supernodeVars, supernode, cookie, snIdx, proven>>

\* PEER_INFO: where a pending peer is; it is asked to register there.
ReceivePeerInfo_NoRegister(e, m) ==
  /\ Takes(e, m) /\ m.type = "PEER_INFO"
  /\ LET P == pending[e] IN
     Update(e, Tables(IF m.to \in DOMAIN P THEN [P EXCEPT ![m.to].sock = m.sock] ELSE P,
                      known[e], {}), {m}, {})
  /\ UNCHANGED <<running, superVars, supernodeVars, proven>>

ReceivePeerInfo(e, m) ==
  /\ Takes(e, m) /\ m.type = "PEER_INFO"
  /\ LET P == pending[e] IN
     IF m.to \in DOMAIN P
     THEN Update(e, Tables([P EXCEPT ![m.to].sock = m.sock], known[e], {}), {m},
                 {send_register(e, m.to, m.sock)})
     ELSE Update(e, Tables(P, known[e], {}), {m}, {})
  /\ UNCHANGED <<running, superVars, supernodeVars, proven>>

-----------------------------------------------------------------------------
\* edge_read_from_tap, edge_send_packet2net, send_packet

\* find_peer_destination and check_query_peer_info: straight to a known peer
\* that was heard of lately, or else over the supernode, which is asked for it.
SendTo(e, p) ==
  IF p \in DOMAIN known[e] /\ ~known[e][p].idle
  THEN Update(e, Tables(pending[e], known[e], {}), {}, {send_packet(e, p, known[e][p].sock)})
  ELSE LET P == IF p \in DOMAIN pending[e] THEN pending[e]
                ELSE Put(pending[e], p, [sock |-> NoSock, asked |-> FALSE])
           query == IF P[p].asked THEN {} ELSE {send_query_peer(e, p)} IN
       Update(e, Tables([P EXCEPT ![p].asked = TRUE], Del(known[e], p), {}), {},
              {send_packet(e, p, supernode[e])} \cup query)

edge_send_packet2net(e, to) ==
  /\ running[e]
  /\ Quiet({})
  /\ IF to = Broadcast
     THEN Update(e, Tables(pending[e], known[e], {}), {},
                 {send_packet(e, to, supernode[e])})
     ELSE SendTo(e, to)
  /\ UNCHANGED <<running, superVars, supernodeVars, proven>>

-----------------------------------------------------------------------------
\* The timers of run_edge_loop

\* supernode2addr writes the port before it resolves the name: after the loop
\* over all supernodes the address is that of the last one that resolved and
\* the port that of the last one.
Resolve(old, up) ==
  LET l == Len(Ring)
      found == {i \in 1..l : Ring[i] \in up}
      last == CHOOSE i \in found : \A j \in found : j <= i IN
  IF found = {} THEN (IF old = NoSock THEN NoSock ELSE <<old[1], Port[Ring[l]]>>)
  ELSE <<Ring[last], Port[Ring[l]]>>

\* The cookie is random, unlike any in flight; it is drawn for the first
\* supernode of the list, if that resolves.
NewCookie(e, up) ==
  IF Ring[1] \notin up THEN cookie[e]
  ELSE CHOOSE c \in Cookies :
         c # cookie[e] /\ \A m \in net : m.mac = e => m.cookie # c

\* One round of registrations, old being the address before it; every round
\* goes to every supernode that resolves.
Round(e, old) ==
  \E up \in SUBSET Supernodes :
    LET c == NewCookie(e, up) IN
    /\ Supernodes \ Flaky \subseteq up
    /\ cookie' = [cookie EXCEPT ![e] = c]
    /\ supernode' = [supernode EXCEPT ![e] = Resolve(old, up)]
    /\ snWait' = [snWait EXCEPT ![e] = TRUE]
    /\ granted' = [granted EXCEPT ![e] = IF Ring[1] \in up THEN {} ELSE @]
    /\ net' = net \cup {send_register_super(e, Ring[i], c) :
                        i \in {j \in DOMAIN Ring : Ring[j] \in up}}
    /\ hole' = [hole EXCEPT ![e] = @ \cup {SnSock(s) : s \in up}]
    /\ UNCHANGED <<gen, edges, pending, known, proven>>

\* sup_attempts and sn_idx count the rounds without an answer.
update_supernode_reg_NoWrap(e) ==
  /\ running[e]
  /\ Quiet(Registering(e))
  /\ Timer(Registering(e))
  /\ Round(e, supernode[e])
  /\ IF attempts[e] = 0
     THEN /\ snIdx' = [snIdx EXCEPT ![e] = @ + 1]
          /\ attempts' = [attempts EXCEPT ![e] = SupAttempts]
     ELSE /\ attempts' = [attempts EXCEPT ![e] = @ - 1]
          /\ UNCHANGED snIdx
  /\ UNCHANGED running

update_supernode_reg(e) ==
  /\ running[e]
  /\ Quiet(Registering(e))
  /\ Timer(Registering(e))
  /\ Round(e, supernode[e])
  /\ IF attempts[e] = 0
     THEN /\ snIdx' = [snIdx EXCEPT ![e] = (@ % Len(Ring)) + 1]
          /\ attempts' = [attempts EXCEPT ![e] = SupAttempts]
     ELSE /\ attempts' = [attempts EXCEPT ![e] = @ - 1]
          /\ UNCHANGED snIdx
  /\ UNCHANGED running

\* Ten seconds without a direct datagram of a known peer (last_p2p).
Idle(e, p) ==
  /\ p \in DOMAIN known[e] /\ ~known[e][p].idle
  /\ Timer(Peering(e, p))
  /\ known' = [known EXCEPT ![e] = Put(@, p, [sock |-> @[p].sock, idle |-> TRUE])]
  /\ UNCHANGED <<net, gen, hole, supernodeVars, running, pending, superVars, proven>>

\* Twenty seconds after a query the next one may be sent (last_sent_query).
QueryAgain(e, p) ==
  /\ p \in DOMAIN pending[e] /\ pending[e][p].asked
  /\ Timer(Peering(e, p))
  /\ pending' = [pending EXCEPT ![e][p].asked = FALSE]
  /\ UNCHANGED <<net, gen, hole, supernodeVars, running, known, superVars, proven>>

\* purge_expired_registrations of both tables, a minute after last_seen.
PurgePending(e, p) ==
  /\ p \in DOMAIN pending[e]
  /\ Timer(Peering(e, p))
  /\ pending' = [pending EXCEPT ![e] = Del(@, p)]
  /\ UNCHANGED <<net, gen, hole, supernodeVars, running, known, superVars, proven>>

PurgeKnown(e, p) ==
  /\ p \in DOMAIN known[e] /\ known[e][p].idle
  /\ Timer(Peering(e, p))
  /\ known' = [known EXCEPT ![e] = Del(@, p)]
  /\ UNCHANGED <<net, gen, hole, supernodeVars, running, pending, superVars, proven>>

-----------------------------------------------------------------------------
\* edge_init, and the first registration of run_edge_loop
EdgeStart(e) ==
  /\ ~running[e]
  /\ running' = [running EXCEPT ![e] = TRUE]
  /\ \E old \in {SnSock(Ring[1])} \cup (IF Ring[1] \in Flaky THEN {NoSock} ELSE {}) :
       Round(e, old)
  /\ attempts' = [attempts EXCEPT ![e] = SupAttempts - 1]
  /\ UNCHANGED <<faults, snIdx>>

\* The end of run_edge_loop and edge_term: nobody is told, the tables are
\* cleared, and the next edge gets another socket.
EdgeStop(e) ==
  /\ running[e]
  /\ Fault("stop")
  /\ NewSocket(e)
  /\ running' = [running EXCEPT ![e] = FALSE]
  /\ pending' = [pending EXCEPT ![e] = Empty]
  /\ known' = [known EXCEPT ![e] = Empty]
  /\ supernode' = [supernode EXCEPT ![e] = NoSock]
  /\ snWait' = [snWait EXCEPT ![e] = FALSE]
  /\ cookie' = [cookie EXCEPT ![e] = 0]
  /\ attempts' = [attempts EXCEPT ![e] = SupAttempts]
  /\ snIdx' = [snIdx EXCEPT ![e] = 1]
  /\ granted' = [granted EXCEPT ![e] = {}]
  /\ UNCHANGED <<net, edges, proven>>

EdgeInit ==
  /\ running = [e \in Edges |-> FALSE]
  /\ pending = [e \in Edges |-> Empty]
  /\ known = [e \in Edges |-> Empty]
  /\ supernode = [e \in Edges |-> NoSock]
  /\ snWait = [e \in Edges |-> FALSE]
  /\ cookie = [e \in Edges |-> 0]
  /\ attempts = [e \in Edges |-> SupAttempts]
  /\ snIdx = [e \in Edges |-> 1]
  /\ proven = {}
=============================================================================
