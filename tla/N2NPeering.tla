------------------------------ MODULE N2NPeering ------------------------------
(***************************************************************************)
(* Edges and supernodes of n2n together: how two phones get from a relay   *)
(* over the supernode to a direct path (UDP hole punching), while          *)
(* datagrams are lost, late or doubled, NATs rebind, edges come and go     *)
(* and supernodes lose their tables.                                       *)
(***************************************************************************)
EXTENDS N2NEdge

vars == <<netVars, supernodeVars, edgeVars>>

Init == NetInit /\ SupernodeInit /\ EdgeInit

\* An edge reads a datagram.
ReadDatagram(e, m) ==
  \/ ReceivePacket(e, m) \/ ReceiveRegister(e, m) \/ ReceiveRegisterAck(e, m)
  \/ ReceiveRegisterSuperAck(e, m) \/ ReceivePeerInfo(e, m)

readFromIPSocket(e) == \E m \in net : ReadDatagram(e, m)

Supernode(s) ==
  (\E m \in net : process_udp(s, m, cookie)) /\ UNCHANGED edgeVars

SupernodeForgets(s) ==
  /\ SnRestart(s) \/ (\E e \in Edges : SnPurge(s, e, running[e]))
  /\ UNCHANGED edgeVars

Talk(e) ==
  \E to \in Peers(e) \cup (IF Broadcasts THEN {Broadcast} ELSE {}) :
    edge_send_packet2net(e, to)

Timers(e) ==
  \/ update_supernode_reg(e)
  \/ \E p \in Peers(e) :
       Idle(e, p) \/ QueryAgain(e, p) \/ PurgePending(e, p) \/ PurgeKnown(e, p)

Network == NetNext /\ UNCHANGED <<supernodeVars, edgeVars>>

Next ==
  \/ Network
  \/ \E s \in Supernodes : Supernode(s) \/ SupernodeForgets(s)
  \/ \E e \in Edges :
       readFromIPSocket(e) \/ Talk(e) \/ Timers(e) \/ EdgeStart(e) \/ EdgeStop(e)

Spec == Init /\ [][Next]_vars

-----------------------------------------------------------------------------
Sockets == {NoSock} \cup (Edges \X (0..MaxFaults)) \cup {SnSock(s) : s \in Supernodes}
             \cup {<<s, Port[t]>> : s \in Supernodes, t \in Supernodes}

\* The state is well-formed; what an edge relays over is a supernode's host.
TypeOK ==
  /\ \A m \in net : m.src \in Sockets /\ m.dst \in Sockets \ {NoSock}
  /\ gen \in [Edges -> 0..MaxFaults]
  /\ \A e \in Edges : /\ DOMAIN pending[e] \subseteq Peers(e)
                      /\ DOMAIN known[e] \subseteq Peers(e)
                      /\ cookie[e] \in Cookies \cup {0}
                      /\ snIdx[e] \in DOMAIN Ring
                      /\ attempts[e] \in 0..SupAttempts
  /\ \A s \in Supernodes : \A e \in DOMAIN edges[s] : edges[s][e] \in Edges \X Nat

\* HASH_ADD_PEER of register_with_new_peer, check_query_peer_info and
\* peer_set_p2p_confirmed: a peer is never in both tables of an edge, where the
\* stale entry of one would hide the other.
PeersApart ==
  \A e \in Edges : DOMAIN pending[e] \cap DOMAIN known[e] = {}

\* peer_set_p2p_confirmed: a peer is known only at a socket at which it got a
\* datagram of ours, straight and not over the supernode.
KnownProven ==
  \A e \in Edges : \A p \in DOMAIN known[e] : <<e, known[e][p].sock>> \in proven

\* REGISTER_SUPER_ACK with the cookie: an edge that waits for no supernode was
\* registered by one with the cookie it drew last, however late or often answers
\* come and whatever the resolver says.  A round in which the first name does not
\* resolve draws none, so that a late answer to the round before counts for it.
AckFresh ==
  \A e \in Edges : running[e] /\ ~snWait[e] => granted[e] # {}

-----------------------------------------------------------------------------
ToEdge == {"PACKET", "REGISTER", "REGISTER_ACK", "REGISTER_SUPER_ACK", "PEER_INFO"}
ToSupernode == {"PACKET", "REGISTER", "REGISTER_SUPER", "QUERY_PEER"}

Reads(e, type) == \E m \in net : m.type = type /\ ReadDatagram(e, m)

Serves(s, type, from) ==
  /\ \E m \in net : m.type = type /\ m.mac = from /\ process_udp(s, m, cookie)
  /\ UNCHANGED edgeVars

\* Every process runs, and datagrams that are not lost arrive: an acknowledgement
\* is not overtaken for ever by the REGISTERs that two pending edges answer each
\* other with.  SF where MaxNet or another exchange disables an action at times.
\* Three assumptions go beyond scheduling: the tunnel always has something for
\* every peer, a stopped edge is started again, and a timer that comes due again
\* and again (a peer idle for ten seconds, a query twenty seconds old) fires.
FairSpec ==
  /\ Spec
  /\ WF_vars(Vanish /\ UNCHANGED <<supernodeVars, edgeVars>>)
  /\ \A s \in Supernodes : \A type \in ToSupernode : \A e \in Edges : WF_vars(Serves(s, type, e))
  /\ \A e \in Edges :
       /\ WF_vars(EdgeStart(e))
       /\ \A type \in ToEdge : WF_vars(Reads(e, type))
       /\ SF_vars(update_supernode_reg(e))
       /\ \A p \in Peers(e) : /\ SF_vars(edge_send_packet2net(e, p))
                              /\ SF_vars(QueryAgain(e, p) \/ Idle(e, p))

\* check_query_peer_info, PEER_INFO and REGISTER: two edges that talk to each
\* other get a direct path again and again, past what the tables still hold of an
\* edge that stopped without a word and came back on another socket.
DirectAgain ==
  \A e \in Edges : \A p \in Peers(e) : []<>(p \in DOMAIN known[e])
=============================================================================
