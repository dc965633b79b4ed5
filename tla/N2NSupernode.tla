----------------------------- MODULE N2NSupernode -----------------------------
(***************************************************************************)
(* The supernode of n2n (sn_utils.c): it keeps a table of the edges that   *)
(* registered, forwards what edges send through it, stamped with the       *)
(* sender's public socket, and answers where an edge is.  One community,   *)
(* unencrypted headers.                                                    *)
(***************************************************************************)
EXTENDS N2NNetwork

VARIABLES
  edges,    \* the table of each supernode: a function from some edges to sockets
  granted   \* history: supernodes that took an edge's latest cookie

supernodeVars == <<edges, granted>>

Put(f, k, v) == [x \in DOMAIN f \cup {k} |-> IF x = k THEN v ELSE f[x]]
Del(f, k) == [x \in DOMAIN f \ {k} |-> f[x]]
Empty == [x \in {} |-> 0]

SupernodeInit ==
  /\ edges = [s \in Supernodes |-> Empty]
  /\ granted = [e \in Edges |-> {}]

\* A supernode answers, or forwards, from its own socket.
SnReply(s, m, type, to, sock) ==
  [type |-> type, src |-> SnSock(s), dst |-> to, mac |-> m.mac, to |-> m.to,
   sock |-> sock, via |-> TRUE, cookie |-> m.cookie]

SnExchange(m, out) == Exchange({m}, out) /\ UNCHANGED <<gen, hole>>

\* The copy of m, with its sender's socket, for each of the edges in to.
Forwarded(s, m, to) ==
  {SnReply(s, m, m.type, edges[s][e], m.src) : e \in to \cap DOMAIN edges[s]}

\* PACKET: to the destination, or to every edge but the sender.
try_forward(s, m) == Forwarded(s, m, {m.to})

try_broadcast(s, m) == Forwarded(s, m, Edges \ {m.mac})

SnPacket(s, m) ==
  /\ m.type = "PACKET"
  /\ SnExchange(m, IF m.to = Broadcast THEN try_broadcast(s, m) ELSE try_forward(s, m))
  /\ UNCHANGED supernodeVars

\* REGISTER is forwarded to a unicast destination only.
SnRegister(s, m) ==
  /\ m.type = "REGISTER"
  /\ SnExchange(m, try_forward(s, m))
  /\ UNCHANGED supernodeVars

\* REGISTER_SUPER: the edge is put in the table, or gets another socket there,
\* and is told that it is registered.
SnRegisterSuper(s, m, cookieOf) ==
  /\ m.type = "REGISTER_SUPER"
  /\ edges' = [edges EXCEPT ![s] = Put(@, m.mac, m.src)]
  /\ granted' = IF m.cookie = cookieOf[m.mac]
                THEN [granted EXCEPT ![m.mac] = @ \cup {s}] ELSE granted
  /\ SnExchange(m, {SnReply(s, m, "REGISTER_SUPER_ACK", m.src, m.src)})

\* QUERY_PEER: an unknown target is not answered.
SnQueryPeer(s, m) ==
  /\ m.type = "QUERY_PEER"
  /\ SnExchange(m, {SnReply(s, m, "PEER_INFO", m.src, edges[s][t]) :
                    t \in {m.to} \cap DOMAIN edges[s]})
  /\ UNCHANGED supernodeVars

\* purge_expired_communities: no REGISTER_SUPER for a minute, three intervals
\* of a living edge.
SnPurge(s, e, alive) ==
  /\ e \in DOMAIN edges[s]
  /\ IF alive THEN Fault("purge") ELSE UNCHANGED faults
  /\ edges' = [edges EXCEPT ![s] = Del(@, e)]
  /\ UNCHANGED <<net, gen, hole, granted>>

\* The process is started again with empty tables.
SnRestart(s) ==
  /\ edges[s] # Empty
  /\ Fault("restart")
  /\ edges' = [edges EXCEPT ![s] = Empty]
  /\ UNCHANGED <<net, gen, hole, granted>>

process_udp(s, m, cookieOf) ==
  /\ m.dst = SnSock(s)
  /\ \/ SnPacket(s, m)
     \/ SnRegister(s, m)
     \/ SnRegisterSuper(s, m, cookieOf)
     \/ SnQueryPeer(s, m)
=============================================================================
