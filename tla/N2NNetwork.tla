------------------------------ MODULE N2NNetwork ------------------------------
(***************************************************************************)
(* What lies between the edges and the supernodes of n2n: UDP and the      *)
(* address translators (NAT) of the edges' networks.  None of it is code   *)
(* of this repository; it is what edge_utils.c and sn_utils.c are written  *)
(* against (recvfrom and sendto on sockets a NAT may rebind or filter).    *)
(*                                                                         *)
(* Datagrams in flight are a set: any of them may arrive next.  Losing,    *)
(* duplicating and delaying one, and a NAT that maps an edge to another    *)
(* public socket, are faults, taken from a budget.  The edges are in       *)
(* different networks, so what they send to the multicast group            *)
(* (register_with_local_peers) reaches nobody.                             *)
(***************************************************************************)
EXTENDS Naturals, FiniteSets

CONSTANTS
  Edges,
  Supernodes,
  Port,        \* UDP port of each supernode
  Restricted,  \* the NATs let in only what was written to before
  Faults,      \* the faults that happen, of FaultKinds
  MaxFaults,   \* bound: their number
  MaxNet       \* bound: an edge talks, or registers again, while fewer others are in flight

Broadcast == "broadcast"
NoSock == <<"none", 0>>

FaultKinds == {"duplicate", "loss", "rebind", "delay", "purge", "restart", "stop"}

ASSUME NetworkAssumption ==
  /\ Edges \cap Supernodes = {}
  /\ Broadcast \notin Edges
  /\ "none" \notin Edges \cup Supernodes
  /\ Port \in [Supernodes -> Nat]
  /\ Restricted \in BOOLEAN
  /\ Faults \subseteq FaultKinds
  /\ MaxFaults \in Nat /\ MaxNet \in Nat

VARIABLES
  net,    \* datagrams in flight
  gen,    \* number of the public socket an edge has now
  hole,   \* what each edge wrote to from it
  faults

netVars == <<net, gen, hole, faults>>

\* A public socket: a host and a port.
Sock(e) == <<e, gen[e]>>
SnSock(s) == <<s, Port[s]>>

Datagram(type, src, dst, mac, to) ==
  [type |-> type, src |-> src, dst |-> dst, mac |-> mac, to |-> to,
   sock |-> NoSock, via |-> FALSE, cookie |-> 0]

NetInit ==
  /\ net = {}
  /\ gen = [e \in Edges |-> 0]
  /\ hole = [e \in Edges |-> {}]
  /\ faults = 0

Fault(kind) == kind \in Faults /\ faults < MaxFaults /\ faults' = faults + 1

Quiet(own) == Cardinality(net \ own) < MaxNet

Reaches(m, e) == m.dst = Sock(e) /\ (Restricted => m.src \in hole[e])

\* The datagrams in are taken from the network, or stay as duplicates, and
\* out is sent; sendto_sock drops what has no valid socket.
Exchange(in, out) ==
  LET sent == {m \in out : m.dst # NoSock} IN
  \/ net' = (net \ in) \cup sent /\ UNCHANGED faults
  \/ in # {} /\ net' = net \cup sent /\ Fault("duplicate")

\* An edge that writes to a socket opens its NAT for what comes from there.
EdgeExchange(e, in, out) ==
  /\ Exchange(in, out)
  /\ hole' = [hole EXCEPT ![e] = @ \cup {m.dst : m \in out}]
  /\ UNCHANGED gen

\* A datagram that nobody receives is gone.
Unreachable(m) ==
  /\ \A e \in Edges : ~Reaches(m, e)
  /\ \A s \in Supernodes : m.dst # SnSock(s)

Vanish ==
  /\ \E m \in net : Unreachable(m) /\ net' = net \ {m}
  /\ UNCHANGED <<gen, hole, faults>>

Lose ==
  /\ \E m \in net : net' = net \ {m}
  /\ Fault("loss")
  /\ UNCHANGED <<gen, hole>>

NewSocket(e) ==
  /\ gen' = [gen EXCEPT ![e] = @ + 1]
  /\ hole' = [hole EXCEPT ![e] = {}]

Rebind(e) == NewSocket(e) /\ Fault("rebind") /\ UNCHANGED net

\* The timers of both programs are seconds long: one that fires while a
\* datagram of the exchange it waits for is still under way is a fault of the
\* network; what else is in flight does not matter.
Timer(awaited) ==
  \/ awaited \cap net = {} /\ UNCHANGED faults
  \/ awaited \cap net # {} /\ Fault("delay")

\* The datagrams with which an edge registers, and those by which two peers
\* look for each other.
Registering(e) ==
  {m \in net : m.mac = e /\ m.type \in {"REGISTER_SUPER", "REGISTER_SUPER_ACK"}}

Peering(e, p) ==
  {m \in net : /\ {m.mac, m.to} = {e, p}
               /\ m.type \in {"REGISTER", "REGISTER_ACK", "QUERY_PEER", "PEER_INFO"}}

NetNext == Vanish \/ Lose \/ (\E e \in Edges : Rebind(e))
=============================================================================
