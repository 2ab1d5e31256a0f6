--------------------------------- MODULE P2P ---------------------------------
(***************************************************************************)
(* The p2p server (pkg/p2p) of several nodes: dial and accept loops, one   *)
(* reader goroutine per end of a connection (handleConn), goroutines that  *)
(* send on their own, the peer set, and the end of a server when its       *)
(* context is cancelled.                                                   *)
(*                                                                         *)
(* A connection has two ends, the dialling and the accepting one.  Each    *)
(* end writes into a buffer of its own (the kernel's, of Capacity frames)  *)
(* that the other end's reader empties; Peer.Send waits for room in it     *)
(* without a deadline.                                                     *)
(***************************************************************************)
EXTENDS Integers, Sequences

CONSTANTS
  Node,         \* nodes, named by the ID that they say in their hello
  NoNode,       \* the empty ID
  Conn,         \* connections that may exist at a time; their number is a bound
  Bootnodes,    \* node -> addresses that it dials, each the listener of a node
  Networks,     \* which network each node may be configured for
  Capacity,     \* frames that fit into a connection, one way
  Chatter,      \* of "ping" and "status", those that this instance sends
  Stopping,     \* nodes whose context may be cancelled
  Block,        \* what a new_block message carries
  MaxDrops      \* bound of the connections that the network loses

ASSUME P2PAssumption ==
  /\ NoNode \notin Node
  /\ Bootnodes \in [Node -> SUBSET Node]
  /\ \A w \in Networks : DOMAIN w = Node
  /\ Capacity \in Nat \ {0}
  /\ Chatter \subseteq {"ping", "status"}
  /\ Stopping \subseteq Node
  /\ MaxDrops \in Nat
  /\ Block \cap {"hello", "ping", "pong", "status"} = {}

End == Conn \X {"out", "in"}
Other(e) == <<e[1], IF e[2] = "out" THEN "in" ELSE "out">>

Message == {"hello", "ping", "pong", "status"} \cup Block

VARIABLES
  link,         \* the dialling and the accepting node of a connection
  pc,           \* what the goroutine of an end does
  up,           \* this side has its socket open
  wire,         \* frames written by this end and not yet read by the other
  outbox,       \* messages that goroutines of their own are about to send
  id,           \* Peer.ID
  peers,        \* node -> its PeerSet, as pairs of a key and a peer
  phase,        \* "running", "cancelled", and "swept": connections closed
  network,      \* node -> cfg.Network
  drops

serverVars == <<link, pc, up, wire, outbox, id, peers, phase, network, drops>>

NoLink == <<NoNode, NoNode>>

ServerInit ==
  /\ link = [c \in Conn |-> NoLink]
  /\ pc = [e \in End |-> "none"]
  /\ up = [e \in End |-> FALSE]
  /\ wire = [e \in End |-> <<>>]
  /\ outbox = [e \in End |-> {}]
  /\ id = [e \in End |-> NoNode]
  /\ peers = [n \in Node |-> {}]
  /\ phase = [n \in Node |-> "running"]
  /\ network \in Networks
  /\ drops = 0

-----------------------------------------------------------------------------
Owner(e) == link[e[1]][IF e[2] = "out" THEN 1 ELSE 2]
Remote(e) == Owner(Other(e))

\* Mutant: an accepted connection has the address of the remote's host.
HostKey(e) == IF e[2] = "out" THEN <<"out", link[e[1]][2]>> ELSE <<"in", link[e[1]][1]>>

\* The key under its address: dialled connections have the address of the
\* bootnode, accepted ones that of the remote's port.
AddrKey(e) == IF e[2] = "out" THEN <<"out", link[e[1]][2]>> ELSE <<"in", e[1]>>

\* IDs and addresses are strings of one namespace: here no ID is an address.
peerKey(e) == IF id[e] # NoNode THEN <<"id", id[e]>> ELSE AddrKey(e)

\* handleConn from Add to the deferred function.
Handled(e) == pc[e] \in {"greet", "read", "pong", "leave"}

Listed(n) == {p[2] : p \in peers[n]}

\* An entry may outlive its connection; sending to it then fails, and so does
\* closing it.
Reached(n) == {e \in Listed(n) : Handled(e)}

Add(n, e) == {p \in peers[n] : p[1] # peerKey(e)} \cup {<<peerKey(e), e>>}

Remove(n, e) == {p \in peers[n] : p[1] # peerKey(e)}

Cancelled(n) == phase[n] # "running"

-----------------------------------------------------------------------------
\* Mutant: a connection that the other side has closed is not noticed.
ClosedHere(e) == ~up[e]

\* Writing fails, or what is written is lost.
Broken(e) == ~up[e] \/ ~up[Other(e)]

\* Peer.Send returns: there is room, or an error.
CanSend(e) == Broken(e) \/ Len(wire[e]) < Capacity

Write(e, m) ==
  wire' = IF Broken(e) THEN wire ELSE [wire EXCEPT ![e] = Append(@, m)]

\* Mutant: the context is looked at by the waiting goroutine alone.
ResumeAlways(e) == pc' = [pc EXCEPT ![e] = "read"]

\* The loop of handleConn goes on, unless the context is done.
Resume(e) ==
  pc' = [pc EXCEPT ![e] = IF Cancelled(Owner(e)) THEN "leave" ELSE "read"]

-----------------------------------------------------------------------------
\* An iteration of dialLoop for one address: it waits for handleConn.
Dial(n, b) ==
  /\ b \in Bootnodes[n]
  /\ phase[n] = "running" /\ phase[b] # "swept"
  /\ \A d \in Conn : link[d] = <<n, b>> => pc[<<d, "out">>] = "none"
  /\ \E c \in Conn :
       /\ link[c] = NoLink
       /\ link' = [link EXCEPT ![c] = <<n, b>>]
       /\ pc' = [pc EXCEPT ![<<c, "out">>] = "new", ![<<c, "in">>] = "new"]
       /\ up' = [up EXCEPT ![<<c, "out">>] = TRUE, ![<<c, "in">>] = TRUE]
  /\ UNCHANGED <<wire, outbox, id, peers, phase, network, drops>>

\* This end is done with the connection.  The number of a connection that both
\* ends are done with is free for another.
Depart(e) ==
  /\ pc' = [pc EXCEPT ![e] = "none"]
  /\ up' = [up EXCEPT ![e] = FALSE]
  /\ IF pc[Other(e)] # "none"
     THEN /\ outbox' = [outbox EXCEPT ![e] = {}]
          /\ UNCHANGED <<link, wire, id>>
     ELSE /\ link' = [link EXCEPT ![e[1]] = NoLink]
          /\ wire' = [wire EXCEPT ![e] = <<>>, ![Other(e)] = <<>>]
          /\ outbox' = [outbox EXCEPT ![e] = {}]
          /\ id' = [id EXCEPT ![e] = NoNode, ![Other(e)] = NoNode]

\* The listener was closed before acceptLoop took the connection.
Refuse(e) ==
  /\ pc[e] = "new" /\ e[2] = "in" /\ phase[Owner(e)] = "swept"
  /\ Depart(e)
  /\ UNCHANGED <<peers, phase, network, drops>>

\* acceptLoop and dialLoop call handleConn, here up to its first Send;
\* onPeerConnected starts two goroutines.
HandleConn(e) ==
  /\ pc[e] = "new"
  /\ pc' = [pc EXCEPT ![e] = "greet"]
  /\ peers' = [peers EXCEPT ![Owner(e)] = Add(Owner(e), e)]
  /\ outbox' = [outbox EXCEPT ![e] = Chatter]
  /\ UNCHANGED <<link, up, wire, id, phase, network, drops>>

SendHello(e) ==
  /\ pc[e] = "greet" /\ CanSend(e)
  /\ Write(e, "hello")
  /\ pc' = [pc EXCEPT ![e] = "read"]
  /\ UNCHANGED <<link, up, outbox, id, peers, phase, network, drops>>

\* A goroutine that onPeerConnected, onHello or a change of the tip started.
SendSpawned(e) ==
  /\ CanSend(e)
  /\ \E m \in outbox[e] :
       /\ Write(e, m)
       /\ outbox' = [outbox EXCEPT ![e] = @ \ {m}]
  /\ UNCHANGED <<link, pc, up, id, peers, phase, network, drops>>

-----------------------------------------------------------------------------
Incoming(e) == wire[Other(e)]

\* Mutant: what has come before this side closed is still read.
ReadsBuffered(e, m) ==
  /\ pc[e] = "read"
  /\ Incoming(e) # <<>> /\ m = Head(Incoming(e))
  /\ wire' = [wire EXCEPT ![Other(e)] = Tail(@)]

\* readMessage returns a message, which dispatch handles.
Reads(e, m) ==
  /\ pc[e] = "read" /\ up[e]
  /\ Incoming(e) # <<>> /\ m = Head(Incoming(e))
  /\ wire' = [wire EXCEPT ![Other(e)] = Tail(@)]

\* onHello closes the connection when the networks differ.
HangUp(e) == network[Owner(e)] # network[Owner(Other(e))]

DispatchHello(e) ==
  /\ Reads(e, "hello")
  /\ id' = [id EXCEPT ![e] = Owner(Other(e))]
  /\ up' = [up EXCEPT ![e] = ~HangUp(e)]
  /\ outbox' = [outbox EXCEPT ![e] =
                  IF HangUp(e) THEN @ ELSE @ \cup (Chatter \cap {"status"})]
  /\ Resume(e)
  /\ UNCHANGED <<link, peers, phase, network, drops>>

\* The handlers of status and pong only log.
DispatchInfo(e) ==
  /\ Reads(e, "status") \/ Reads(e, "pong")
  /\ Resume(e)
  /\ UNCHANGED <<link, up, outbox, id, peers, phase, network, drops>>

\* The reader itself sends the pong, and reads nothing until it is sent.
DispatchPing(e) ==
  /\ Reads(e, "ping")
  /\ pc' = [pc EXCEPT ![e] = "pong"]
  /\ UNCHANGED <<link, up, outbox, id, peers, phase, network, drops>>

SendPong(e) ==
  /\ pc[e] = "pong" /\ CanSend(e)
  /\ Write(e, "pong")
  /\ IF up[e] THEN Resume(e) ELSE pc' = [pc EXCEPT ![e] = "leave"]
  /\ UNCHANGED <<link, up, outbox, id, peers, phase, network, drops>>

\* What dispatch of a new_block does to the server.
DispatchBlock(e, b) ==
  /\ Reads(e, b)
  /\ Resume(e)
  /\ UNCHANGED <<link, up, id, peers, phase, network, drops>>

\* Mutant: the loop goes on after a read error.
LeaveWhenStopped(e) ==
  /\ pc[e] = "leave"
  /\ peers' = [peers EXCEPT ![Owner(e)] = Remove(Owner(e), e)]
  /\ Depart(e)
  /\ UNCHANGED <<phase, network, drops>>

\* readMessage fails, and what is in the buffer may be lost; or the context was
\* done.  Remove comes before Close.
Leave(e) ==
  /\ \/ pc[e] = "leave"
     \/ pc[e] = "read" /\ Broken(e)
  /\ peers' = [peers EXCEPT ![Owner(e)] = Remove(Owner(e), e)]
  /\ Depart(e)
  /\ UNCHANGED <<phase, network, drops>>

-----------------------------------------------------------------------------
Cancel(n) ==
  /\ n \in Stopping /\ phase[n] = "running"
  /\ phase' = [phase EXCEPT ![n] = "cancelled"]
  /\ UNCHANGED <<link, pc, up, wire, outbox, id, peers, network, drops>>

\* The goroutine that waits for ctx.Done closes the listener and the peers it
\* finds listed; a connection that is being set up is not among them.
Sweep(n) ==
  /\ phase[n] = "cancelled"
  /\ phase' = [phase EXCEPT ![n] = "swept"]
  /\ up' = [e \in End |-> up[e] /\ e \notin Reached(n)]
  /\ UNCHANGED <<link, pc, wire, outbox, id, peers, network, drops>>

\* The network loses a connection: both ends find it closed.
Drop(c) ==
  /\ drops < MaxDrops /\ link[c] # NoLink
  /\ drops' = drops + 1
  /\ up' = [e \in End |-> up[e] /\ e[1] # c]
  /\ UNCHANGED <<link, pc, wire, outbox, id, peers, phase, network>>

\* What a goroutine of an end does by itself.
EndStep(e) ==
  \/ Refuse(e) \/ HandleConn(e) \/ SendHello(e)
  \/ DispatchHello(e) \/ DispatchInfo(e) \/ DispatchPing(e) \/ SendPong(e)
  \/ Leave(e)

ServerStep ==
  \/ \E n, b \in Node : Dial(n, b)
  \/ \E c \in Conn : Drop(c)
  \/ \E e \in End : EndStep(e) \/ SendSpawned(e)
  \/ \E n \in Node : Cancel(n) \/ Sweep(n)
=============================================================================
