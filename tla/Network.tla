------------------------------- MODULE Network -------------------------------
(***************************************************************************)
(* Nodes that talk over P2P: the main loop of each (node.go, Run) mines    *)
(* and sends its block to the listed peers one after the other; readers    *)
(* hand received blocks to onNewBlock, which inserts them and tells nobody *)
(* but by a status.  An insertion is one step here, what HeaviestChain     *)
(* promises; ChainNode has it in detail.  All blocks have one target, so   *)
(* that the longer chain is the heavier.                                   *)
(***************************************************************************)
EXTENDS P2P

CONSTANTS
  Genesis,      \* every node starts with it
  Parent, Height, Rank,
  Maker         \* the node that finds a block

ASSUME NetworkAssumption ==
  /\ Genesis \notin Block
  /\ Parent \in [Block -> Block \cup {Genesis}]
  /\ Height \in [Block \cup {Genesis} -> Nat]
  /\ Rank \in [Block \cup {Genesis} -> Nat]
  /\ Maker \in [Block -> Node]

VARIABLES
  known, tip,   \* each node's chain
  main,         \* the main loop: "idle", "send" or "returned"
  sending,      \* the block that broadcastNewBlock sends
  todo          \* peers that broadcastNewBlock has still to send it to

nodeVars == <<known, tip, main, sending, todo>>
vars == <<serverVars, nodeVars>>

Init ==
  /\ ServerInit
  /\ known = [n \in Node |-> {Genesis}]
  /\ tip = [n \in Node |-> Genesis]
  /\ main = [n \in Node |-> "idle"]
  /\ sending = [n \in Node |-> Genesis]
  /\ todo = [n \in Node |-> {}]

-----------------------------------------------------------------------------
Heavier(a, b) ==
  \/ Height[a] > Height[b]
  \/ Height[a] = Height[b] /\ Rank[a] < Rank[b]

Insertable(n, b) == b \notin known[n] /\ Parent[b] \in known[n]

Insert(n, b) ==
  /\ known' = [known EXCEPT ![n] = @ \cup {b}]
  /\ tip' = [tip EXCEPT ![n] = IF Heavier(b, @) THEN b ELSE @]

\* broadcastStatus, on a goroutine of its own; here its sends to the listed peers
\* may overtake each other.
WithStatus(n) ==
  [e \in End |-> outbox[e] \cup
     (IF e \in Reached(n) THEN Chatter \cap {"status"} ELSE {})]

\* mineNextBlock and InsertBlock: the template's parent was the tip at some
\* moment.  A block that becomes the tip is sent to the peers listed now.
Mine(n) ==
  /\ main[n] = "idle"
  /\ \E b \in Block :
       LET won == Heavier(b, tip[n]) IN
       /\ Maker[b] = n /\ Insertable(n, b)
       /\ Insert(n, b)
       /\ sending' = [sending EXCEPT ![n] = b]
       /\ main' = [main EXCEPT ![n] = IF won THEN "send" ELSE "idle"]
       /\ todo' = [todo EXCEPT ![n] = IF won THEN Reached(n) ELSE {}]
  /\ UNCHANGED serverVars

SendBlock(n, e) ==
  /\ main[n] = "send" /\ e \in todo[n]
  /\ CanSend(e) /\ Write(e, sending[n])
  /\ todo' = [todo EXCEPT ![n] = @ \ {e}]
  /\ UNCHANGED <<link, pc, up, outbox, id, peers, phase, network, drops>>
  /\ UNCHANGED <<known, tip, main, sending>>

Sent(n) ==
  /\ main[n] = "send" /\ todo[n] = {}
  /\ main' = [main EXCEPT ![n] = "idle"]
  /\ outbox' = WithStatus(n)
  /\ UNCHANGED <<link, pc, up, wire, id, peers, phase, network, drops>>
  /\ UNCHANGED <<known, tip, sending, todo>>

\* Run returns at the top of its loop or while it waits for the block time.
Return(n) ==
  /\ main[n] = "idle" /\ Cancelled(n)
  /\ main' = [main EXCEPT ![n] = "returned"]
  /\ UNCHANGED <<serverVars, known, tip, sending, todo>>

\* onNewBlock on the reader goroutine.
OnNewBlock(e) ==
  \E b \in Block :
    LET n == Owner(e) IN
    /\ DispatchBlock(e, b)
    /\ IF Insertable(n, b)
       THEN /\ Insert(n, b)
            /\ outbox' = IF Heavier(b, tip[n]) THEN WithStatus(n) ELSE outbox
       ELSE UNCHANGED <<known, tip, outbox>>
    /\ UNCHANGED <<main, sending, todo>>

\* A step of the server alone.  Sending to a peer that has left fails.
Serves(step) ==
  /\ step
  /\ todo' = [n \in Node |-> {e \in todo[n] : pc'[e] # "none"}]
  /\ UNCHANGED <<known, tip, main, sending>>

MainStep(n) ==
  \/ Sent(n) \/ Return(n)
  \/ \E e \in End : SendBlock(n, e)

Next ==
  \/ Serves(ServerStep)
  \/ \E e \in End : OnNewBlock(e)
  \/ \E n \in Node : Mine(n) \/ MainStep(n)

Spec == Init /\ [][Next]_vars

(***************************************************************************)
(* The scheduler runs every goroutine that can run, dial loops included.   *)
(* One end's step is not disabled by others for good: a full connection is *)
(* waited for by whoever has got Peer.mu.  Nothing makes a node mine, stop *)
(* or lose a connection.                                                   *)
(***************************************************************************)
Fairness ==
  /\ \A e \in End : SF_vars(Serves(EndStep(e)) \/ OnNewBlock(e))
  /\ \A n \in Node : SF_vars(MainStep(n)) /\ WF_vars(Serves(Sweep(n)))
  /\ \A n \in Node : \A b \in Bootnodes[n] : WF_vars(Serves(Dial(n, b)))

FairSpec == Spec /\ Fairness

-----------------------------------------------------------------------------
(***************************************************************************)
(* A peer whose connection is being handled is listed, so that blocks are  *)
(* sent to it, whatever others connected, said hello or left meanwhile:    *)
(* when a node has dialled again and its old connection still lingers at   *)
(* the other side, neither takes the other's entry (peer.go:77-82,         *)
(* transport.go:126-133).  The other direction does not hold: an entry     *)
(* made under an address is not removed under an ID.                       *)
(***************************************************************************)
EveryConnectionListed ==
  \A e \in End : pc[e] \in {"greet", "read", "pong"} => e \in Listed(Owner(e))

(***************************************************************************)
(* Once a hello has named another network, its connection is closed and no *)
(* later frame of it reaches a handler, those included that were already   *)
(* on the wire behind the hello (node.go:184-188, transport.go:139-147).   *)
(***************************************************************************)
ForeignUnheard ==
  [][\A e \in End :
       (id[e] # NoNode /\ network[id[e]] # network[Owner(e)] /\ link'[e[1]] # NoLink)
         => Len(wire'[Other(e)]) >= Len(wire[Other(e)])]_vars

\* Two readers that wait for each other to read, each in a Send of its own.
StuckInSend(e) == pc[e] \in {"greet", "pong"} /\ ~CanSend(e)
CircularWait(e) == StuckInSend(e) /\ StuckInSend(Other(e))

(***************************************************************************)
(* The main loop gets through its broadcast whatever its peers do (leave,  *)
(* are lost, are stopped), but for one way to hang: the readers of both    *)
(* ends answer a ping, or say hello, over a connection that is full both   *)
(* ways (peer.go:27, transport.go:137, 190).                               *)
(***************************************************************************)
BroadcastEnds ==
  \A n \in Node :
    main[n] = "send" ~> (main[n] # "send" \/ \E e \in End : CircularWait(e))

(***************************************************************************)
(* A node whose context is cancelled comes to an end: its main loop        *)
(* returns and none of its connections stays, those included that were     *)
(* being set up when the others were closed (transport.go:76-84), unless   *)
(* the readers of such a one wait for each other.                          *)
(***************************************************************************)
Over(n) == main[n] = "returned" /\ \A e \in End : Owner(e) = n => pc[e] = "none"

ShutdownEnds ==
  \A n \in Node :
    Cancelled(n) ~> (Over(n) \/ \E e \in End : Owner(e) = n /\ CircularWait(e))

(***************************************************************************)
(* A bootnode of the same network is connected again after every loss, as  *)
(* long as neither side is stopped (transport.go:105-122).                 *)
(***************************************************************************)
Connected(n, b) ==
  \E c \in Conn :
    link[c] = <<n, b>> /\ \A e \in {c} \X {"out", "in"} : Handled(e) /\ up[e]

BootnodesStayConnected ==
  \A n \in Node : \A b \in Bootnodes[n] :
    []<>(\/ Connected(n, b) \/ network[n] # network[b]
         \/ Cancelled(n) \/ Cancelled(b))
=============================================================================
