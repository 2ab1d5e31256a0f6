--------------------------- MODULE Network_proofs ---------------------------
(***************************************************************************)
(* Proofs about Network for every number of nodes and connections, every   *)
(* capacity and every number of losses: a connection that is being handled *)
(* is listed, and a peer of another network is not heard.                  *)
(*                                                                         *)
(* The peer set is keyed by addresses as long as a peer has said no hello, *)
(* and by IDs afterwards.  Connections are added before they are greeted,  *)
(* hence under addresses only, which are different for all the connections *)
(* that a node handles at one time: one dial loop has one connection, and  *)
(* accepted connections have ports of their own.  What is removed under an *)
(* ID is therefore nothing.                                                *)
(***************************************************************************)
EXTENDS Network, TLAPS

PC == {"none", "new", "greet", "read", "pong", "leave"}

\* What the main loop may come to write before it has a block to send is not
\* excluded by the types.
Frame == Message \cup {Genesis}

Typed ==
  /\ link \in [Conn -> (Node \X Node) \cup {NoLink}]
  /\ pc \in [End -> PC]
  /\ up \in [End -> BOOLEAN]
  /\ wire \in [End -> Seq(Frame)]
  /\ id \in [End -> Node \cup {NoNode}]
  /\ DOMAIN peers = Node
  /\ network \in Networks

\* A connection that an end still works at has its two nodes.
Linked == \A e \in End : pc[e] # "none" => link[e[1]] # NoLink

\* One dial loop per address, and one connection per loop.
OneDialled ==
  \A c, d \in Conn :
    /\ link[c] # NoLink /\ link[c] = link[d]
    /\ pc[<<c, "out">>] # "none" /\ pc[<<d, "out">>] # "none"
    => c = d

\* An ID is learned from a hello.
NoIDBefore == \A e \in End : pc[e] = "new" \/ link[e[1]] = NoLink => id[e] = NoNode

KeyedByAddress == \A n \in Node : \A p \in peers[n] : p[1][1] # "id"

ListedByAddress ==
  \A e \in End : Handled(e) => <<AddrKey(e), e>> \in peers[Owner(e)]

ForeignClosed ==
  \A e \in End : id[e] # NoNode =>
    /\ id[e] = Owner(Other(e))
    /\ HangUp(e) => ~up[e]

IInv ==
  /\ Typed /\ Linked /\ OneDialled /\ NoIDBefore
  /\ KeyedByAddress /\ ListedByAddress /\ ForeignClosed

-----------------------------------------------------------------------------
(***************************************************************************)
(* The two ends of a connection.                                           *)
(***************************************************************************)
LEMMA Ends ==
  ASSUME NEW e \in End
  PROVE  /\ Other(e) \in End /\ Other(e)[1] = e[1] /\ e[1] \in Conn
         /\ Other(Other(e)) = e /\ Other(e) # e
         /\ e = <<e[1], e[2]>> /\ e[2] \in {"out", "in"}
         /\ \A d \in End : d[1] = e[1] => d = e \/ d = Other(e)
  BY DEF End, Other

(***************************************************************************)
(* The owner of an end that works is a node (transport.go:88-122).         *)
(***************************************************************************)
LEMMA OwnerIsNode ==
  ASSUME Typed, NEW e \in End, link[e[1]] # NoLink
  PROVE  Owner(e) \in Node /\ Owner(Other(e)) \in Node
<1>1. e[1] \in Conn /\ Other(e)[1] = e[1]
  BY Ends
<1>2. link[e[1]] \in Node \X Node
  BY <1>1 DEF Typed
<1> QED
  BY <1>1, <1>2 DEF Owner

(***************************************************************************)
(* No two connections of a node share the key of an address.               *)
(***************************************************************************)
LEMMA KeysDiffer ==
  ASSUME Typed, Linked, OneDialled, NEW d \in End, NEW e \in End,
         pc[d] # "none", pc[e] # "none", Owner(d) = Owner(e),
         AddrKey(d) = AddrKey(e)
  PROVE  d = e
<1>1. link[d[1]] \in Node \X Node /\ link[e[1]] \in Node \X Node
  BY Ends DEF Typed, Linked
<1>2. d[2] = e[2]
  BY Ends DEF AddrKey
<1>3. CASE d[2] = "in"
  <2>1. AddrKey(d)[2] = d[1] /\ AddrKey(e)[2] = e[1]
    BY <1>2, <1>3 DEF AddrKey
  <2>2. d[1] = e[1]
    BY <2>1
  <2> QED
    BY <1>2, <2>2, Ends
<1>4. CASE d[2] = "out"
  <2>1. link[d[1]][2] = link[e[1]][2] /\ link[d[1]][1] = link[e[1]][1]
    <3>1. AddrKey(d)[2] = link[d[1]][2] /\ AddrKey(e)[2] = link[e[1]][2]
      BY <1>2, <1>4 DEF AddrKey
    <3> QED
      BY <3>1, <1>2, <1>4 DEF Owner
  <2>2. link[d[1]] = link[e[1]] /\ link[d[1]] # NoLink
    BY <1>1, <2>1 DEF Linked
  <2>3. d = <<d[1], "out">> /\ e = <<e[1], "out">>
    BY <1>2, <1>4, Ends
  <2> QED
    BY <2>2, <2>3, Ends DEF OneDialled
<1> QED
  BY <1>3, <1>4, Ends

-----------------------------------------------------------------------------
LEMMA InitIInv == Init => IInv
<1> SUFFICES ASSUME Init PROVE IInv
  OBVIOUS
<1> USE DEF Init, ServerInit
<1>1. Typed
  BY DEF Typed, PC
<1>2. Linked /\ OneDialled /\ NoIDBefore /\ ForeignClosed
  BY Ends DEF Linked, OneDialled, NoIDBefore, ForeignClosed
<1>3. KeyedByAddress /\ ListedByAddress
  BY DEF KeyedByAddress, ListedByAddress, Handled
<1> QED
  BY <1>1, <1>2, <1>3 DEF IInv

-----------------------------------------------------------------------------
\* What a step of an end that works does to pc.
Working == {"greet", "read", "pong", "leave"}

(***************************************************************************)
(* Steps that send, read or close but leave links, IDs and peer sets alone *)
(* preserve the invariant.                                                 *)
(***************************************************************************)
LEMMA QuietStep ==
  ASSUME IInv, UNCHANGED <<link, id, peers, network>>,
         wire' \in [End -> Seq(Frame)],
         pc' \in [End -> PC], up' \in [End -> BOOLEAN],
         \A e \in End : pc'[e] # pc[e] => pc[e] \in Working /\ pc'[e] \in Working,
         \A e \in End : up'[e] => up[e]
  PROVE  IInv'
<1> USE DEF IInv
<1>1. Typed'
  BY DEF Typed
<1>2. \A e \in End : /\ Owner(e)' = Owner(e) /\ Owner(Other(e))' = Owner(Other(e))
                     /\ AddrKey(e)' = AddrKey(e) /\ HangUp(e)' = HangUp(e)
  BY DEF Owner, AddrKey, HangUp
<1>3. \A e \in End : /\ pc'[e] = "none" <=> pc[e] = "none"
                     /\ pc'[e] = "new" <=> pc[e] = "new"
                     /\ Handled(e)' <=> Handled(e)
  BY DEF Working, Handled
<1>4. Linked'
  BY <1>3 DEF Linked
<1>5. OneDialled'
  BY <1>3 DEF OneDialled, End
<1>6. NoIDBefore'
  BY <1>3 DEF NoIDBefore
<1>7. KeyedByAddress'
  BY DEF KeyedByAddress
<1>8. ListedByAddress'
  BY <1>2, <1>3 DEF ListedByAddress
<1>9. ForeignClosed'
  BY <1>2 DEF ForeignClosed
<1> QED
  BY <1>1, <1>4, <1>5, <1>6, <1>7, <1>8, <1>9

(***************************************************************************)
(* A dial loop that has no connection makes one (transport.go:105-122).    *)
(***************************************************************************)
LEMMA DialPreserves ==
  ASSUME IInv, NEW n \in Node, NEW b \in Node, Dial(n, b)
  PROVE  IInv'
<1> USE DEF IInv
<1>1. PICK c \in Conn :
        /\ link[c] = NoLink
        /\ link' = [link EXCEPT ![c] = <<n, b>>]
        /\ pc' = [pc EXCEPT ![<<c, "out">>] = "new", ![<<c, "in">>] = "new"]
        /\ up' = [up EXCEPT ![<<c, "out">>] = TRUE, ![<<c, "in">>] = TRUE]
  BY DEF Dial
<1>2. UNCHANGED <<wire, outbox, id, peers, phase, network, drops>>
  BY DEF Dial
<1> DEFINE o == <<c, "out">>
           i == <<c, "in">>
<1>3. o \in End /\ i \in End /\ o # i /\ \A e \in End : e[1] = c <=> e \in {o, i}
  BY DEF End
<1>4. /\ pc'[o] = "new" /\ pc'[i] = "new" /\ link'[c] = <<n, b>>
      /\ \A e \in End \ {o, i} : pc'[e] = pc[e] /\ up'[e] = up[e]
      /\ \A d \in Conn \ {c} : link'[d] = link[d]
  BY <1>1, <1>3 DEF Typed
<1>5. pc[o] = "none" /\ pc[i] = "none"
  BY <1>1, <1>3 DEF Linked
<1>6. <<n, b>> # NoLink /\ <<n, b>> \in Node \X Node
  BY P2PAssumption DEF NoLink
<1>7. Typed'
  BY <1>1, <1>2, <1>6 DEF Typed, PC
<1>8. Linked'
  BY <1>3, <1>4, <1>6, Ends DEF Linked
<1>9. OneDialled'
  <2> SUFFICES ASSUME NEW d \in Conn, NEW f \in Conn,
                      link'[d] # NoLink, link'[d] = link'[f],
                      pc'[<<d, "out">>] # "none", pc'[<<f, "out">>] # "none"
               PROVE  d = f
    BY DEF OneDialled
  <2>1. ASSUME NEW g \in Conn, g # c, link'[g] = <<n, b>>
        PROVE  pc'[<<g, "out">>] = "none"
    <3>1. <<g, "out">> \in End \ {o, i}
      BY <2>1 DEF End
    <3> QED
      BY <3>1, <2>1, <1>4 DEF Dial
  <2>2. CASE d # c /\ f # c
    <3>1. <<d, "out">> \in End \ {o, i} /\ <<f, "out">> \in End \ {o, i}
      BY <2>2 DEF End
    <3> QED
      BY <3>1, <2>2, <1>4 DEF OneDialled
  <2>3. CASE d = c /\ f # c
    BY <2>1, <2>3, <1>4
  <2>4. CASE d # c /\ f = c
    BY <2>1, <2>4, <1>4
  <2> QED
    BY <2>2, <2>3, <2>4
<1>10. id[o] = NoNode /\ id[i] = NoNode
  BY <1>1, <1>3 DEF NoIDBefore
<1>11. NoIDBefore'
  BY <1>2, <1>3, <1>4, <1>10, Ends DEF NoIDBefore
<1>12. KeyedByAddress'
  BY <1>2 DEF KeyedByAddress
<1>13. \A e \in End \ {o, i} :
         /\ Owner(e)' = Owner(e) /\ Owner(Other(e))' = Owner(Other(e))
         /\ AddrKey(e)' = AddrKey(e) /\ HangUp(e)' = HangUp(e)
         /\ Handled(e)' <=> Handled(e)
  <2> SUFFICES ASSUME NEW e \in End \ {o, i}
               PROVE  /\ Owner(e)' = Owner(e) /\ Owner(Other(e))' = Owner(Other(e))
                      /\ AddrKey(e)' = AddrKey(e) /\ HangUp(e)' = HangUp(e)
                      /\ Handled(e)' <=> Handled(e)
    OBVIOUS
  <2>1. e[1] \in Conn \ {c} /\ Other(e)[1] = e[1]
    BY <1>3, Ends
  <2> QED
    BY <2>1, <1>2, <1>4 DEF Owner, AddrKey, HangUp, Handled
<1>14. ListedByAddress'
  BY <1>2, <1>4, <1>13 DEF ListedByAddress, Handled
<1>15. ForeignClosed'
  BY <1>2, <1>4, <1>10, <1>13 DEF ForeignClosed
<1> QED
  BY <1>7, <1>8, <1>9, <1>11, <1>12, <1>14, <1>15

(***************************************************************************)
(* handleConn lists its peer under an address that no other connection of  *)
(* the node has (transport.go:124-136).                                    *)
(***************************************************************************)
LEMMA HandleConnPreserves ==
  ASSUME IInv, NEW d \in End, HandleConn(d)
  PROVE  IInv'
<1> USE DEF IInv
<1>1. pc[d] = "new" /\ UNCHANGED <<link, up, wire, id, network>>
  BY DEF HandleConn
<1>2. /\ pc' \in [End -> PC] /\ pc'[d] = "greet"
      /\ \A e \in End \ {d} : pc'[e] = pc[e]
  BY DEF HandleConn, Typed, PC
<1> DEFINE n == Owner(d)
<1>3. n \in Node
  BY <1>1, OwnerIsNode DEF Linked
<1>4. id[d] = NoNode /\ peerKey(d) = AddrKey(d) /\ AddrKey(d)[1] # "id"
  BY <1>1 DEF NoIDBefore, peerKey, AddrKey
<1>5. /\ DOMAIN peers' = Node /\ peers'[n] = Add(n, d)
      /\ \A m \in Node \ {n} : peers'[m] = peers[m]
  BY <1>3 DEF HandleConn, Typed
<1>6. Typed'
  BY <1>1, <1>2, <1>5 DEF Typed
<1>7. \A e \in End : /\ Owner(e)' = Owner(e) /\ Owner(Other(e))' = Owner(Other(e))
                     /\ AddrKey(e)' = AddrKey(e) /\ HangUp(e)' = HangUp(e)
  BY <1>1 DEF Owner, AddrKey, HangUp
<1>8. \A e \in End : /\ pc'[e] = "none" <=> pc[e] = "none"
                     /\ pc'[e] = "new" => pc[e] = "new"
  BY <1>1, <1>2
<1>9. Linked' /\ NoIDBefore'
  BY <1>1, <1>8 DEF Linked, NoIDBefore
<1>10. OneDialled'
  BY <1>1, <1>8 DEF OneDialled, End
<1>11. KeyedByAddress'
  BY <1>3, <1>4, <1>5 DEF KeyedByAddress, Add
<1>12. ListedByAddress'
  <2> SUFFICES ASSUME NEW e \in End, Handled(e)'
               PROVE  <<AddrKey(e), e>> \in peers'[Owner(e)]
    BY <1>7 DEF ListedByAddress
  <2>1. CASE e = d
    BY <2>1, <1>4, <1>5 DEF Add
  <2>2. CASE e # d
    <3>1. Handled(e) /\ pc[e] # "none"
      BY <2>2, <1>2 DEF Handled
    <3>2. <<AddrKey(e), e>> \in peers[Owner(e)] /\ Owner(e) \in Node
      BY <3>1, OwnerIsNode DEF ListedByAddress, Linked
    <3>3. Owner(e) = n => AddrKey(e) # AddrKey(d)
      BY <1>1, <2>2, <3>1, KeysDiffer
    <3> QED
      BY <3>2, <3>3, <1>4, <1>5 DEF Add
  <2> QED
    BY <2>1, <2>2
<1>13. ForeignClosed'
  BY <1>1, <1>7 DEF ForeignClosed
<1> QED
  BY <1>6, <1>9, <1>10, <1>11, <1>12, <1>13

(***************************************************************************)
(* Removing what an end has as its key leaves the entries of the others:   *)
(* under an address it is its own entry, under an ID it is none.           *)
(***************************************************************************)
LEMMA RemoveKeepsOthers ==
  ASSUME Typed, Linked, OneDialled, KeyedByAddress, ListedByAddress,
         NEW d \in End, NEW e \in End, d # e, pc[d] # "none", Handled(e),
         Owner(e) = Owner(d)
  PROVE  <<AddrKey(e), e>> \in Remove(Owner(d), d)
<1>1. <<AddrKey(e), e>> \in peers[Owner(d)]
  BY DEF ListedByAddress
<1>2. Owner(d) \in Node /\ pc[e] # "none"
  BY OwnerIsNode DEF Linked, Handled
<1>3. AddrKey(e) # peerKey(d)
  <2>1. CASE id[d] # NoNode
    <3>1. peerKey(d)[1] = "id"
      BY <2>1 DEF peerKey
    <3>2. AddrKey(e)[1] # "id"
      BY DEF AddrKey
    <3> QED
      BY <3>1, <3>2
  <2>2. CASE id[d] = NoNode
    <3>1. peerKey(d) = AddrKey(d)
      BY <2>2 DEF peerKey
    <3> QED
      BY <3>1, <1>2, KeysDiffer
  <2> QED
    BY <2>1, <2>2
<1> QED
  BY <1>1, <1>3 DEF Remove

(***************************************************************************)
(* An end that is done with its connection (transport.go:127-132), or that *)
(* never took it, disturbs no other.                                       *)
(***************************************************************************)
LEMMA DepartPreserves ==
  ASSUME IInv, NEW d \in End, pc[d] # "none", Depart(d), UNCHANGED network,
         \/ UNCHANGED peers
         \/ peers' = [peers EXCEPT ![Owner(d)] = Remove(Owner(d), d)]
  PROVE  IInv'
<1> USE DEF IInv
<1> DEFINE o == Other(d)
<1>1. /\ o \in End /\ o # d /\ o[1] = d[1] /\ d[1] \in Conn
      /\ \A e \in End : e[1] = d[1] => e = d \/ e = o
      /\ \A e \in End : Other(e)[1] = e[1] /\ e[1] \in Conn /\ Other(e) \in End
  BY Ends
<1>2. /\ pc' \in [End -> PC] /\ pc'[d] = "none" /\ \A e \in End \ {d} : pc'[e] = pc[e]
      /\ up' \in [End -> BOOLEAN] /\ ~up'[d] /\ \A e \in End \ {d} : up'[e] = up[e]
  BY DEF Depart, Typed, PC
<1>3. Owner(d) \in Node
  BY OwnerIsNode DEF Linked
<1>4. /\ link' \in [Conn -> (Node \X Node) \cup {NoLink}]
      /\ \A c \in Conn : link'[c] # NoLink => link'[c] = link[c]
      /\ link'[d[1]] = NoLink => pc[o] = "none"
      /\ \A c \in Conn \ {d[1]} : link'[c] = link[c]
  <2>1. CASE pc[o] # "none"
    BY <2>1, <1>1 DEF Depart, Typed, Linked
  <2>2. CASE pc[o] = "none"
    BY <2>2, <1>1 DEF Depart, Typed
  <2> QED
    BY <2>1, <2>2
<1>5. /\ id' \in [End -> Node \cup {NoNode}] /\ wire' \in [End -> Seq(Frame)]
      /\ \A e \in End : id'[e] # NoNode => id'[e] = id[e]
      /\ link'[d[1]] = NoLink => id'[d] = NoNode /\ id'[o] = NoNode
      /\ \A e \in End \ {d, o} : id'[e] = id[e]
  <2>1. CASE pc[o] # "none"
    BY <2>1, <1>1, <1>4 DEF Depart, Typed
  <2>2. CASE pc[o] = "none"
    <3>1. /\ wire' = [wire EXCEPT ![d] = <<>>, ![o] = <<>>]
          /\ id' = [id EXCEPT ![d] = NoNode, ![o] = NoNode]
      BY <2>2 DEF Depart
    <3>2. wire' \in [End -> Seq(Frame)]
      <4>1. <<>> \in Seq(Frame)
        OBVIOUS
      <4> QED
        BY <3>1, <4>1 DEF Typed
    <3> QED
      BY <3>1, <3>2, <1>1 DEF Typed
  <2> QED
    BY <2>1, <2>2
<1>6. /\ DOMAIN peers' = Node
      /\ \A n \in Node : peers'[n] \in {peers[n], Remove(n, d)}
      /\ \A n \in Node : n # Owner(d) => peers'[n] = peers[n]
  BY <1>3 DEF Typed
<1>7. Typed'
  BY <1>2, <1>4, <1>5, <1>6 DEF Typed
<1>8. \A e \in End : pc'[e] # "none" => pc[e] # "none" /\ pc'[e] = pc[e] /\ e # d
  BY <1>2
<1>9. Linked'
  <2> SUFFICES ASSUME NEW e \in End, pc'[e] # "none"
               PROVE  link'[e[1]] # NoLink
    BY DEF Linked
  <2>1. e # d /\ link[e[1]] # NoLink
    BY <1>8 DEF Linked
  <2>2. CASE e = o
    BY <2>1, <2>2, <1>1, <1>2, <1>4
  <2>3. CASE e # o
    BY <2>1, <2>3, <1>1, <1>4
  <2> QED
    BY <2>2, <2>3
<1>10. OneDialled'
  BY <1>4, <1>8 DEF OneDialled, End
<1>11. NoIDBefore'
  <2> SUFFICES ASSUME NEW e \in End, pc'[e] = "new" \/ link'[e[1]] = NoLink
               PROVE  id'[e] = NoNode
    BY DEF NoIDBefore
  <2>1. CASE e \in {d, o} /\ link'[e[1]] = NoLink
    BY <2>1, <1>1, <1>5
  <2>2. CASE pc'[e] = "new"
    BY <2>2, <1>5, <1>8 DEF NoIDBefore
  <2>3. CASE e \notin {d, o} /\ link'[e[1]] = NoLink
    BY <2>3, <1>1, <1>4, <1>5 DEF NoIDBefore
  <2> QED
    BY <2>1, <2>2, <2>3
<1>12. KeyedByAddress'
  BY <1>3, <1>6 DEF KeyedByAddress, Remove
<1>13. \A e \in End : link'[e[1]] # NoLink =>
         /\ Owner(e)' = Owner(e) /\ Owner(Other(e))' = Owner(Other(e))
         /\ AddrKey(e)' = AddrKey(e)
  BY <1>1, <1>4 DEF Owner, AddrKey
<1>14. ListedByAddress'
  <2> SUFFICES ASSUME NEW e \in End, Handled(e)'
               PROVE  <<AddrKey(e), e>>' \in peers'[Owner(e)']
    BY DEF ListedByAddress
  <2>1. e # d /\ Handled(e) /\ pc'[e] # "none"
    BY <1>2 DEF Handled
  <2>2. Owner(e)' = Owner(e) /\ AddrKey(e)' = AddrKey(e) /\ Owner(e) \in Node
    BY <2>1, <1>8, <1>9, <1>13, OwnerIsNode DEF Linked
  <2>3. <<AddrKey(e), e>> \in peers[Owner(e)]
    BY <2>1 DEF ListedByAddress
  <2>4. Owner(e) = Owner(d) => <<AddrKey(e), e>> \in Remove(Owner(d), d)
    BY <2>1, RemoveKeepsOthers
  <2> QED
    BY <2>2, <2>3, <2>4, <1>6
<1>15. ForeignClosed'
  <2> SUFFICES ASSUME NEW e \in End, id'[e] # NoNode
               PROVE  /\ id'[e] = Owner(Other(e))'
                      /\ HangUp(e)' => ~up'[e]
    BY DEF ForeignClosed
  <2>1. id'[e] = id[e] /\ link'[e[1]] # NoLink
    BY <1>5, <1>11 DEF NoIDBefore
  <2>2. HangUp(e)' <=> HangUp(e)
    BY <2>1, <1>13 DEF HangUp
  <2> QED
    BY <2>1, <2>2, <1>2, <1>13 DEF ForeignClosed
<1> QED
  BY <1>7, <1>9, <1>10, <1>11, <1>12, <1>14, <1>15

(***************************************************************************)
(* onHello names the peer, and closes the connection to another network    *)
(* (transport.go:161-171, node.go:183-191).                                *)
(***************************************************************************)
LEMMA DispatchHelloPreserves ==
  ASSUME IInv, NEW d \in End, DispatchHello(d)
  PROVE  IInv'
<1> USE DEF IInv
<1>1. /\ pc[d] = "read" /\ up[d] /\ UNCHANGED <<link, peers, network>>
      /\ wire' = [wire EXCEPT ![Other(d)] = Tail(@)]
      /\ wire[Other(d)] # <<>>
  BY DEF DispatchHello, Reads, Incoming
<1>2. /\ pc' \in [End -> PC] /\ pc'[d] \in {"leave", "read"}
      /\ \A e \in End \ {d} : pc'[e] = pc[e]
  BY DEF DispatchHello, Resume, Typed, PC
<1>3. Owner(d) \in Node /\ Owner(Other(d)) \in Node /\ link[d[1]] # NoLink
  BY <1>1, OwnerIsNode DEF Linked
<1>4. /\ id' \in [End -> Node \cup {NoNode}] /\ id'[d] = Owner(Other(d))
      /\ \A e \in End \ {d} : id'[e] = id[e]
  BY <1>3 DEF DispatchHello, Typed
<1>5. /\ up' \in [End -> BOOLEAN]
      /\ HangUp(d) => ~up'[d]
      /\ \A e \in End \ {d} : up'[e] = up[e]
  BY DEF DispatchHello, Typed, HangUp
<1>6. wire' \in [End -> Seq(Frame)]
  <2>1. Tail(wire[Other(d)]) \in Seq(Frame)
    BY <1>1, Ends DEF Typed
  <2> QED
    BY <1>1, <2>1 DEF Typed
<1>7. Typed'
  BY <1>1, <1>2, <1>4, <1>5, <1>6 DEF Typed
<1>8. \A e \in End : /\ Owner(e)' = Owner(e) /\ Owner(Other(e))' = Owner(Other(e))
                     /\ AddrKey(e)' = AddrKey(e) /\ HangUp(e)' = HangUp(e)
  BY <1>1 DEF Owner, AddrKey, HangUp
<1>9. \A e \in End : /\ pc'[e] # "none" => pc[e] # "none"
                     /\ pc'[e] = "new" => pc[e] = "new" /\ e # d
                     /\ Handled(e)' => Handled(e)
  BY <1>1, <1>2 DEF Handled
<1>10. Linked'
  BY <1>1, <1>9 DEF Linked
<1>11. OneDialled'
  BY <1>1, <1>9 DEF OneDialled, End
<1>12. NoIDBefore'
  <2> SUFFICES ASSUME NEW e \in End, pc'[e] = "new" \/ link'[e[1]] = NoLink
               PROVE  id'[e] = NoNode
    BY DEF NoIDBefore
  <2>1. e # d
    BY <1>1, <1>2, <1>3
  <2> QED
    BY <2>1, <1>1, <1>4, <1>9 DEF NoIDBefore
<1>13. KeyedByAddress' /\ ListedByAddress'
  BY <1>1, <1>8, <1>9 DEF KeyedByAddress, ListedByAddress
<1>14. ForeignClosed'
  <2> SUFFICES ASSUME NEW e \in End, id'[e] # NoNode
               PROVE  id'[e] = Owner(Other(e)) /\ (HangUp(e) => ~up'[e])
    BY <1>8 DEF ForeignClosed
  <2>1. CASE e = d
    BY <2>1, <1>4, <1>5
  <2>2. CASE e # d
    BY <2>2, <1>4, <1>5 DEF ForeignClosed
  <2> QED
    BY <2>1, <2>2
<1> QED
  BY <1>7, <1>10, <1>11, <1>12, <1>13, <1>14

-----------------------------------------------------------------------------
(***************************************************************************)
(* What the main loop and the goroutines of a peer are about to send.      *)
(***************************************************************************)
Sends ==
  /\ sending \in [Node -> Block \cup {Genesis}]
  /\ outbox \in [End -> SUBSET Chatter]

LEMMA SendsAlways == Spec => []Sends
<1>1. Init => Sends
  BY DEF Init, ServerInit, Sends
<1>2. ASSUME Sends, [Next]_vars
      PROVE  Sends'
  <2>1. CASE UNCHANGED vars
    BY <1>2, <2>1 DEF Sends, vars, serverVars, nodeVars
  <2>2. ASSUME NEW n \in Node, Mine(n)
        PROVE  Sends'
    BY <1>2, <2>2 DEF Mine, Sends, serverVars
  <2>3. ASSUME NEW n \in Node, outbox' \in {outbox, WithStatus(n)}, UNCHANGED sending
        PROVE  Sends'
    BY <1>2, <2>3 DEF Sends, WithStatus
  <2>4. ASSUME NEW n \in Node, MainStep(n)
        PROVE  Sends'
    BY <2>3, <2>4 DEF MainStep, Sent, Return, SendBlock, serverVars
  <2>5. ASSUME NEW e \in End, OnNewBlock(e)
        PROVE  Sends'
    BY <1>2, <2>5 DEF OnNewBlock, WithStatus, Sends
  <2>6. ASSUME UNCHANGED sending, NEW e \in End,
               outbox' = outbox \/ \E x \in SUBSET Chatter : outbox' = [outbox EXCEPT ![e] = x]
        PROVE  Sends'
    BY <1>2, <2>6 DEF Sends
  <2>7. ASSUME NEW e \in End, Depart(e), UNCHANGED sending
        PROVE  Sends'
    <3>1. outbox' = [outbox EXCEPT ![e] = {}]
      BY <2>7 DEF Depart
    <3> QED
      BY <2>6, <2>7, <3>1
  <2>8. ASSUME NEW e \in End, EndStep(e), UNCHANGED sending
        PROVE  Sends'
    <3>1. CASE Refuse(e) \/ Leave(e)
      BY <2>7, <2>8, <3>1 DEF Refuse, Leave
    <3>2. CASE HandleConn(e)
      BY <2>6, <2>8, <3>2 DEF HandleConn
    <3>3. CASE DispatchHello(e)
      <4>1. outbox' = [outbox EXCEPT ![e] =
                         IF HangUp(e) THEN @ ELSE @ \cup (Chatter \cap {"status"})]
        BY <3>3 DEF DispatchHello
      <4>2. outbox[e] \in SUBSET Chatter
        BY <1>2 DEF Sends
      <4> QED
        BY <1>2, <2>8, <4>1, <4>2 DEF Sends
    <3>4. CASE SendHello(e) \/ DispatchInfo(e) \/ DispatchPing(e) \/ SendPong(e)
      BY <2>6, <2>8, <3>4 DEF SendHello, DispatchInfo, DispatchPing, SendPong
    <3> QED
      BY <2>8, <3>1, <3>2, <3>3, <3>4 DEF EndStep
  <2>9. ASSUME NEW e \in End, SendSpawned(e), UNCHANGED sending
        PROVE  Sends'
    BY <1>2, <2>9 DEF SendSpawned, Sends
  <2>10. ASSUME Serves(ServerStep)
         PROVE  Sends'
    <3>1. ServerStep /\ UNCHANGED sending
      BY <2>10 DEF Serves
    <3>2. CASE UNCHANGED outbox
      BY <1>2, <3>1, <3>2 DEF Sends
    <3>3. \/ UNCHANGED outbox
          \/ \E e \in End : EndStep(e) \/ SendSpawned(e)
      BY <3>1 DEF ServerStep, Dial, Drop, Cancel, Sweep
    <3> QED
      BY <2>8, <2>9, <3>1, <3>2, <3>3
  <2> QED
    BY <1>2, <2>1, <2>2, <2>4, <2>5, <2>10 DEF Next
<1> QED
  BY <1>1, <1>2, PTL DEF Spec

(***************************************************************************)
(* Peer.Send appends a frame to what the end has written, or nothing.      *)
(***************************************************************************)
LEMMA WriteAppends ==
  ASSUME Typed, NEW e \in End, NEW m \in Frame, Write(e, m)
  PROVE  /\ wire' \in [End -> Seq(Frame)]
         /\ \A d \in End : Len(wire'[d]) >= Len(wire[d])
<1>1. CASE Broken(e)
  <2>1. wire' = wire
    BY <1>1 DEF Write
  <2>2. \A d \in End : Len(wire[d]) \in Nat
    BY DEF Typed
  <2> QED
    BY <2>1, <2>2 DEF Typed
<1>2. CASE ~Broken(e)
  <2>1. wire' = [wire EXCEPT ![e] = Append(wire[e], m)]
    BY <1>2 DEF Write
  <2>2. /\ wire[e] \in Seq(Frame) /\ Append(wire[e], m) \in Seq(Frame)
        /\ Len(Append(wire[e], m)) = Len(wire[e]) + 1
    BY DEF Typed
  <2>3. \A d \in End : Len(wire[d]) \in Nat
    BY DEF Typed
  <2> QED
    BY <2>1, <2>2, <2>3 DEF Typed
<1> QED
  BY <1>1, <1>2

(***************************************************************************)
(* Reading takes the first frame off.                                      *)
(***************************************************************************)
LEMMA ReadsTyped ==
  ASSUME Typed, NEW e \in End, NEW m, Reads(e, m)
  PROVE  wire' \in [End -> Seq(Frame)] /\ pc[e] = "read"
<1>1. Other(e) \in End /\ wire[Other(e)] # <<>> /\ wire[Other(e)] \in Seq(Frame)
  BY Ends DEF Reads, Incoming, Typed
<1>2. Tail(wire[Other(e)]) \in Seq(Frame)
  BY <1>1
<1> QED
  BY <1>1, <1>2 DEF Reads, Typed

(***************************************************************************)
(* Every step of a server keeps the invariant.                             *)
(***************************************************************************)
LEMMA ServerPreserves ==
  ASSUME IInv, Sends, ServerStep
  PROVE  IInv'
<1> USE DEF IInv
<1>1. ASSUME NEW n \in Node, NEW b \in Node, Dial(n, b)
      PROVE  IInv'
  BY <1>1, DialPreserves
<1>2. ASSUME NEW c \in Conn, Drop(c)
      PROVE  IInv'
  <2>1. /\ up' \in [End -> BOOLEAN] /\ \A e \in End : up'[e] => up[e]
    BY <1>2 DEF Drop, Typed
  <2> QED
    BY <1>2, <2>1, QuietStep DEF Drop, Typed
<1>3. ASSUME NEW n \in Node, Sweep(n)
      PROVE  IInv'
  <2>1. /\ up' \in [End -> BOOLEAN] /\ \A e \in End : up'[e] => up[e]
    BY <1>3 DEF Sweep, Typed
  <2> QED
    BY <1>3, <2>1, QuietStep DEF Sweep, Typed
<1>4. ASSUME NEW n \in Node, Cancel(n)
      PROVE  IInv'
  BY <1>4, QuietStep DEF Cancel, Typed
<1>5. ASSUME NEW e \in End, SendSpawned(e)
      PROVE  IInv'
  <2>1. PICK m \in outbox[e] : Write(e, m)
    BY <1>5 DEF SendSpawned
  <2>2. m \in Frame
    BY <2>1, P2PAssumption DEF Sends, Frame, Message
  <2>3. wire' \in [End -> Seq(Frame)]
    BY <2>1, <2>2, WriteAppends
  <2> QED
    BY <1>5, <2>3, QuietStep DEF SendSpawned, Typed
<1>6. ASSUME NEW e \in End, UNCHANGED <<link, up, id, peers, network>>,
             wire' \in [End -> Seq(Frame)], pc[e] \in Working,
             \E x \in Working : pc' = [pc EXCEPT ![e] = x]
      PROVE  IInv'
  <2>1. /\ pc' \in [End -> PC]
        /\ \A d \in End : pc'[d] # pc[d] => pc[d] \in Working /\ pc'[d] \in Working
    BY <1>6 DEF Working, Typed, PC
  <2> QED
    BY <1>6, <2>1, QuietStep DEF Typed
<1>7. ASSUME NEW e \in End, EndStep(e)
      PROVE  IInv'
  <2>1. CASE Refuse(e)
    BY <2>1, DepartPreserves DEF Refuse
  <2>2. CASE Leave(e)
    BY <2>2, DepartPreserves DEF Leave
  <2>3. CASE HandleConn(e)
    BY <2>3, HandleConnPreserves
  <2>4. CASE DispatchHello(e)
    BY <2>4, DispatchHelloPreserves
  <2>5. CASE SendHello(e)
    <3>1. wire' \in [End -> Seq(Frame)]
      BY <2>5, WriteAppends DEF SendHello, Frame, Message
    <3> QED
      BY <1>6, <2>5, <3>1 DEF SendHello, Working
  <2>6. CASE SendPong(e)
    <3>1. wire' \in [End -> Seq(Frame)]
      BY <2>6, WriteAppends DEF SendPong, Frame, Message
    <3> QED
      BY <1>6, <2>6, <3>1 DEF SendPong, Resume, Working
  <2>7. CASE DispatchInfo(e)
    <3>1. wire' \in [End -> Seq(Frame)] /\ pc[e] = "read"
      BY <2>7, ReadsTyped DEF DispatchInfo
    <3> QED
      BY <1>6, <2>7, <3>1 DEF DispatchInfo, Resume, Working
  <2>8. CASE DispatchPing(e)
    <3>1. wire' \in [End -> Seq(Frame)] /\ pc[e] = "read"
      BY <2>8, ReadsTyped DEF DispatchPing
    <3> QED
      BY <1>6, <2>8, <3>1 DEF DispatchPing, Working
  <2> QED
    BY <1>7, <2>1, <2>2, <2>3, <2>4, <2>5, <2>6, <2>7, <2>8 DEF EndStep
<1> QED
  BY <1>1, <1>2, <1>3, <1>4, <1>5, <1>7 DEF ServerStep

(***************************************************************************)
(* Mining, broadcasting and receiving blocks touch the server only through *)
(* what is written and read.                                               *)
(***************************************************************************)
LEMMA NextPreserves ==
  ASSUME IInv, Sends, [Next]_vars
  PROVE  IInv'
<1> USE DEF IInv
<1>1. ASSUME UNCHANGED <<link, pc, up, id, peers, network>>,
             wire' \in [End -> Seq(Frame)]
      PROVE  IInv'
  BY <1>1, QuietStep DEF Typed
<1>2. CASE UNCHANGED wire /\ UNCHANGED <<link, pc, up, id, peers, network>>
  BY <1>1, <1>2 DEF Typed
<1>3. CASE Serves(ServerStep)
  BY <1>3, ServerPreserves DEF Serves
<1>4. ASSUME NEW e \in End, OnNewBlock(e)
      PROVE  IInv'
  <2>1. PICK b \in Block : DispatchBlock(e, b)
    BY <1>4 DEF OnNewBlock
  <2>2. wire' \in [End -> Seq(Frame)] /\ pc[e] = "read"
    BY <2>1, ReadsTyped DEF DispatchBlock
  <2>3. /\ pc' \in [End -> PC]
        /\ \A d \in End : pc'[d] # pc[d] => pc[d] \in Working /\ pc'[d] \in Working
    BY <2>1, <2>2 DEF DispatchBlock, Resume, Working, Typed, PC
  <2> QED
    BY <2>1, <2>2, <2>3, QuietStep DEF DispatchBlock, Typed
<1>5. ASSUME NEW n \in Node, Mine(n)
      PROVE  IInv'
  BY <1>2, <1>5 DEF Mine, serverVars
<1>6. ASSUME NEW n \in Node, MainStep(n)
      PROVE  IInv'
  <2>1. CASE Sent(n)
    BY <1>2, <2>1 DEF Sent
  <2>2. CASE Return(n)
    BY <1>2, <2>2 DEF Return, serverVars
  <2>3. ASSUME NEW e \in End, SendBlock(n, e)
        PROVE  IInv'
    <3>1. sending[n] \in Frame
      BY DEF Sends, Frame, Message
    <3>2. wire' \in [End -> Seq(Frame)]
      BY <2>3, <3>1, WriteAppends DEF SendBlock
    <3> QED
      BY <1>1, <2>3, <3>2 DEF SendBlock
  <2> QED
    BY <1>6, <2>1, <2>2, <2>3 DEF MainStep
<1>7. CASE UNCHANGED vars
  BY <1>2, <1>7 DEF vars, serverVars
<1> QED
  BY <1>3, <1>4, <1>5, <1>6, <1>7 DEF Next

-----------------------------------------------------------------------------
(***************************************************************************)
(* The inductive invariant holds in every state.                           *)
(***************************************************************************)
THEOREM Invariant == Spec => []IInv
<1>1. IInv /\ Sends /\ [Next]_vars => IInv'
  BY NextPreserves
<1> QED
  BY <1>1, InitIInv, SendsAlways, PTL DEF Spec

(***************************************************************************)
(* A connection that is being handled is in its node's peer set, for any   *)
(* number of nodes, connections, losses and restarts of connections        *)
(* (transport.go:124-153, peer.go:41-82).                                  *)
(***************************************************************************)
THEOREM Listing == Spec => []EveryConnectionListed
<1>1. IInv => EveryConnectionListed
  <2> SUFFICES ASSUME IInv, NEW e \in End, pc[e] \in {"greet", "read", "pong"}
               PROVE  e \in Listed(Owner(e))
    BY DEF EveryConnectionListed
  <2>1. <<AddrKey(e), e>> \in peers[Owner(e)]
    BY DEF IInv, ListedByAddress, Handled
  <2> QED
    BY <2>1 DEF Listed
<1> QED
  BY <1>1, Invariant, PTL

(***************************************************************************)
(* Only a read shortens what an end has written, or the end of its         *)
(* connection, which then is no more.                                      *)
(***************************************************************************)
LEMMA OnlyReadsShorten ==
  ASSUME IInv, Sends, [Next]_vars, NEW e \in End,
         link'[e[1]] # NoLink, Len(wire'[Other(e)]) < Len(wire[Other(e)])
  PROVE  up[e]
<1> USE DEF IInv
<1> DEFINE o == Other(e)
           Quiet == Len(wire'[o]) >= Len(wire[o])
<1>1. o \in End /\ Other(o) = e /\ Len(wire[o]) \in Nat
  BY Ends DEF Typed
<1>2. ASSUME UNCHANGED wire
      PROVE  Quiet
  BY <1>1, <1>2
<1>3. ASSUME NEW d \in End, NEW m \in Frame, Write(d, m)
      PROVE  Quiet
  BY <1>1, <1>3, WriteAppends
<1>4. ASSUME NEW d \in End, NEW m, Reads(d, m)
      PROVE  Quiet \/ up[e]
  <2>1. CASE d = e
    BY <1>4, <2>1 DEF Reads
  <2>2. CASE d # e
    <3>1. Other(d) # o
      BY <2>2, <1>1, Ends
    <3>2. wire'[o] = wire[o]
      BY <1>1, <1>4, <3>1 DEF Reads, Typed
    <3> QED
      BY <1>1, <3>2
  <2> QED
    BY <2>1, <2>2
<1>5. ASSUME NEW d \in End, Depart(d)
      PROVE  Quiet \/ link'[e[1]] = NoLink
  <2>1. CASE pc[Other(d)] # "none"
    BY <1>2, <1>5, <2>1 DEF Depart
  <2>2. CASE pc[Other(d)] = "none"
    <3>1. wire' = [wire EXCEPT ![d] = <<>>, ![Other(d)] = <<>>]
      BY <1>5, <2>2 DEF Depart
    <3>2. o \in {d, Other(d)} => link'[e[1]] = NoLink
      <4>1. link' = [link EXCEPT ![d[1]] = NoLink]
        BY <1>5, <2>2 DEF Depart
      <4>2. o \in {d, Other(d)} => e[1] = d[1]
        BY <1>1, Ends DEF Other
      <4> QED
        BY <4>1, <4>2, Ends DEF Typed
    <3>3. o \notin {d, Other(d)} => wire'[o] = wire[o]
      BY <1>1, <3>1 DEF Typed
    <3> QED
      BY <1>1, <3>2, <3>3
  <2> QED
    BY <2>1, <2>2
<1>6. ASSUME NEW d \in End, EndStep(d)
      PROVE  Quiet \/ up[e] \/ link'[e[1]] = NoLink
  <2>1. CASE Refuse(d) \/ Leave(d)
    BY <1>5, <2>1 DEF Refuse, Leave
  <2>2. CASE HandleConn(d)
    BY <1>2, <2>2 DEF HandleConn
  <2>3. CASE SendHello(d) \/ SendPong(d)
    BY <1>3, <2>3 DEF SendHello, SendPong, Frame, Message
  <2>4. CASE DispatchHello(d) \/ DispatchInfo(d) \/ DispatchPing(d)
    BY <1>4, <2>4 DEF DispatchHello, DispatchInfo, DispatchPing
  <2> QED
    BY <1>6, <2>1, <2>2, <2>3, <2>4 DEF EndStep
<1>7. CASE ServerStep
  <2>1. ASSUME NEW d \in End, SendSpawned(d)
        PROVE  Quiet
    <3>1. PICK m \in outbox[d] : Write(d, m)
      BY <2>1 DEF SendSpawned
    <3>2. m \in Frame
      BY <3>1, P2PAssumption DEF Sends, Frame, Message
    <3> QED
      BY <1>3, <3>1, <3>2
  <2>2. \/ UNCHANGED wire
        \/ \E d \in End : EndStep(d) \/ SendSpawned(d)
    BY <1>7 DEF ServerStep, Dial, Drop, Cancel, Sweep
  <2> QED
    BY <1>1, <1>2, <1>6, <2>1, <2>2
<1>8. ASSUME NEW d \in End, OnNewBlock(d)
      PROVE  Quiet \/ up[e]
  BY <1>4, <1>8 DEF OnNewBlock, DispatchBlock
<1>9. ASSUME NEW n \in Node, NEW d \in End, SendBlock(n, d)
      PROVE  Quiet
  BY <1>3, <1>9 DEF SendBlock, Sends, Frame, Message
<1>10. \/ UNCHANGED wire
       \/ ServerStep
       \/ \E d \in End : OnNewBlock(d)
       \/ \E n \in Node, d \in End : SendBlock(n, d)
  BY DEF Next, Serves, Mine, MainStep, Sent, Return, vars, serverVars
<1> QED
  BY <1>1, <1>2, <1>7, <1>8, <1>9, <1>10

(***************************************************************************)
(* Once a hello has named another network, nothing more of that connection *)
(* reaches a handler (node.go:183-191).                                    *)
(***************************************************************************)
THEOREM ForeignIsUnheard == Spec => ForeignUnheard
<1>1. ASSUME IInv, Sends, [Next]_vars,
             NEW e \in End, id[e] # NoNode, network[id[e]] # network[Owner(e)],
             link'[e[1]] # NoLink
      PROVE  Len(wire'[Other(e)]) >= Len(wire[Other(e)])
  <2>1. ~up[e]
    BY <1>1 DEF IInv, ForeignClosed, HangUp
  <2>2. ~(Len(wire'[Other(e)]) < Len(wire[Other(e)]))
    BY <1>1, <2>1, OnlyReadsShorten
  <2>3. Len(wire'[Other(e)]) \in Nat /\ Len(wire[Other(e)]) \in Nat
    <3>1. IInv'
      BY <1>1, NextPreserves
    <3> QED
      BY <1>1, <3>1, Ends DEF IInv, Typed
  <2> QED
    BY <2>2, <2>3
<1>2. IInv /\ Sends /\ [Next]_vars =>
        [\A e \in End :
           (id[e] # NoNode /\ network[id[e]] # network[Owner(e)] /\ link'[e[1]] # NoLink)
             => Len(wire'[Other(e)]) >= Len(wire[Other(e)])]_vars
  BY <1>1
<1> QED
  BY <1>2, Invariant, SendsAlways, PTL DEF Spec, ForeignUnheard
=============================================================================
