------------------------------ MODULE Solution ------------------------------
(***************************************************************************)
(* The proof of work that a block carries (colossusx_solution.go): the     *)
(* cells that the hash read, some more to audit, and their Merkle proofs,  *)
(* built over one pass of the DAG (module Merkle), made compact, and       *)
(* checked by the validator after the block has come from a file or a      *)
(* peer, where one field of it may have changed.  The verify command       *)
(* checks the same block, without a DAG (cmd/colossusx/main.go).           *)
(*                                                                         *)
(* The mix of the hash rounds is the sequence of what was mixed in.  Bytes *)
(* are given by what they hash to: a node of the DAG by its leaf, the 64   *)
(* bytes of two hashes by their pair.  One function hashes both            *)
(* (blake3.Sum256), so the one can be where the other is meant.            *)
(***************************************************************************)
EXTENDS Merkle

CONSTANTS
  Header, NonceSet,     \* headers as they are encoded for mining, and nonces
  InGrace,              \* headers that name the previous epoch's DAG, in its grace window
  ReadsPerHash, ColossusXAuditCellCount,
  Pick(_, _),           \* fnv1a32 of a round and the mix
  AuditPick(_, _),      \* SHA3 of the solution's hash and a counter
  Solves(_)             \* the result is not above the target

ASSUME SolutionAssumption ==
  /\ ReadsPerHash \in Nat /\ ColossusXAuditCellCount \in Nat
  /\ NonceSet \subseteq Nat /\ InGrace \subseteq Header

VARIABLES
  header, nonce, block,
  verdict,      \* of the validator
  verified      \* by the verify command

vars == <<merkleVars, header, nonce, block, verdict, verified>>

Initial(h, n) == <<h, n>>

RoundMix(mix, data) == Append(mix, data)

\* ColossusXTraceHash: each round reads the cell that the last mix names.
Mixes(h, n) ==
  LET mix[r \in 0..ReadsPerHash] ==
        IF r = 0 THEN Initial(h, n)
        ELSE RoundMix(mix[r - 1], Leaf(CellContent(Pick(r - 1, mix[r - 1]) % nodeCount)))
  IN  mix

Accessed(h, n) ==
  [r \in 1..ReadsPerHash |-> Pick(r - 1, Mixes(h, n)[r - 1]) % nodeCount]

MixDigest(h, n) == Mixes(h, n)[ReadsPerHash]

ColossusXAuditIndices(mix) ==
  [i \in 1..ColossusXAuditCellCount |-> AuditPick(mix, i - 1) % nodeCount]

SeqRange(s) == {s[i] : i \in 1..Len(s)}

\* What BuildColossusXSolutionStreaming asks the multiproof for.
Needed(h, n) ==
  SeqRange(Accessed(h, n)) \cup SeqRange(ColossusXAuditIndices(MixDigest(h, n)))

NoBlock == [form |-> "none"]

Init ==
  /\ header \in Header /\ nonce \in NonceSet
  /\ \E n \in 1..MaxCells, asked \in 1..MaxWorkers : GenerationInit(n, asked)
  /\ MerkleInit(Needed(header, nonce))
  /\ Solves(MixDigest(header, nonce))
  /\ block = NoBlock /\ verdict = "none" /\ verified = "none"

-----------------------------------------------------------------------------
Cell(i) ==
  [index |-> i, data |-> Leaf(dag[i]), proof |-> [l \in 1..Depth |-> proofs[i][l - 1]]]

BuildColossusXSolutionStreaming ==
  LET accessed == Accessed(header, nonce)
      audited == ColossusXAuditIndices(MixDigest(header, nonce))
  IN  [nonce |-> nonce, mix |-> MixDigest(header, nonce),
       mining |-> [r \in 1..Len(accessed) |-> Cell(accessed[r])],
       audit |-> [i \in 1..Len(audited) |-> Cell(audited[i])]]

\* Siblings in the order of their first use.
Pooled(pool, sib) == IF sib \in SeqRange(pool) THEN pool ELSE Append(pool, sib)

Pools(sibs) ==
  LET pool[k \in 0..Len(sibs)] == IF k = 0 THEN <<>> ELSE Pooled(pool[k - 1], sibs[k])
  IN  pool

Pool(sibs) == Pools(sibs)[Len(sibs)]

\* Mutant: references count from one.
PlaceFromOne(pool, sib) == CHOOSE i \in 1..Len(pool) : pool[i] = sib

Place(pool, sib) == (CHOOSE i \in 1..Len(pool) : pool[i] = sib) - 1

\* The siblings of all the proofs, cell after cell.
Siblings(s) ==
  LET cells == s.mining \o s.audit IN
    [k \in 1..(Len(cells) * Depth) |->
       cells[((k - 1) \div Depth) + 1].proof[((k - 1) % Depth) + 1]]

CompactColossusXSolution(s) ==
  LET pool == Pool(Siblings(s))
      encodeCell(c) == [index |-> c.index, data |-> c.data,
                        refs |-> [l \in 1..Len(c.proof) |-> Place(pool, c.proof[l])]]
  IN  [nonce |-> s.nonce, mix |-> s.mix, siblings |-> pool,
       mining |-> [r \in 1..Len(s.mining) |-> encodeCell(s.mining[r])],
       audit |-> [i \in 1..Len(s.audit) |-> encodeCell(s.audit[i])]]

RefsResolve(c) ==
  \A cell \in SeqRange(c.mining) \cup SeqRange(c.audit) :
    \A l \in 1..Len(cell.refs) : cell.refs[l] < Len(c.siblings)

ExpandCompactColossusXSolution(c) ==
  LET decodeCell(cell) ==
        [index |-> cell.index, data |-> cell.data,
         proof |-> [l \in 1..Len(cell.refs) |-> c.siblings[cell.refs[l] + 1]]]
  IN  [nonce |-> c.nonce, mix |-> c.mix,
       mining |-> [r \in 1..Len(c.mining) |-> decodeCell(c.mining[r])],
       audit |-> [i \in 1..Len(c.audit) |-> decodeCell(c.audit[i])]]

\* SealBlock, after Mine has found the nonce, which it also writes into the
\* header: the root is the cached one, and the one that comes with the proofs
\* must be equal.  The node's template has no transactions.
SealBlock ==
  /\ stage = "built" /\ block = NoBlock
  /\ pending[Depth] = acc
  /\ block' = [header |-> header, nonce |-> nonce, root |-> acc, transactions |-> "none",
               form |-> "compact",
               body |-> CompactColossusXSolution(BuildColossusXSolutionStreaming)]
  /\ UNCHANGED <<merkleVars, header, nonce, verdict, verified>>

-----------------------------------------------------------------------------
\* The references of a cell with one changed, one more or one less.
ChangedRefs(refs, pool) ==
  {[refs EXCEPT ![l] = r] : l \in 1..Len(refs), r \in 0..Len(pool)}
    \cup {Append(refs, r) : r \in 0..Len(pool)}
    \cup (IF refs = <<>> THEN {} ELSE {Tail(refs)})

\* Data, index or references of a cell; or, instead of it, an inner node of the
\* tree with the rest of the references.
ChangedCell(c, pool) ==
  {[c EXCEPT !.data = d] : d \in {Leaf(nodeCount), hashPair(Leaf(nodeCount), Leaf(nodeCount))}}
    \cup {[c EXCEPT !.index = @ + 1]}
    \cup {[c EXCEPT !.refs = refs] : refs \in ChangedRefs(c.refs, pool)}
    \cup UNION {{[index |-> c.index, data |-> TreeNode(l, k),
                  refs |-> SubSeq(c.refs, l + 1, Len(c.refs))] :
                   k \in 0..(Size(l) - 1)} : l \in 1..top}

\* One of the cells, or one cell less.
ChangedCells(cells, pool) ==
  {SubSeq(cells, 1, Len(cells) - 1)}
    \cup UNION {{[cells EXCEPT ![i] = d] : d \in ChangedCell(cells[i], pool)} : i \in 1..Len(cells)}

\* Every form in which one field of a compact solution may arrive changed.
ChangedBody(c) ==
  {[c EXCEPT !.nonce = @ + 1], [c EXCEPT !.mix = Append(@, Leaf(nodeCount))]}
    \cup {[c EXCEPT !.mining = m] : m \in ChangedCells(c.mining, c.siblings)}
    \cup {[c EXCEPT !.audit = a] : a \in ChangedCells(c.audit, c.siblings)}
    \cup {[c EXCEPT !.siblings[i] = Leaf(nodeCount)] : i \in 1..Len(c.siblings)}

Sent(form) == [block EXCEPT !.form = form]

\* The block arrives, in the one form or the other, or without its solution, or
\* with another field changed.
Arrives ==
  /\ block.form = "compact"
  /\ \/ \E b \in ChangedBody(block.body) \cup {block.body} :
          block' = [Sent("arrived") EXCEPT !.body = b]
     \/ block' = [Sent("full") EXCEPT !.body = BuildColossusXSolutionStreaming]
     \/ block' = [Sent("none") EXCEPT !.body = Nothing]
     \/ \E root \in {Leaf(nodeCount), Nothing} :
          block' = [Sent("arrived") EXCEPT !.root = root]
     \/ \E h \in Header : block' = [Sent("arrived") EXCEPT !.header = h]
     \/ block' = [Sent("arrived") EXCEPT !.nonce = @ + 1]
     \/ block' = [Sent("arrived") EXCEPT !.transactions = "some"]
  /\ UNCHANGED <<merkleVars, header, nonce, verdict, verified>>

ExpectedIndex(s, mix, r) == s.mining[r].index = Pick(r - 1, mix) % nodeCount

\* Mutant: the audited cells need not be those that the hash names.
SameNumber(s, mix) == Len(s.audit) = ColossusXAuditCellCount

AuditIndices(s, mix) ==
  /\ Len(s.audit) = ColossusXAuditCellCount
  /\ \A i \in 1..Len(s.audit) : s.audit[i].index = ColossusXAuditIndices(mix)[i]

MixesGiven(h, s) ==
  LET mix[r \in 0..ReadsPerHash] ==
        IF r = 0 THEN Initial(h, s.nonce) ELSE RoundMix(mix[r - 1], s.mining[r].data)
  IN  mix

\* len(c.Data) is spec.NodeSize: the bytes of a node.
OfNodeSize(data) == Len(data) = 1

\* The sizes of the audited cells are not looked at.
VerifyColossusXSolution(h, root, s) ==
  LET mixes == MixesGiven(h, s)
      mix == mixes[ReadsPerHash]
      proved(c) == VerifyMerkleProof(root, c.data, c.index, c.proof)
  IN  /\ Len(s.mining) = ReadsPerHash
      /\ \A r \in 1..ReadsPerHash :
           /\ ExpectedIndex(s, mixes[r - 1], r)
           /\ OfNodeSize(s.mining[r].data)
           /\ proved(s.mining[r])
      /\ mix = s.mix
      /\ Solves(mix)
      /\ AuditIndices(s, mix)
      /\ \A i \in 1..Len(s.audit) : proved(s.audit[i])

\* The solution in whichever form it is there.
Received == IF block.form = "full" THEN block.body
            ELSE ExpandCompactColossusXSolution(block.body)

\* The choice of the form that the block has, in validatePoW and in verify.
SolutionGiven ==
  block.form = "full" \/ (block.form = "arrived" /\ RefsResolve(block.body))

\* validatePoW, with the root that the validator has of its own DAG.
Accepts ==
  /\ SolutionGiven
  /\ acc = block.root
  /\ VerifyColossusXSolution(block.header, acc, Received)

HasArrived == block # NoBlock /\ block.form # "compact"

Validate ==
  /\ HasArrived /\ verdict = "none"
  /\ verdict' = IF Accepts THEN "accepted" ELSE "rejected"
  /\ UNCHANGED <<merkleVars, header, nonce, block, verified>>

\* The verify command has no DAG: it takes the root from the header.
Verifies ==
  /\ SolutionGiven
  /\ block.root # Nothing
  /\ VerifyColossusXSolution(block.header, block.root, Received)

\* The verify command is given the block, or only its header.  First of all it
\* wants the DAG of the height's own epoch, without a grace window.
RunVerify ==
  /\ HasArrived /\ verified = "none"
  /\ \/ block.header \in InGrace /\ verified' = "other_dag"
     \/ block.header \notin InGrace /\ verified' = "no_block"
     \/ /\ block.header \notin InGrace
        /\ verified' = IF Verifies THEN "valid" ELSE "invalid"
  /\ UNCHANGED <<merkleVars, header, nonce, block, verdict>>

Next ==
  \/ /\ GenerationNext
     /\ UNCHANGED <<levels, top, levelCounts, targets, wanted, stage, read, emitVars>>
     /\ UNCHANGED <<level, foldVars, header, nonce, block, verdict, verified>>
  \/ MerkleNext /\ UNCHANGED <<header, nonce, block, verdict, verified>>
  \/ SealBlock \/ Arrives \/ Validate \/ RunVerify

Spec == Init /\ [][Next]_vars

-----------------------------------------------------------------------------
(***************************************************************************)
(* A sealed block passes its own node's and every other node's validation, *)
(* and the solution's check of the verify command, in either form: miner   *)
(* and validator come to one root, and neither the one-pass proofs nor the *)
(* compact form lose anything (validator.go:307-317, 349-377,              *)
(* main.go:394-415).                                                       *)
(***************************************************************************)
AsSealed ==
  /\ HasArrived
  /\ block.header = header /\ block.root = acc
  /\ LET sealed == BuildColossusXSolutionStreaming IN
     \/ block.form = "full" /\ block.body = sealed
     \/ block.form = "arrived" /\ block.body = CompactColossusXSolution(sealed)

SealedIsAccepted == AsSealed => verdict # "rejected" /\ verified # "invalid"

(***************************************************************************)
(* What a solution's check binds.  When it has passed, against the DAG's   *)
(* root, header, root, nonce of the solution, mix and all the cells read   *)
(* are those that were sealed, and so is each audited cell that has the    *)
(* size of a node: every other change that Arrives makes is noticed.       *)
(* Neither the nonce in the header nor the transactions are compared with  *)
(* anything, and of an audited cell of another size only the index is      *)
(* (colossusx_solution.go:148-196, validator.go:349-391, types.go:87-101). *)
(***************************************************************************)
Checked == verdict = "accepted" \/ (verified = "valid" /\ block.root = acc)

AcceptedIsSealed ==
  Checked =>
    LET sealed == BuildColossusXSolutionStreaming IN
    /\ block.header = header /\ block.root = acc
    /\ Received.nonce = sealed.nonce /\ Received.mix = sealed.mix
    /\ Received.mining = sealed.mining
    /\ Len(Received.audit) = Len(sealed.audit)
    /\ \A i \in 1..Len(sealed.audit) :
         /\ Received.audit[i].index = sealed.audit[i].index
         /\ OfNodeSize(Received.audit[i].data) => Received.audit[i] = sealed.audit[i]
=============================================================================
