----------------------------- MODULE MerkleTree -----------------------------
(***************************************************************************)
(* merkletree: the sparse binary Merkle tree that holds the claims, the    *)
(* revocations and the roots of an identity, over its key-value storage.   *)
(*                                                                         *)
(* The Poseidon hash is taken to be free of collisions, so the key of a    *)
(* node is modelled by the node itself, with the keys of its children in   *)
(* it, and what is stored by the set of keys that have a node.  The path   *)
(* to an entry is given by the bits of its hash-index, a number here.      *)
(*                                                                         *)
(* AddEntry runs under the tree's lock.  A reader takes the root under the *)
(* lock and then reads nodes without it; what it finds is what the version *)
(* with that root holds, if no node of a version ever changes or vanishes: *)
(* VersionsReadable.                                                       *)
(***************************************************************************)
EXTENDS Integers, Sequences, FiniteSets

CONSTANTS
    HIndexes,    \* hash-indexes
    HValues,     \* hashes of the values
    MaxLevels,   \* maxLevels
    MaxFaults    \* bound on the storage operations that fail

(* The bitmap of a proof has 240 bits, one for each level: GenerateProof   *)
(* of a deeper tree would set a bit that is not there, and panic.          *)
MaxBits == 8 * (32 - 2)

ASSUME MerkleTreeAssumption ==
    /\ HIndexes \subseteq Nat
    /\ MaxLevels \in 1 .. MaxBits
    /\ MaxFaults \in Nat

VARIABLES
    nodes,        \* the keys that have a node in the storage
    currentroot,  \* what the storage has under rootNodeValue
    open,         \* there is a MerkleTree object
    rootKey,      \* its root
    versions,     \* every root there was, with the entries it was made for
    dumped,       \* the claims that ImportDumpedClaims has still to add
    faults

vars == <<nodes, currentroot, open, rootKey, versions, dumped, faults>>

-----------------------------------------------------------------------------
(* The levels of the tree, and the one that is too deep.                   *)
Levels == 0 .. MaxLevels

(* The key of the empty node, LeafKey and the Key of a middle node.        *)
HashZero == [type |-> "empty"]
Leaf(hi, hv) == [type |-> "leaf", hi |-> hi, hv |-> hv]
Middle(l, r) == [type |-> "middle", l |-> l, r |-> r]

Leaves == {Leaf(hi, hv) : hi \in HIndexes, hv \in HValues}

(* No value under rootNodeValue; no NodeAux; no proof; no leaf.            *)
None == [type |-> "none"]

(* getPath(_, hi)[lvl]: at this level the path goes to the right.          *)
Right(hi, lvl) == (hi \div (2 ^ lvl)) % 2 = 1

(* The middle node with k on the path of hi and other beside it.           *)
Beside_Left(hi, lvl, k, other) == Middle(k, other)
Beside(hi, lvl, k, other) == IF Right(hi, lvl) THEN Middle(other, k) ELSE Middle(k, other)

OnPath(n, hi, lvl) == IF Right(hi, lvl) THEN n.r ELSE n.l
OffPath(n, hi, lvl) == IF Right(hi, lvl) THEN n.l ELSE n.r

(* GetNode: the type of the node under the key k.                          *)
TypeOf(k) == IF k = HashZero THEN "empty" ELSE IF k \in nodes THEN k.type ELSE "notfound"

(* The keys that a walk from a node of the storage can meet.               *)
Keys == {HashZero} \cup nodes
        \cup UNION {{n.l, n.r} : n \in {m \in nodes : m.type = "middle"}}

(* The keys on the way down along the path of hi, one for each level: the  *)
(* loops of GetDataByIndex and GenerateProof, and the calls of addLeaf,    *)
(* end at the first that is not the key of a middle node.                  *)
Path(root, hi) ==
    LET at[lvl \in Levels] ==
          IF lvl = 0 THEN root
          ELSE LET k == at[lvl - 1] IN
               IF TypeOf(k) = "middle" THEN OnPath(k, hi, lvl - 1) ELSE k
    IN at

-----------------------------------------------------------------------------
(* An insertion: its error, or the key it leads to and the nodes that it   *)
(* has put into the storage transaction.                                   *)
Failed(err) == [err |-> err, key |-> HashZero, put |-> {}]

addNode_NoLeaf(k, put) ==
    [err |-> "ok", key |-> k, put |-> IF k.type = "leaf" THEN put ELSE put \cup {k}]
addNode(k, put) == IF k \in nodes \cup put THEN Failed("nodeexists")
                   ELSE [err |-> "ok", key |-> k, put |-> put \cup {k}]

Then(next, k) == IF next.err # "ok" THEN next ELSE addNode(k, next.put)

(* The level at which pushLeaf gives up.                                   *)
TooDeep_Early(lvl) == lvl > MaxLevels - 3
TooDeep(lvl) == lvl > MaxLevels - 2

pushLeaf(new, old) ==
    LET push[lvl \in Levels] ==
          IF TooDeep(lvl) THEN Failed("maxlevel")
          ELSE IF Right(new.hi, lvl) = Right(old.hi, lvl)
               THEN LET next == push[lvl + 1] IN
                    Then(next, Beside(new.hi, lvl, next.key, HashZero))
               ELSE Then(addNode(new, {}), Beside(new.hi, lvl, new, old))
    IN push

addLeaf(new, root) ==
    LET add[lvl \in Levels] ==
          LET k == Path(root, new.hi)[lvl] IN
          IF lvl > MaxLevels - 1 THEN Failed("maxlevel")
          ELSE IF TypeOf(k) = "middle"
               THEN LET next == add[lvl + 1] IN
                    Then(next, Beside(new.hi, lvl, next.key, OffPath(k, new.hi, lvl)))
          ELSE CASE TypeOf(k) = "notfound" -> Failed("notfound")
                 [] TypeOf(k) = "empty" -> addNode(new, {})
                 [] TypeOf(k) = "leaf" -> IF k.hi = new.hi THEN Failed("exists")
                                          ELSE pushLeaf(new, k)[lvl]
    IN add

(* GetDataByIndex: the leaf, or why there is none.  A middle node at the   *)
(* last level ends the loop without one.                                   *)
NoLeaf(err) == [err |-> err, leaf |-> None]

GetDataByIndex(root, hi) ==
    LET k == Path(root, hi)[MaxLevels - 1] IN
    CASE TypeOf(k) = "notfound" -> NoLeaf("notfound")
      [] TypeOf(k) \in {"empty", "middle"} -> NoLeaf("indexnotfound")
      [] TypeOf(k) = "leaf" -> IF k.hi = hi THEN [err |-> "ok", leaf |-> k]
                               ELSE NoLeaf("indexnotfound")

(* The nodes that walk meets, the ones that are missing included.          *)
walk(root) ==
    LET below[lvl \in Levels] ==
          [k \in Keys |->
             IF TypeOf(k) = "middle" /\ lvl < MaxLevels
             THEN {k} \cup below[lvl + 1][k.l] \cup below[lvl + 1][k.r]
             ELSE {k} \ {HashZero}]
    IN below[0][root]

(* DumpClaims: the leaves in the order that walk meets them.               *)
DumpClaims(root) ==
    LET below[lvl \in Levels] ==
          [k \in Keys |->
             IF TypeOf(k) = "middle" /\ lvl < MaxLevels
             THEN below[lvl + 1][k.l] \o below[lvl + 1][k.r]
             ELSE IF TypeOf(k) = "leaf" THEN <<k>> ELSE <<>>]
    IN below[0][root]

-----------------------------------------------------------------------------
(* A proof: depth, the levels whose sibling is not empty, and those        *)
(* siblings from the root downwards.                                       *)
EmptyProof == [Existence |-> FALSE, depth |-> 0, notempties |-> {}, Siblings |-> <<>>,
               NodeAux |-> None]

Down(p, sibling) ==
    IF sibling = HashZero THEN [p EXCEPT !.depth = p.depth + 1]
    ELSE [p EXCEPT !.depth = p.depth + 1,
                   !.notempties = p.notempties \cup {p.depth},
                   !.Siblings = Append(p.Siblings, sibling)]

(* The proof as it is when the loop is at a level, or has ended above it.  *)
Collected(hi, root) ==
    LET at == Path(root, hi)
        proof[lvl \in Levels] ==
          IF lvl = 0 THEN EmptyProof
          ELSE IF TypeOf(at[lvl - 1]) = "middle"
               THEN Down(proof[lvl - 1], OffPath(at[lvl - 1], hi, lvl - 1))
               ELSE proof[lvl - 1]
    IN proof

GenerateProof(hi, root) ==
    LET k == Path(root, hi)[MaxLevels - 1]
        p == Collected(hi, root)[MaxLevels - 1] IN
    CASE TypeOf(k) \in {"notfound", "middle"} -> None
      [] TypeOf(k) = "empty" -> p
      [] TypeOf(k) = "leaf" -> IF k.hi = hi THEN [p EXCEPT !.Existence = TRUE]
                               ELSE [p EXCEPT !.NodeAux = k]

(* The sibling at a level: the siblings are taken in turn, one for each    *)
(* level of notempties.                                                    *)
SiblingAt_NoGaps(p, lvl) == IF lvl < Len(p.Siblings) THEN p.Siblings[lvl + 1] ELSE HashZero
SiblingAt(p, lvl) ==
    IF lvl \in p.notempties
    THEN p.Siblings[Cardinality({m \in p.notempties : m <= lvl})] ELSE HashZero

(* Where RootFromProof starts from; None is its error.                     *)
ProofLeaf_NoAuxCheck(p, hi, hv) ==
    IF p.Existence THEN Leaf(hi, hv) ELSE IF p.NodeAux = None THEN HashZero ELSE p.NodeAux
ProofLeaf(p, hi, hv) ==
    IF p.Existence THEN Leaf(hi, hv)
    ELSE IF p.NodeAux = None THEN HashZero
    ELSE IF p.NodeAux.hi = hi THEN None ELSE p.NodeAux

(* The keys from the leaf upwards, one for each level.                     *)
Up(p, hi, leaf) ==
    LET key[lvl \in 0 .. p.depth] ==
          IF lvl = p.depth THEN leaf ELSE Beside(hi, lvl, key[lvl + 1], SiblingAt(p, lvl))
    IN key

RootFromProof(p, hi, hv) ==
    LET leaf == ProofLeaf(p, hi, hv) IN IF leaf = None THEN None ELSE Up(p, hi, leaf)[0]

VerifyProof(root, p, hi, hv) == RootFromProof(p, hi, hv) = root

(* The binary form of a proof: the two flags, the depth, which is a byte,  *)
(* the bitmap, and then words of 32 bytes, which are hashes and nothing    *)
(* that says which.                                                        *)
Bytes(p) ==
    [notExistence |-> ~p.Existence, nodeAux |-> p.NodeAux # None,
     depth |-> p.depth % 256, notempties |-> p.notempties,
     words |-> p.Siblings \o (IF p.NodeAux = None THEN <<>>
                              ELSE <<p.NodeAux.hi, p.NodeAux.hv>>)]

(* NewProofFromBytes; None is ErrInvalidProofBytes.                        *)
SiblingCount_Depth(bs) == bs.depth
SiblingCount(bs) == Cardinality({lvl \in bs.notempties : lvl < bs.depth})

NewProofFromBytes(bs) ==
    LET n == SiblingCount(bs)
        hasAux == bs.notExistence /\ bs.nodeAux IN
    IF Len(bs.words) < n \/ (hasAux /\ Len(bs.words) - n # 2) THEN None
    ELSE [Existence |-> ~bs.notExistence, depth |-> bs.depth, notempties |-> bs.notempties,
          Siblings |-> SubSeq(bs.words, 1, n),
          NodeAux |-> IF hasAux THEN Leaf(bs.words[n + 1], bs.words[n + 2]) ELSE None]

-----------------------------------------------------------------------------
(* dbInsert puts the node type in front of the root; dbGet takes the first *)
(* byte off, which turns a root without the type into some other value.    *)
Typed(k) == [type |-> "typed", root |-> k]
Untyped(k) == [type |-> "untyped", root |-> k]
dbGetRoot(v) == IF v.type = "typed" \/ v.root = HashZero THEN v.root
                ELSE [type |-> "shifted", of |-> v.root]

Fault == faults < MaxFaults /\ faults' = faults + 1

Roots == {v.root : v \in versions}
EntriesOf(root) == (CHOOSE v \in versions : v.root = root).entries

Init ==
    /\ nodes = {}
    /\ currentroot = None
    /\ open = FALSE
    /\ rootKey = HashZero
    /\ versions = {[root |-> HashZero, entries |-> {}]}
    /\ dumped = <<>>
    /\ faults = 0

(* NewMerkleTree: without a root, or when the root cannot be read, the     *)
(* tree starts as an empty one.                                            *)
NewMerkleTree ==
    /\ ~open
    /\ open' = TRUE
    /\ \/ /\ currentroot # None
          /\ rootKey' = dbGetRoot(currentroot)
          /\ UNCHANGED <<currentroot, faults>>
       \/ /\ IF currentroot = None THEN UNCHANGED faults ELSE Fault
          /\ rootKey' = HashZero
          /\ currentroot' = Typed(HashZero)
    /\ UNCHANGED <<nodes, versions, dumped>>

(* AddEntry.  One that fails before its commit leaves everything as it was.*)
AddEntry(new, failing) ==
    LET add == addLeaf(new, rootKey)[0] IN
    /\ open
    /\ add.err = "ok"
    /\ rootKey' = add.key
    /\ \/ /\ ~failing
          /\ nodes' = nodes \cup add.put
          /\ currentroot' = Typed(add.key)
          /\ versions' = versions \cup {[root |-> add.key,
                                         entries |-> EntriesOf(rootKey) \cup {new}]}
          /\ UNCHANGED faults
       \/ /\ failing                       \* the commit fails
          /\ Fault
          /\ UNCHANGED <<nodes, currentroot, versions>>
    /\ UNCHANGED open

(* DumpTree of a version, and ImportTree into a new tree over an empty     *)
(* storage: the tree that is followed from then on.  The dump ends with    *)
(* the bare root, and every pair of it is put as it is.                    *)
DumpAndImport(root) ==
    /\ open
    /\ walk(root) \subseteq nodes
    /\ nodes' = walk(root)
    /\ currentroot' = Untyped(root)
    /\ rootKey' = root
    /\ versions' = {v \in versions : v.root \in {HashZero, root}}
    /\ dumped' = <<>>
    /\ UNCHANGED <<open, faults>>

(* The same with DumpClaims and ImportDumpedClaims, which adds the claims  *)
(* one by one: each is a transaction of its own, others may add entries in *)
(* between, and the first that fails is the last.                          *)
DumpAndImportClaims(root) ==
    /\ open
    /\ dumped = <<>>
    /\ walk(root) \subseteq nodes
    /\ dumped' = DumpClaims(root)
    /\ nodes' = {}
    /\ currentroot' = Typed(HashZero)
    /\ rootKey' = HashZero
    /\ versions' = {[root |-> HashZero, entries |-> {}]}
    /\ UNCHANGED <<open, faults>>

ImportDumpedClaims ==
    /\ dumped # <<>>
    /\ \/ AddEntry(Head(dumped), FALSE) /\ dumped' = Tail(dumped)
       \/ AddEntry(Head(dumped), TRUE) /\ dumped' = <<>>
       \/ /\ addLeaf(Head(dumped), rootKey)[0].err # "ok"
          /\ dumped' = <<>>
          /\ UNCHANGED <<nodes, currentroot, open, rootKey, versions, faults>>

(* The process ends.                                                       *)
Close ==
    /\ open
    /\ open' = FALSE
    /\ rootKey' = HashZero
    /\ dumped' = <<>>
    /\ UNCHANGED <<nodes, currentroot, versions, faults>>

Next ==
    \/ NewMerkleTree
    \/ \E hi \in HIndexes, hv \in HValues, failing \in BOOLEAN :
          AddEntry(Leaf(hi, hv), failing) /\ UNCHANGED dumped
    \/ \E root \in Roots : DumpAndImport(root)
    \/ \E root \in Roots : DumpAndImportClaims(root)
    \/ ImportDumpedClaims
    \/ Close

Spec == Init /\ [][Next]_vars

-----------------------------------------------------------------------------
(* What a tree of the leaves s is, whatever the order they came in.        *)
Tree[lvl \in Levels] ==
    [s \in SUBSET Leaves |->
       IF s = {} THEN HashZero
       ELSE IF \E e \in s : s = {e} THEN CHOOSE e \in s : TRUE
       ELSE IF lvl = MaxLevels THEN None
       ELSE Middle(Tree[lvl + 1][{e \in s : ~Right(e.hi, lvl)}],
                   Tree[lvl + 1][{e \in s : Right(e.hi, lvl)}])]

(* The root commits to the set of the entries alone: addLeaf and pushLeaf  *)
(* build the same tree in whatever order, with whatever failures and       *)
(* restarts in between.  (An identity state stands for three sets.)        *)
RootCommitsToSet == \A v \in versions : v.root = Tree[0][v.entries]

(* GetDataByIndex finds under every root there ever was exactly what was   *)
(* added up to it: no later AddEntry, failed commit or import takes a node *)
(* away from a Snapshot or from a reader that holds an old root.           *)
VersionsReadable ==
    \A v \in versions, hi \in HIndexes :
        LET found == {e \in v.entries : e.hi = hi} IN
        IF found = {} THEN GetDataByIndex(v.root, hi).err = "indexnotfound"
        ELSE GetDataByIndex(v.root, hi).leaf \in found

(* GenerateProof makes a proof for every index under every root, of the    *)
(* right kind, and VerifyProof accepts it for the value in the tree only.  *)
ProofsVerify ==
    \A v \in versions, hi \in HIndexes :
        LET p == GenerateProof(hi, v.root)
            found == {e \in v.entries : e.hi = hi} IN
        /\ p # None
        /\ p.Existence <=> found # {}
        /\ \A hv \in HValues :
              VerifyProof(v.root, p, hi, hv) <=> (found = {} \/ Leaf(hi, hv) \in found)

(* No proof made for one index and under one root, nor the same proof said *)
(* to be of the other kind, makes VerifyProof accept under another root or *)
(* for another index what is not so.                                       *)
ProofsSound ==
    \A w \in versions, hi \in HIndexes, existence \in BOOLEAN :
        LET p == [GenerateProof(hi, w.root) EXCEPT !.Existence = existence] IN
        \A other \in HIndexes, hv \in HValues :
            LET root == RootFromProof(p, other, hv) IN
            \A v \in versions : v.root = root =>
                IF existence THEN Leaf(other, hv) \in v.entries
                ELSE \A e \in v.entries : e.hi # other

(* A proof is what it was after Bytes and NewProofFromBytes, and one that  *)
(* has lost a word of its bytes is refused: the bitmap, the flags and the  *)
(* number of words always fit.                                             *)
ProofsSurviveBytes ==
    \A v \in versions, hi \in HIndexes :
        LET p == GenerateProof(hi, v.root)
            bs == Bytes(p)
            less == SubSeq(bs.words, 1, Len(bs.words) - 1) IN
        /\ NewProofFromBytes(bs) = p
        /\ bs.words # <<>> => NewProofFromBytes([bs EXCEPT !.words = less]) = None

(* Without failures AddEntry refuses an entry only if its index is there,  *)
(* or its path parts from that of another entry at the last level or not   *)
(* at all.  The one exception is a tree that ImportTree has put into the   *)
(* storage and that was opened again: the root that dbGet makes of the     *)
(* bare one has no node, and every entry is refused until the storage is   *)
(* imported anew.                                                          *)
Refusal(hi) ==
    LET s == EntriesOf(rootKey) IN
    IF \E e \in s : e.hi = hi THEN "exists"
    ELSE IF \E e \in s : \A lvl \in 0 .. MaxLevels - 2 : Right(e.hi, lvl) = Right(hi, lvl)
    THEN "maxlevel" ELSE "ok"

AddEntryAcceptsWhatFits ==
    open /\ faults = 0 =>
        /\ rootKey \notin Roots => currentroot.type = "untyped"
        /\ \A hi \in HIndexes, hv \in HValues :
              addLeaf(Leaf(hi, hv), rootKey)[0].err =
                  IF rootKey \in Roots THEN Refusal(hi) ELSE "notfound"

=============================================================================
