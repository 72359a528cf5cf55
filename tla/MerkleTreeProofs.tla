-------------------------- MODULE MerkleTreeProofs --------------------------
(***************************************************************************)
(* What the Merkle tree promises, for every set of hash-indexes, every     *)
(* number of levels and every number of failures of the storage.           *)
(*                                                                         *)
(* The recursion over the levels is unfolded once for each function, and   *)
(* every fact about all levels is shown by induction upwards or downwards  *)
(* over 0 .. MaxLevels, with the fact as the set of the levels at which it *)
(* holds.  The facts are about trees of sets: Tree[l][s] is the node that  *)
(* has the leaves s below the level l, Held[l][s] has its nodes.  addLeaf  *)
(* leads from the tree of s to that of s with a leaf more; different sets  *)
(* have different trees; Path goes down through the trees of the leaves    *)
(* that share their path with the index.                                   *)
(***************************************************************************)
EXTENDS MerkleTree, FiniteSetTheorems, SequenceTheorems, WellFoundedInduction, TLAPS

-----------------------------------------------------------------------------
(* Induction over the natural numbers, with the property as a set.         *)
LEMMA Induction ==
    ASSUME NEW S, 0 \in S, \A n \in Nat : n \in S => n + 1 \in S
    PROVE  \A n \in Nat : n \in S
<1> DEFINE R == {ss \in Nat \X Nat : ss[1] < ss[2]}
           T == Nat \ S
<1>1. IsWellFoundedOn(R, Nat)
  BY NatLessThanWellFounded DEF OpToRel
<1>2. \A x, y \in Nat : y < x => <<y, x>> \in R
  OBVIOUS
<1> HIDE DEF R
<1> SUFFICES ASSUME T # {} PROVE FALSE
  OBVIOUS
<1>3. PICK x \in T : \A y \in T : ~(<<y, x>> \in R)
  BY <1>1, WFMin
<1>4. x # 0 /\ x - 1 \in Nat /\ x - 1 < x /\ x \in Nat
  OBVIOUS
<1>5. x - 1 \in S
  BY <1>2, <1>3, <1>4
<1> QED
  BY <1>4, <1>5

(* Induction upwards and downwards over the levels 0 .. m.                 *)
LEMMA UpInduction ==
    ASSUME NEW m \in Nat, NEW S, 0 \in S, \A l \in 0 .. m : l < m /\ l \in S => l + 1 \in S
    PROVE  \A l \in 0 .. m : l \in S
<1> DEFINE T == {n \in Nat : n <= m => n \in S}
<1>1. 0 \in T /\ \A n \in Nat : n \in T => n + 1 \in T
  OBVIOUS
<1> HIDE DEF T
<1>2. \A n \in Nat : n \in T
  BY <1>1, Induction
<1> QED
  BY <1>2 DEF T

LEMMA DownInduction ==
    ASSUME NEW m \in Nat, NEW S, m \in S, \A l \in 0 .. m : l < m /\ l + 1 \in S => l \in S
    PROVE  \A l \in 0 .. m : l \in S
<1> DEFINE T == {n \in Nat : n <= m => m - n \in S}
<1>1. 0 \in T
  OBVIOUS
<1>2. ASSUME NEW n \in Nat, n \in T, n + 1 <= m PROVE m - (n + 1) \in S
  <2>1. m - n \in S /\ m - (n + 1) \in 0 .. m /\ m - (n + 1) < m /\ (m - (n + 1)) + 1 = m - n
    BY <1>2
  <2> QED
    BY <2>1
<1>3. \A n \in Nat : n \in T => n + 1 \in T
  BY <1>2
<1> HIDE DEF T
<1>4. \A n \in Nat : n \in T
  BY <1>1, <1>3, Induction
<1>5. ASSUME NEW l \in 0 .. m PROVE l \in S
  <2>1. m - l \in Nat /\ m - l <= m /\ m - (m - l) = l
    OBVIOUS
  <2> QED
    BY <1>4, <2>1 DEF T
<1> QED
  BY <1>5

-----------------------------------------------------------------------------
(* The recursive functions of the model are what their definitions say.    *)
LEMMA LevelsNat == Levels = 0 .. MaxLevels /\ MaxLevels \in Nat /\ MaxLevels > 0
BY MerkleTreeAssumption DEF Levels, MaxBits

LEMMA PathDef ==
    ASSUME NEW root, NEW hi
    PROVE  /\ Path(root, hi)[0] = root
           /\ \A l \in Levels : l < MaxLevels =>
                 Path(root, hi)[l + 1] = IF TypeOf(Path(root, hi)[l]) = "middle"
                                         THEN OnPath(Path(root, hi)[l], hi, l)
                                         ELSE Path(root, hi)[l]
<1> DEFINE Step(k, l) == IF TypeOf(k) = "middle" THEN OnPath(k, hi, l) ELSE k
           P(f, n) == f = [l \in 0 .. n |-> IF l = 0 THEN root ELSE Step(f[l - 1], l - 1)]
           S == {n \in Nat : \E f : P(f, n)}
<1> HIDE DEF Step
<1>1. P([l \in 0 .. 0 |-> root], 0)
  OBVIOUS
<1>2. ASSUME NEW n \in Nat, NEW f, P(f, n) PROVE \E g : P(g, n + 1)
  <2> DEFINE g == [l \in 0 .. n + 1 |-> IF l <= n THEN f[l] ELSE Step(f[n], n)]
  <2>1. P(g, n + 1)
    BY <1>2
  <2> QED
    BY <2>1
<1> HIDE DEF P
<1>3. 0 \in S /\ \A n \in Nat : n \in S => n + 1 \in S
  BY <1>1, <1>2
<1> HIDE DEF S
<1>4. \A n \in Nat : n \in S
  BY <1>3, Induction
<1>5. \E f : P(f, MaxLevels)
  BY <1>4, LevelsNat DEF S
<1>6. P(Path(root, hi), MaxLevels)
  BY <1>5, LevelsNat DEF P, Path, Step
<1>7. ASSUME NEW l \in Levels, l < MaxLevels
      PROVE  Path(root, hi)[l + 1] = Step(Path(root, hi)[l], l)
  <2>1. l + 1 \in 0 .. MaxLevels /\ l + 1 # 0 /\ (l + 1) - 1 = l
    BY <1>7, LevelsNat
  <2> QED
    BY <1>6, <2>1 DEF P
<1>8. Path(root, hi)[0] = root
  BY <1>6, LevelsNat DEF P
<1> QED
  BY <1>7, <1>8 DEF Step

LEMMA PushDef ==
    ASSUME NEW new, NEW old
    PROVE  \A l \in Levels : pushLeaf(new, old)[l] =
              IF TooDeep(l) THEN Failed("maxlevel")
              ELSE IF Right(new.hi, l) = Right(old.hi, l)
                   THEN Then(pushLeaf(new, old)[l + 1],
                             Beside(new.hi, l, pushLeaf(new, old)[l + 1].key, HashZero))
                   ELSE Then(addNode(new, {}), Beside(new.hi, l, new, old))
<1> DEFINE Step(l, next) ==
             IF Right(new.hi, l) = Right(old.hi, l)
             THEN Then(next, Beside(new.hi, l, next.key, HashZero))
             ELSE Then(addNode(new, {}), Beside(new.hi, l, new, old))
           P(f, n) == f = [l \in MaxLevels - n .. MaxLevels |->
                             IF TooDeep(l) THEN Failed("maxlevel") ELSE Step(l, f[l + 1])]
           S == {n \in Nat : \E f : P(f, n)}
<1> HIDE DEF Step
<1>1. P([l \in MaxLevels - 0 .. MaxLevels |-> Failed("maxlevel")], 0)
  BY LevelsNat DEF TooDeep
<1>2. ASSUME NEW n \in Nat, NEW f, P(f, n) PROVE \E g : P(g, n + 1)
  <2> DEFINE g == [l \in MaxLevels - (n + 1) .. MaxLevels |->
                     IF l >= MaxLevels - n THEN f[l]
                     ELSE IF TooDeep(l) THEN Failed("maxlevel") ELSE Step(l, f[MaxLevels - n])]
  <2>1. P(g, n + 1)
    BY <1>2, LevelsNat DEF TooDeep
  <2> QED
    BY <2>1
<1> HIDE DEF P
<1>3. 0 \in S /\ \A n \in Nat : n \in S => n + 1 \in S
  BY <1>1, <1>2
<1> HIDE DEF S
<1>4. \A n \in Nat : n \in S
  BY <1>3, Induction
<1>5. MaxLevels - MaxLevels .. MaxLevels = Levels /\ \E f : P(f, MaxLevels)
  BY <1>4, LevelsNat DEF S
<1>6. P(pushLeaf(new, old), MaxLevels)
  BY <1>5, LevelsNat DEF P, pushLeaf, Step
<1> QED
  BY <1>5, <1>6 DEF P, Step

LEMMA AddDef ==
    ASSUME NEW new, NEW root
    PROVE  \A l \in Levels : addLeaf(new, root)[l] =
              LET k == Path(root, new.hi)[l] IN
              IF l > MaxLevels - 1 THEN Failed("maxlevel")
              ELSE IF TypeOf(k) = "middle"
                   THEN Then(addLeaf(new, root)[l + 1],
                             Beside(new.hi, l, addLeaf(new, root)[l + 1].key,
                                    OffPath(k, new.hi, l)))
              ELSE CASE TypeOf(k) = "notfound" -> Failed("notfound")
                     [] TypeOf(k) = "empty" -> addNode(new, {})
                     [] TypeOf(k) = "leaf" -> IF k.hi = new.hi THEN Failed("exists")
                                              ELSE pushLeaf(new, k)[l]
<1> DEFINE Step(l, next) ==
             LET k == Path(root, new.hi)[l] IN
             IF l > MaxLevels - 1 THEN Failed("maxlevel")
             ELSE IF TypeOf(k) = "middle"
                  THEN Then(next, Beside(new.hi, l, next.key, OffPath(k, new.hi, l)))
             ELSE CASE TypeOf(k) = "notfound" -> Failed("notfound")
                    [] TypeOf(k) = "empty" -> addNode(new, {})
                    [] TypeOf(k) = "leaf" -> IF k.hi = new.hi THEN Failed("exists")
                                             ELSE pushLeaf(new, k)[l]
           P(f, n) == f = [l \in MaxLevels - n .. MaxLevels |-> Step(l, f[l + 1])]
           S == {n \in Nat : \E f : P(f, n)}
<1>0. \A x, y : Step(MaxLevels, x) = Step(MaxLevels, y)
  BY LevelsNat
<1> HIDE DEF Step
<1>1. P([l \in MaxLevels - 0 .. MaxLevels |-> Step(MaxLevels, 0)], 0)
  BY <1>0, LevelsNat
<1>2. ASSUME NEW n \in Nat, NEW f, P(f, n) PROVE \E g : P(g, n + 1)
  <2> DEFINE g == [l \in MaxLevels - (n + 1) .. MaxLevels |->
                     IF l >= MaxLevels - n THEN f[l] ELSE Step(l, f[MaxLevels - n])]
  <2>1. P(g, n + 1)
    BY <1>0, <1>2, LevelsNat
  <2> QED
    BY <2>1
<1> HIDE DEF P
<1>3. 0 \in S /\ \A n \in Nat : n \in S => n + 1 \in S
  BY <1>1, <1>2
<1> HIDE DEF S
<1>4. \A n \in Nat : n \in S
  BY <1>3, Induction
<1>5. MaxLevels - MaxLevels .. MaxLevels = Levels /\ \E f : P(f, MaxLevels)
  BY <1>4, LevelsNat DEF S
<1>6. \E f : f = [l \in Levels |-> Step(l, f[l + 1])]
  BY <1>5 DEF P
<1>7. addLeaf(new, root) = [l \in Levels |-> Step(l, addLeaf(new, root)[l + 1])]
  BY <1>6, Zenon DEF addLeaf, Step
<1> QED
  BY <1>7 DEF Step

LEMMA TreeDef ==
    ASSUME NEW l \in Levels, NEW s \in SUBSET Leaves
    PROVE  Tree[l][s] =
             IF s = {} THEN HashZero
             ELSE IF \E e \in s : s = {e} THEN CHOOSE e \in s : TRUE
             ELSE IF l = MaxLevels THEN None
             ELSE Middle(Tree[l + 1][{e \in s : ~Right(e.hi, l)}],
                         Tree[l + 1][{e \in s : Right(e.hi, l)}])
<1> DEFINE Step(lvl, next) ==
             [u \in SUBSET Leaves |->
                IF u = {} THEN HashZero
                ELSE IF \E e \in u : u = {e} THEN CHOOSE e \in u : TRUE
                ELSE IF lvl = MaxLevels THEN None
                ELSE Middle(next[{e \in u : ~Right(e.hi, lvl)}],
                            next[{e \in u : Right(e.hi, lvl)}])]
           P(f, n) == f = [lvl \in MaxLevels - n .. MaxLevels |-> Step(lvl, f[lvl + 1])]
           S == {n \in Nat : \E f : P(f, n)}
<1>0. \A x, y : Step(MaxLevels, x) = Step(MaxLevels, y)
  OBVIOUS
<1> HIDE DEF Step
<1>1. P([lvl \in MaxLevels - 0 .. MaxLevels |-> Step(MaxLevels, 0)], 0)
  BY <1>0, LevelsNat
<1>2. ASSUME NEW n \in Nat, NEW f, P(f, n) PROVE \E g : P(g, n + 1)
  <2> DEFINE g == [lvl \in MaxLevels - (n + 1) .. MaxLevels |->
                     IF lvl >= MaxLevels - n THEN f[lvl] ELSE Step(lvl, f[MaxLevels - n])]
  <2>1. P(g, n + 1)
    BY <1>0, <1>2, LevelsNat
  <2> QED
    BY <2>1
<1> HIDE DEF P
<1>3. 0 \in S /\ \A n \in Nat : n \in S => n + 1 \in S
  BY <1>1, <1>2
<1> HIDE DEF S
<1>4. \A n \in Nat : n \in S
  BY <1>3, Induction
<1>5. MaxLevels - MaxLevels .. MaxLevels = Levels /\ \E f : P(f, MaxLevels)
  BY <1>4, LevelsNat DEF S
<1>6. \E f : f = [lvl \in Levels |-> Step(lvl, f[lvl + 1])]
  BY <1>5 DEF P
<1>7. Tree = [lvl \in Levels |-> Step(lvl, Tree[lvl + 1])]
  BY <1>6, Zenon DEF Tree, Step
<1>8. Tree[l][s] = Step(l, Tree[l + 1])[s]
  BY <1>7
<1> QED
  BY <1>8, Zenon DEF Step

(* The nodes of the tree of a set of leaves.                               *)
Held[lvl \in Levels] ==
    [s \in SUBSET Leaves |->
       IF s = {} THEN {}
       ELSE IF (\E e \in s : s = {e}) \/ lvl = MaxLevels THEN {Tree[lvl][s]}
       ELSE {Tree[lvl][s]} \cup Held[lvl + 1][{e \in s : ~Right(e.hi, lvl)}]
                           \cup Held[lvl + 1][{e \in s : Right(e.hi, lvl)}]]

LEMMA HeldDef ==
    ASSUME NEW l \in Levels, NEW s \in SUBSET Leaves
    PROVE  Held[l][s] =
             IF s = {} THEN {}
             ELSE IF (\E e \in s : s = {e}) \/ l = MaxLevels THEN {Tree[l][s]}
             ELSE {Tree[l][s]} \cup Held[l + 1][{e \in s : ~Right(e.hi, l)}]
                               \cup Held[l + 1][{e \in s : Right(e.hi, l)}]
<1> DEFINE Step(lvl, next) ==
             [u \in SUBSET Leaves |->
                IF u = {} THEN {}
                ELSE IF (\E e \in u : u = {e}) \/ lvl = MaxLevels THEN {Tree[lvl][u]}
                ELSE {Tree[lvl][u]} \cup next[{e \in u : ~Right(e.hi, lvl)}]
                                  \cup next[{e \in u : Right(e.hi, lvl)}]]
           P(f, n) == f = [lvl \in MaxLevels - n .. MaxLevels |-> Step(lvl, f[lvl + 1])]
           S == {n \in Nat : \E f : P(f, n)}
<1>0. \A x, y : Step(MaxLevels, x) = Step(MaxLevels, y)
  BY LevelsNat
<1> HIDE DEF Step
<1>1. P([lvl \in MaxLevels - 0 .. MaxLevels |-> Step(MaxLevels, 0)], 0)
  BY <1>0, LevelsNat
<1>2. ASSUME NEW n \in Nat, NEW f, P(f, n) PROVE \E g : P(g, n + 1)
  <2> DEFINE g == [lvl \in MaxLevels - (n + 1) .. MaxLevels |->
                     IF lvl >= MaxLevels - n THEN f[lvl] ELSE Step(lvl, f[MaxLevels - n])]
  <2>1. P(g, n + 1)
    BY <1>0, <1>2, LevelsNat
  <2> QED
    BY <2>1
<1> HIDE DEF P
<1>3. 0 \in S /\ \A n \in Nat : n \in S => n + 1 \in S
  BY <1>1, <1>2
<1> HIDE DEF S
<1>4. \A n \in Nat : n \in S
  BY <1>3, Induction
<1>5. MaxLevels - MaxLevels .. MaxLevels = Levels /\ \E f : P(f, MaxLevels)
  BY <1>4, LevelsNat DEF S
<1>6. \E f : f = [lvl \in Levels |-> Step(lvl, f[lvl + 1])]
  BY <1>5 DEF P
<1>7. Held = [lvl \in Levels |-> Step(lvl, Held[lvl + 1])]
  BY <1>6, Zenon DEF Held, Step
<1>8. Held[l][s] = Step(l, Held[l + 1])[s]
  BY <1>7
<1> QED
  BY <1>8, Zenon DEF Step

LEMMA WalkDef ==
    \E below :
       /\ \A root : walk(root) = below[0][root]
       /\ \A l \in Levels : below[l] =
            [k \in Keys |-> IF TypeOf(k) = "middle" /\ l < MaxLevels
                            THEN {k} \cup below[l + 1][k.l] \cup below[l + 1][k.r]
                            ELSE {k} \ {HashZero}]
<1> DEFINE Step(l, next) ==
             [k \in Keys |-> IF TypeOf(k) = "middle" /\ l < MaxLevels
                             THEN {k} \cup next[k.l] \cup next[k.r]
                             ELSE {k} \ {HashZero}]
           P(f, n) == f = [l \in MaxLevels - n .. MaxLevels |-> Step(l, f[l + 1])]
           S == {n \in Nat : \E f : P(f, n)}
<1>0. \A x, y : Step(MaxLevels, x) = Step(MaxLevels, y)
  BY LevelsNat
<1> HIDE DEF Step
<1>1. P([l \in MaxLevels - 0 .. MaxLevels |-> Step(MaxLevels, 0)], 0)
  BY <1>0, LevelsNat
<1>2. ASSUME NEW n \in Nat, NEW f, P(f, n) PROVE \E g : P(g, n + 1)
  <2> DEFINE g == [l \in MaxLevels - (n + 1) .. MaxLevels |->
                     IF l >= MaxLevels - n THEN f[l] ELSE Step(l, f[MaxLevels - n])]
  <2>1. P(g, n + 1)
    BY <1>0, <1>2, LevelsNat
  <2> QED
    BY <2>1
<1> HIDE DEF P
<1>3. 0 \in S /\ \A n \in Nat : n \in S => n + 1 \in S
  BY <1>1, <1>2
<1> HIDE DEF S
<1>4. \A n \in Nat : n \in S
  BY <1>3, Induction
<1>5. MaxLevels - MaxLevels .. MaxLevels = Levels /\ \E f : P(f, MaxLevels)
  BY <1>4, LevelsNat DEF S
<1>6. \E f : f = [l \in Levels |-> Step(l, f[l + 1])]
  BY <1>5 DEF P
<1> DEFINE F == CHOOSE f : f = [l \in Levels |-> Step(l, f[l + 1])]
<1>7. F = [l \in Levels |-> Step(l, F[l + 1])]
  BY <1>6, Zenon
<1>8. \A root : walk(root) = F[0][root]
  BY Zenon DEF walk, Step
<1> HIDE DEF F
<1> QED
  BY <1>7, <1>8 DEF Step

LEMMA DumpDef ==
    \E below :
       /\ \A root : DumpClaims(root) = below[0][root]
       /\ \A l \in Levels : below[l] =
            [k \in Keys |-> IF TypeOf(k) = "middle" /\ l < MaxLevels
                            THEN below[l + 1][k.l] \o below[l + 1][k.r]
                            ELSE IF TypeOf(k) = "leaf" THEN <<k>> ELSE <<>>]
<1> DEFINE Step(l, next) ==
             [k \in Keys |-> IF TypeOf(k) = "middle" /\ l < MaxLevels
                             THEN next[k.l] \o next[k.r]
                             ELSE IF TypeOf(k) = "leaf" THEN <<k>> ELSE <<>>]
           P(f, n) == f = [l \in MaxLevels - n .. MaxLevels |-> Step(l, f[l + 1])]
           S == {n \in Nat : \E f : P(f, n)}
<1>0. \A x, y : Step(MaxLevels, x) = Step(MaxLevels, y)
  BY LevelsNat
<1> HIDE DEF Step
<1>1. P([l \in MaxLevels - 0 .. MaxLevels |-> Step(MaxLevels, 0)], 0)
  BY <1>0, LevelsNat
<1>2. ASSUME NEW n \in Nat, NEW f, P(f, n) PROVE \E g : P(g, n + 1)
  <2> DEFINE g == [l \in MaxLevels - (n + 1) .. MaxLevels |->
                     IF l >= MaxLevels - n THEN f[l] ELSE Step(l, f[MaxLevels - n])]
  <2>1. P(g, n + 1)
    BY <1>0, <1>2, LevelsNat
  <2> QED
    BY <2>1
<1> HIDE DEF P
<1>3. 0 \in S /\ \A n \in Nat : n \in S => n + 1 \in S
  BY <1>1, <1>2
<1> HIDE DEF S
<1>4. \A n \in Nat : n \in S
  BY <1>3, Induction
<1>5. MaxLevels - MaxLevels .. MaxLevels = Levels /\ \E f : P(f, MaxLevels)
  BY <1>4, LevelsNat DEF S
<1>6. \E f : f = [l \in Levels |-> Step(l, f[l + 1])]
  BY <1>5 DEF P
<1> DEFINE F == CHOOSE f : f = [l \in Levels |-> Step(l, f[l + 1])]
<1>7. F = [l \in Levels |-> Step(l, F[l + 1])]
  BY <1>6, Zenon
<1>8. \A root : DumpClaims(root) = F[0][root]
  BY Zenon DEF DumpClaims, Step
<1> HIDE DEF F
<1> QED
  BY <1>7, <1>8 DEF Step

LEMMA UpDef ==
    ASSUME NEW p, NEW hi, NEW leaf, NEW d \in Nat, p.depth = d
    PROVE  \A l \in 0 .. d : Up(p, hi, leaf)[l] =
              IF l = d THEN leaf
              ELSE Beside(hi, l, Up(p, hi, leaf)[l + 1], SiblingAt(p, l))
<1> DEFINE Step(l, next) == IF l = p.depth THEN leaf ELSE Beside(hi, l, next, SiblingAt(p, l))
           P(f, n) == f = [l \in d - n .. d |-> Step(l, f[l + 1])]
           S == {n \in Nat : \E f : P(f, n)}
<1>0. \A x, y : Step(d, x) = Step(d, y)
  OBVIOUS
<1> HIDE DEF Step
<1>1. P([l \in d - 0 .. d |-> Step(d, 0)], 0)
  BY <1>0
<1>2. ASSUME NEW n \in Nat, NEW f, P(f, n) PROVE \E g : P(g, n + 1)
  <2> DEFINE g == [l \in d - (n + 1) .. d |->
                     IF l >= d - n THEN f[l] ELSE Step(l, f[d - n])]
  <2>1. ASSUME NEW l \in d - (n + 1) .. d PROVE g[l] = Step(l, g[l + 1])
    <3>1. CASE l = d
      BY <1>0, <1>2, <3>1
    <3>2. CASE l < d /\ l >= d - n
      BY <1>2, <3>2
    <3>3. CASE l < d - n /\ l < d
      <4>1. l + 1 = d - n /\ l + 1 \in d - (n + 1) .. d
        BY <3>3
      <4> QED
        BY <3>3, <4>1
    <3> QED
      BY <3>1, <3>2, <3>3
  <2>2. P(g, n + 1)
    BY <2>1
  <2> QED
    BY <2>2
<1> HIDE DEF P
<1>3. 0 \in S /\ \A n \in Nat : n \in S => n + 1 \in S
  BY <1>1, <1>2
<1> HIDE DEF S
<1>4. \A n \in Nat : n \in S
  BY <1>3, Induction
<1>5. d - d .. d = 0 .. d /\ \E f : P(f, d)
  BY <1>4 DEF S
<1>6. \E f : f = [l \in 0 .. p.depth |-> Step(l, f[l + 1])]
  BY <1>5 DEF P
<1>7. Up(p, hi, leaf) = [l \in 0 .. p.depth |-> Step(l, Up(p, hi, leaf)[l + 1])]
  BY <1>6, Zenon DEF Up, Step
<1> QED
  BY <1>7 DEF Step

LEMMA CollectedDef ==
    ASSUME NEW root, NEW hi
    PROVE  /\ Collected(hi, root)[0] = EmptyProof
           /\ \A l \in Levels : l < MaxLevels =>
                 Collected(hi, root)[l + 1] =
                    IF TypeOf(Path(root, hi)[l]) = "middle"
                    THEN Down(Collected(hi, root)[l], OffPath(Path(root, hi)[l], hi, l))
                    ELSE Collected(hi, root)[l]
<1> DEFINE Step(p, l) == IF TypeOf(Path(root, hi)[l]) = "middle"
                         THEN Down(p, OffPath(Path(root, hi)[l], hi, l)) ELSE p
           P(f, n) == f = [l \in 0 .. n |-> IF l = 0 THEN EmptyProof
                                           ELSE Step(f[l - 1], l - 1)]
           S == {n \in Nat : \E f : P(f, n)}
<1> HIDE DEF Step
<1>1. P([l \in 0 .. 0 |-> EmptyProof], 0)
  OBVIOUS
<1>2. ASSUME NEW n \in Nat, NEW f, P(f, n) PROVE \E g : P(g, n + 1)
  <2> DEFINE g == [l \in 0 .. n + 1 |-> IF l <= n THEN f[l] ELSE Step(f[n], n)]
  <2>1. P(g, n + 1)
    BY <1>2
  <2> QED
    BY <2>1
<1> HIDE DEF P
<1>3. 0 \in S /\ \A n \in Nat : n \in S => n + 1 \in S
  BY <1>1, <1>2
<1> HIDE DEF S
<1>4. \A n \in Nat : n \in S
  BY <1>3, Induction
<1>5. \E f : P(f, MaxLevels)
  BY <1>4, LevelsNat DEF S
<1>6. P(Collected(hi, root), MaxLevels)
  BY <1>5, LevelsNat, Zenon DEF P, Collected, Step, Levels
<1>7. ASSUME NEW l \in Levels, l < MaxLevels
      PROVE  Collected(hi, root)[l + 1] = Step(Collected(hi, root)[l], l)
  <2>1. l + 1 \in 0 .. MaxLevels /\ l + 1 # 0 /\ (l + 1) - 1 = l
    BY <1>7, LevelsNat
  <2> QED
    BY <1>6, <2>1 DEF P
<1>8. Collected(hi, root)[0] = EmptyProof
  BY <1>6, LevelsNat DEF P
<1> QED
  BY <1>7, <1>8 DEF Step

-----------------------------------------------------------------------------
(* The keys.                                                               *)
LEMMA MiddleFacts ==
    ASSUME NEW a, NEW b
    PROVE  /\ Middle(a, b).type = "middle"
           /\ Middle(a, b).l = a /\ Middle(a, b).r = b
           /\ Middle(a, b) # HashZero /\ Middle(a, b) # None
           /\ Middle(a, b) \notin Leaves
<1>1. Middle(a, b).type = "middle" /\ Middle(a, b).l = a /\ Middle(a, b).r = b
  BY DEF Middle
<1>2. HashZero.type = "empty" /\ None.type = "none"
  BY DEF HashZero, None
<1>3. \A hi \in HIndexes, hv \in HValues : Leaf(hi, hv).type = "leaf"
  BY DEF Leaf
<1> QED
  BY <1>1, <1>2, <1>3 DEF Leaves

LEMMA LeafFacts ==
    ASSUME NEW e \in Leaves
    PROVE  /\ e.type = "leaf" /\ e.hi \in HIndexes /\ e.hv \in HValues
           /\ e = Leaf(e.hi, e.hv)
           /\ e # HashZero /\ e # None
<1>1. PICK hi \in HIndexes, hv \in HValues : e = Leaf(hi, hv)
  BY DEF Leaves
<1>2. e.type = "leaf" /\ e.hi = hi /\ e.hv = hv
  BY <1>1 DEF Leaf
<1>3. HashZero.type = "empty" /\ None.type = "none"
  BY DEF HashZero, None
<1> QED
  BY <1>1, <1>2, <1>3

LEMMA BesideFacts ==
    ASSUME NEW hi, NEW l, NEW k, NEW other
    PROVE  /\ Beside(hi, l, k, other).type = "middle"
           /\ Beside(hi, l, k, other) # HashZero /\ Beside(hi, l, k, other) # None
           /\ Beside(hi, l, k, other) \notin Leaves
           /\ OnPath(Beside(hi, l, k, other), hi, l) = k
           /\ OffPath(Beside(hi, l, k, other), hi, l) = other
BY MiddleFacts DEF Beside, OnPath, OffPath

LEMMA HashZeroFacts == HashZero # None /\ HashZero.type = "empty" /\ None.type = "none"
BY DEF HashZero, None

-----------------------------------------------------------------------------
(* Sets of leaves, and their trees.                                        *)
Many(s) == s # {} /\ \A e \in s : s # {e}

Side(s, lvl, right) == {e \in s : Right(e.hi, lvl) = right}

(* The leaves part from each other below a level, above the last one.      *)
Fits(s, lvl) ==
    \A e, f \in s : e # f => \E i \in lvl .. MaxLevels - 2 : Right(e.hi, i) # Right(f.hi, i)

LEMMA RightBool == ASSUME NEW hi, NEW l PROVE Right(hi, l) \in BOOLEAN
BY DEF Right

LEMMA TreeEmpty == ASSUME NEW l \in Levels PROVE Tree[l][{}] = HashZero /\ Held[l][{}] = {}
<1>1. {} \in SUBSET Leaves
  OBVIOUS
<1> QED
  BY <1>1, TreeDef, HeldDef

LEMMA TreeOne ==
    ASSUME NEW l \in Levels, NEW e \in Leaves
    PROVE  Tree[l][{e}] = e /\ Held[l][{e}] = {e}
<1>1. {e} \in SUBSET Leaves /\ {e} # {} /\ \E f \in {e} : {e} = {f}
  OBVIOUS
<1>2. Tree[l][{e}] = CHOOSE f \in {e} : TRUE
  BY <1>1, TreeDef
<1>3. Tree[l][{e}] = e
  BY <1>2
<1>4. Held[l][{e}] = {Tree[l][{e}]}
  <2>1. \A s \in SUBSET Leaves :
          s # {} /\ (\E f \in s : s = {f}) => Held[l][s] = {Tree[l][s]}
    BY HeldDef, Zenon
  <2> QED
    BY <1>1, <2>1
<1> QED
  BY <1>3, <1>4

LEMMA SideFacts ==
    ASSUME NEW s \in SUBSET Leaves, NEW l \in Levels, NEW b \in BOOLEAN
    PROVE  /\ Side(s, l, b) \in SUBSET Leaves
           /\ Side(s, l, b) \subseteq s
           /\ s = Side(s, l, b) \cup Side(s, l, ~b)
<1>1. \A e \in s : Right(e.hi, l) \in BOOLEAN
  BY RightBool
<1> QED
  BY <1>1 DEF Side

LEMMA TreeSides ==
    ASSUME NEW s \in SUBSET Leaves, NEW l \in Levels, Many(s), l < MaxLevels
    PROVE  /\ Tree[l][s] = Middle(Tree[l + 1][Side(s, l, FALSE)], Tree[l + 1][Side(s, l, TRUE)])
           /\ Held[l][s] = {Tree[l][s]} \cup Held[l + 1][Side(s, l, FALSE)]
                                        \cup Held[l + 1][Side(s, l, TRUE)]
<1>1. s # {} /\ ~(\E e \in s : s = {e}) /\ l # MaxLevels
  BY LevelsNat DEF Many
<1>2. Side(s, l, TRUE) = {e \in s : Right(e.hi, l)}
  <2>1. \A e \in s : (Right(e.hi, l) = TRUE) <=> Right(e.hi, l)
    BY RightBool, Zenon
  <2> QED
    BY <2>1, Zenon DEF Side
<1>3. Side(s, l, FALSE) = {e \in s : ~Right(e.hi, l)}
  <2>1. \A e \in s : (Right(e.hi, l) = FALSE) <=> ~Right(e.hi, l)
    BY RightBool, Zenon
  <2> QED
    BY <2>1 DEF Side
<1>4. Tree[l][s] = Middle(Tree[l + 1][{e \in s : ~Right(e.hi, l)}],
                          Tree[l + 1][{e \in s : Right(e.hi, l)}])
  BY <1>1, TreeDef, Zenon
<1>5. Held[l][s] = {Tree[l][s]} \cup Held[l + 1][{e \in s : ~Right(e.hi, l)}]
                                \cup Held[l + 1][{e \in s : Right(e.hi, l)}]
  BY <1>1, HeldDef, Zenon
<1> QED
  BY <1>2, <1>3, <1>4, <1>5, Zenon

LEMMA TreeMany ==
    ASSUME NEW s \in SUBSET Leaves, NEW l \in Levels, Many(s), l < MaxLevels, NEW hi
    PROVE  /\ Tree[l][s] = Beside(hi, l, Tree[l + 1][Side(s, l, Right(hi, l))],
                                         Tree[l + 1][Side(s, l, ~Right(hi, l))])
           /\ Held[l][s] = {Tree[l][s]} \cup Held[l + 1][Side(s, l, Right(hi, l))]
                                        \cup Held[l + 1][Side(s, l, ~Right(hi, l))]
<1>1. Tree[l][s] = Middle(Tree[l + 1][Side(s, l, FALSE)], Tree[l + 1][Side(s, l, TRUE)])
  BY TreeSides
<1>2. Held[l][s] = {Tree[l][s]} \cup Held[l + 1][Side(s, l, FALSE)]
                                \cup Held[l + 1][Side(s, l, TRUE)]
  BY TreeSides
<1>3. CASE Right(hi, l)
  <2>1. Right(hi, l) = TRUE /\ (~Right(hi, l)) = FALSE
    BY <1>3, RightBool
  <2> QED
    BY <1>1, <1>2, <2>1 DEF Beside
<1>4. CASE ~Right(hi, l)
  <2>1. Right(hi, l) = FALSE /\ (~Right(hi, l)) = TRUE
    BY <1>4, RightBool
  <2> QED
    BY <1>1, <1>2, <2>1 DEF Beside
<1> QED
  BY <1>3, <1>4

LEMMA FitsMany ==
    ASSUME NEW s, NEW l \in Levels, Many(s), Fits(s, l)
    PROVE  l < MaxLevels - 1 /\ l + 1 \in Levels
<1>1. PICK e \in s, f \in s : e # f
  BY DEF Many
<1>2. PICK i \in l .. MaxLevels - 2 : TRUE
  BY <1>1 DEF Fits
<1> QED
  BY <1>2, LevelsNat

LEMMA FitsSide ==
    ASSUME NEW s \in SUBSET Leaves, NEW l \in Levels, Fits(s, l), NEW b \in BOOLEAN
    PROVE  Fits(Side(s, l, b), l + 1)
<1> SUFFICES ASSUME NEW e \in Side(s, l, b), NEW f \in Side(s, l, b), e # f
             PROVE  \E i \in l + 1 .. MaxLevels - 2 : Right(e.hi, i) # Right(f.hi, i)
  BY DEF Fits
<1>1. e \in s /\ f \in s /\ Right(e.hi, l) = Right(f.hi, l)
  BY DEF Side
<1>2. PICK i \in l .. MaxLevels - 2 : Right(e.hi, i) # Right(f.hi, i)
  BY <1>1 DEF Fits
<1>3. i # l
  BY <1>1, <1>2
<1>4. i \in l + 1 .. MaxLevels - 2
  BY <1>3, LevelsNat
<1> QED
  BY <1>2, <1>4

(* A set with a leaf more fits, if its part on that leaf's side does.      *)
LEMMA FitsAdd ==
    ASSUME NEW s \in SUBSET Leaves, NEW l \in Levels, l < MaxLevels - 1, Fits(s, l),
           NEW new \in Leaves, Fits(Side(s, l, Right(new.hi, l)) \cup {new}, l + 1)
    PROVE  Fits(s \cup {new}, l)
<1> DEFINE t == Side(s, l, Right(new.hi, l))
<1>1. ASSUME NEW e \in s, e # new
      PROVE  \E i \in l .. MaxLevels - 2 : Right(e.hi, i) # Right(new.hi, i)
  <2>1. CASE Right(e.hi, l) = Right(new.hi, l)
    <3>1. e \in t
      BY <2>1 DEF Side
    <3>2. PICK i \in l + 1 .. MaxLevels - 2 : Right(e.hi, i) # Right(new.hi, i)
      BY <1>1, <3>1 DEF Fits
    <3>3. i \in l .. MaxLevels - 2
      BY LevelsNat
    <3> QED
      BY <3>2, <3>3
  <2>2. CASE Right(e.hi, l) # Right(new.hi, l)
    <3>1. l \in l .. MaxLevels - 2
      BY LevelsNat
    <3> QED
      BY <2>2, <3>1
  <2> QED
    BY <2>1, <2>2
<1> SUFFICES ASSUME NEW e \in s \cup {new}, NEW f \in s \cup {new}, e # f
             PROVE  \E i \in l .. MaxLevels - 2 : Right(e.hi, i) # Right(f.hi, i)
  BY DEF Fits
<1>2. CASE e \in s /\ f \in s
  BY <1>2 DEF Fits
<1>3. CASE f = new
  BY <1>1, <1>3
<1>4. CASE e = new
  BY <1>1, <1>4
<1> QED
  BY <1>2, <1>3, <1>4

(* The types of the nodes, once they are stored.                           *)
LEMMA TreeType ==
    ASSUME NEW s \in SUBSET Leaves, NEW l \in Levels, Fits(s, l), Held[l][s] \subseteq nodes
    PROVE  /\ s = {} => Tree[l][s] = HashZero /\ TypeOf(Tree[l][s]) = "empty"
           /\ \A e : s = {e} => /\ Tree[l][s] = e /\ e \in nodes /\ e \in Leaves
                                /\ TypeOf(Tree[l][s]) = "leaf"
           /\ Many(s) => TypeOf(Tree[l][s]) = "middle" /\ Tree[l][s] \in nodes
<1>1. CASE s = {}
  BY <1>1, TreeEmpty, Zenon DEF TypeOf, Many
<1>2. ASSUME NEW e, s = {e}
      PROVE  /\ Tree[l][s] = e /\ e \in nodes /\ e \in Leaves
             /\ TypeOf(Tree[l][s]) = "leaf"
  <2>1. e \in Leaves
    BY <1>2
  <2>2. Tree[l][s] = e /\ e \in nodes
    BY <1>2, <2>1, TreeOne
  <2> QED
    BY <2>1, <2>2, LeafFacts DEF TypeOf
<1>3. CASE Many(s)
  <2>1. l < MaxLevels
    BY <1>3, FitsMany, LevelsNat
  <2>2. Tree[l][s] \in nodes
    BY <1>3, <2>1, TreeMany
  <2>3. PICK hi, k, other : Tree[l][s] = Beside(hi, l, k, other)
    BY <1>3, <2>1, TreeMany
  <2> QED
    BY <1>3, <2>2, <2>3, BesideFacts DEF TypeOf, Many
<1>4. Many(s) \/ s = {} \/ \E e : s = {e}
  BY DEF Many
<1> QED
  BY <1>1, <1>2, <1>3, <1>4 DEF Many

-----------------------------------------------------------------------------
(* The way down through a stored tree.                                     *)
Stored(s, lvl) == s \in SUBSET Leaves /\ Fits(s, lvl) /\ Held[lvl][s] \subseteq nodes

(* The leaves whose path agrees with that of hi above a level.             *)
Under(s, hi, lvl) == {e \in s : \A i \in 0 .. lvl - 1 : Right(e.hi, i) = Right(hi, i)}

(* The way down along the path of hi gets as far as a level.               *)
Reaches(s, hi, lvl) == \A j \in 0 .. lvl - 1 : Many(Under(s, hi, j))

LEMMA StoredOne ==
    ASSUME NEW l \in Levels, NEW e, Stored({e}, l)
    PROVE  Tree[l][{e}] = e /\ e \in nodes /\ e \in Leaves /\ TypeOf(e) = "leaf"
BY TreeType DEF Stored

LEMMA StoredSides ==
    ASSUME NEW s, NEW l \in Levels, Stored(s, l), Many(s)
    PROVE  /\ l + 1 \in Levels
           /\ Stored(Side(s, l, FALSE), l + 1) /\ Stored(Side(s, l, TRUE), l + 1)
<1>1. s \in SUBSET Leaves /\ Fits(s, l) /\ Held[l][s] \subseteq nodes
  BY DEF Stored
<1>2. l + 1 \in Levels /\ l < MaxLevels
  BY <1>1, FitsMany, LevelsNat
<1>3. /\ Held[l + 1][Side(s, l, FALSE)] \subseteq nodes
      /\ Held[l + 1][Side(s, l, TRUE)] \subseteq nodes
  BY <1>1, <1>2, TreeSides
<1>4. Side(s, l, FALSE) \in SUBSET Leaves /\ Side(s, l, TRUE) \in SUBSET Leaves
  BY <1>1 DEF Side
<1>5. Fits(Side(s, l, FALSE), l + 1)
  BY <1>1, FitsSide
<1>6. Fits(Side(s, l, TRUE), l + 1)
  BY <1>1, FitsSide
<1> QED
  BY <1>2, <1>3, <1>4, <1>5, <1>6 DEF Stored

LEMMA StoredSide ==
    ASSUME NEW s, NEW l \in Levels, Stored(s, l), Many(s), NEW hi
    PROVE  /\ l + 1 \in Levels
           /\ Stored(Side(s, l, Right(hi, l)), l + 1)
           /\ Stored(Side(s, l, ~Right(hi, l)), l + 1)
<1>1. CASE Right(hi, l) = TRUE /\ (~Right(hi, l)) = FALSE
  BY <1>1, StoredSides
<1>2. CASE Right(hi, l) = FALSE /\ (~Right(hi, l)) = TRUE
  BY <1>2, StoredSides
<1> QED
  BY <1>1, <1>2, RightBool

LEMMA UnderFacts ==
    ASSUME NEW s, NEW hi, NEW l
    PROVE  Under(s, hi, 0) = s /\ Under(s, hi, l) \subseteq s
BY DEF Under

LEMMA UnderStep ==
    ASSUME NEW s, NEW hi, NEW l \in Nat
    PROVE  Under(s, hi, l + 1) = Side(Under(s, hi, l), l, Right(hi, l))
<1>1. 0 .. (l + 1) - 1 = (0 .. l - 1) \cup {l}
  OBVIOUS
<1> QED
  BY <1>1 DEF Under, Side

LEMMA StoredUnder ==
    ASSUME NEW s, NEW hi, Stored(s, 0)
    PROVE  \A l \in Levels : Reaches(s, hi, l) => Stored(Under(s, hi, l), l)
<1> DEFINE S == {l \in Levels : Reaches(s, hi, l) => Stored(Under(s, hi, l), l)}
<1>1. 0 \in S
  BY UnderFacts, LevelsNat
<1>2. ASSUME NEW l \in 0 .. MaxLevels, l < MaxLevels, l \in S PROVE l + 1 \in S
  <2> SUFFICES ASSUME Reaches(s, hi, l + 1) PROVE Stored(Under(s, hi, l + 1), l + 1)
    BY <1>2, LevelsNat
  <2>1. Reaches(s, hi, l) /\ Many(Under(s, hi, l)) /\ l \in Nat
    BY DEF Reaches
  <2>2. Stored(Under(s, hi, l), l) /\ l \in Levels
    BY <1>2, <2>1
  <2>3. Under(s, hi, l + 1) = Side(Under(s, hi, l), l, Right(hi, l))
    BY <2>1, UnderStep
  <2>4. Stored(Side(Under(s, hi, l), l, Right(hi, l)), l + 1)
    BY <2>1, <2>2, StoredSide
  <2> QED
    BY <2>3, <2>4
<1> HIDE DEF S
<1>3. \A l \in 0 .. MaxLevels : l \in S
  BY <1>1, <1>2, LevelsNat, UpInduction
<1> QED
  BY <1>3, LevelsNat DEF S

(* The path has the trees of the leaves under hi, down to the first that   *)
(* is not a middle node.                                                   *)
LEMMA PathTree ==
    ASSUME NEW s, NEW hi, Stored(s, 0)
    PROVE  \A l \in Levels : \E d \in 0 .. l :
              /\ Reaches(s, hi, d)
              /\ d = l \/ ~Many(Under(s, hi, d))
              /\ Path(Tree[0][s], hi)[l] = Tree[d][Under(s, hi, d)]
<1> DEFINE at == Path(Tree[0][s], hi)
           Q(l, d) == /\ Reaches(s, hi, d)
                      /\ d = l \/ ~Many(Under(s, hi, d))
                      /\ at[l] = Tree[d][Under(s, hi, d)]
           S == {l \in Levels : \E d \in 0 .. l : Q(l, d)}
<1>1. 0 \in S
  <2>1. Q(0, 0)
    BY UnderFacts, PathDef DEF Reaches
  <2> QED
    BY <2>1, LevelsNat
<1>2. ASSUME NEW l \in 0 .. MaxLevels, l < MaxLevels, l \in S PROVE l + 1 \in S
  <2>1. PICK d \in 0 .. l : Q(l, d)
    BY <1>2
  <2> DEFINE u == Under(s, hi, d)
  <2>2. d \in Levels /\ l \in Levels /\ l + 1 \in Levels /\ d \in Nat
    BY <1>2, LevelsNat
  <2>3. Stored(u, d)
    BY <2>1, <2>2, StoredUnder
  <2>4. at[l] = Tree[d][u] /\ Reaches(s, hi, d)
    BY <2>1
  <2>5. at[l + 1] = IF TypeOf(at[l]) = "middle" THEN OnPath(at[l], hi, l) ELSE at[l]
    BY <1>2, <2>2, PathDef
  <2>6. CASE Many(u)
    <3>1. d = l
      BY <2>1, <2>6
    <3>2. TypeOf(at[l]) = "middle"
      BY <2>2, <2>3, <2>4, <2>6, TreeType DEF Stored
    <3>3. at[l] = Beside(hi, l, Tree[l + 1][Side(u, l, Right(hi, l))],
                                Tree[l + 1][Side(u, l, ~Right(hi, l))])
      BY <1>2, <2>2, <2>3, <2>4, <2>6, <3>1, TreeMany DEF Stored
    <3>4. at[l + 1] = Tree[l + 1][Side(u, l, Right(hi, l))]
      BY <2>5, <3>2, <3>3, BesideFacts
    <3>5. at[l + 1] = Tree[l + 1][Under(s, hi, l + 1)]
      <4>1. Under(s, hi, l + 1) = Side(Under(s, hi, l), l, Right(hi, l))
        BY <2>2, UnderStep
      <4> QED
        BY <3>1, <3>4, <4>1
    <3>6. Reaches(s, hi, l + 1)
      BY <2>4, <2>6, <3>1 DEF Reaches
    <3>7. Q(l + 1, l + 1) /\ l + 1 \in 0 .. l + 1
      BY <3>5, <3>6
    <3> QED
      BY <2>2, <3>7
  <2>7. CASE ~Many(u)
    <3>1. u = {} \/ \E e : u = {e}
      BY <2>7 DEF Many
    <3>2. TypeOf(at[l]) # "middle"
      BY <2>2, <2>3, <2>4, <3>1, TreeType DEF Stored
    <3>3. at[l + 1] = at[l]
      BY <2>5, <3>2
    <3>4. Q(l + 1, d) /\ d \in 0 .. l + 1
      BY <2>2, <2>4, <2>7, <3>3
    <3> QED
      BY <2>2, <3>4
  <2> QED
    BY <2>6, <2>7
<1> HIDE DEF S
<1>3. \A l \in 0 .. MaxLevels : l \in S
  BY <1>1, <1>2, LevelsNat, UpInduction
<1> QED
  BY <1>3, LevelsNat DEF S

LEMMA PathAt ==
    ASSUME NEW s, NEW hi, Stored(s, 0), NEW l \in Levels, Reaches(s, hi, l)
    PROVE  Path(Tree[0][s], hi)[l] = Tree[l][Under(s, hi, l)]
<1>1. PICK d \in 0 .. l : /\ d = l \/ ~Many(Under(s, hi, d))
                          /\ Path(Tree[0][s], hi)[l] = Tree[d][Under(s, hi, d)]
  BY PathTree
<1>2. d < l => Many(Under(s, hi, d))
  BY LevelsNat DEF Reaches
<1>3. d = l
  BY <1>1, <1>2, LevelsNat
<1> QED
  BY <1>1, <1>3

(* At the last level the path is at a leaf, the only one under hi at the   *)
(* level where it was met, or at the empty node, with no leaf under hi.    *)
LEMMA PathEnd ==
    ASSUME NEW s, NEW hi, Stored(s, 0)
    PROVE  \E d \in 0 .. MaxLevels - 1 :
              /\ Reaches(s, hi, d) /\ ~Many(Under(s, hi, d)) /\ Stored(Under(s, hi, d), d)
              /\ Path(Tree[0][s], hi)[MaxLevels - 1] = Tree[d][Under(s, hi, d)]
<1>1. MaxLevels - 1 \in Levels
  BY LevelsNat
<1>2. PICK d \in 0 .. MaxLevels - 1 :
         /\ Reaches(s, hi, d)
         /\ d = MaxLevels - 1 \/ ~Many(Under(s, hi, d))
         /\ Path(Tree[0][s], hi)[MaxLevels - 1] = Tree[d][Under(s, hi, d)]
  BY <1>1, PathTree
<1>3. d \in Levels
  BY LevelsNat
<1>4. Stored(Under(s, hi, d), d)
  BY <1>2, <1>3, StoredUnder
<1>5. ~Many(Under(s, hi, d))
  BY <1>2, <1>3, <1>4, FitsMany, LevelsNat DEF Stored
<1> QED
  BY <1>2, <1>4, <1>5

-----------------------------------------------------------------------------
(* An insertion.                                                           *)

(* What an insertion of new below a node with the leaves s has to lead to. *)
Inserted(add, s, new, lvl) ==
    /\ add.key = Tree[lvl][s \cup {new}]
    /\ Held[lvl][s \cup {new}] \subseteq nodes \cup add.put
    /\ add.put \subseteq Held[lvl][s \cup {new}]
    /\ Fits(s \cup {new}, lvl)
    /\ add.key \notin nodes
    /\ new \notin s

LEMMA AddNodeOk ==
    ASSUME NEW k, NEW put
    PROVE  /\ addNode(k, put).err = "ok" => /\ k \notin nodes /\ addNode(k, put).key = k
                                            /\ addNode(k, put).put = put \cup {k}
           /\ k \notin nodes /\ k \notin put => addNode(k, put).err = "ok"
           /\ addNode(k, put).err \in {"ok", "nodeexists"}
BY DEF addNode, Failed

LEMMA FailedErr == ASSUME NEW err PROVE Failed(err).err = err
BY DEF Failed

LEMMA AddAlone ==
    ASSUME NEW l \in Levels, NEW new \in Leaves, addNode(new, {}).err = "ok"
    PROVE  Inserted(addNode(new, {}), {}, new, l)
<1>1. {} \cup {new} = {new}
  OBVIOUS
<1>2. Fits({new}, l)
  BY DEF Fits
<1>3. new \notin nodes /\ addNode(new, {}).key = new /\ addNode(new, {}).put = {new}
  BY AddNodeOk
<1>4. Tree[l][{new}] = new /\ Held[l][{new}] = {new}
  BY TreeOne
<1> QED
  BY <1>1, <1>2, <1>3, <1>4 DEF Inserted

LEMMA AddSides ==
    ASSUME NEW s \in SUBSET Leaves, NEW new \in Leaves, NEW l
    PROVE  /\ Side(s \cup {new}, l, Right(new.hi, l)) = Side(s, l, Right(new.hi, l)) \cup {new}
           /\ Side(s \cup {new}, l, ~Right(new.hi, l)) = Side(s, l, ~Right(new.hi, l))
<1>1. Right(new.hi, l) # ~Right(new.hi, l)
  BY RightBool
<1> QED
  BY <1>1 DEF Side

(* From the level below to this one.                                       *)
LEMMA Combine ==
    ASSUME NEW s \in SUBSET Leaves, NEW l \in Levels, l < MaxLevels - 1, Fits(s, l), s # {},
           NEW new \in Leaves, NEW next, NEW other,
           next.err = "ok" => Inserted(next, Side(s, l, Right(new.hi, l)), new, l + 1),
           other = Tree[l + 1][Side(s, l, ~Right(new.hi, l))],
           Held[l + 1][Side(s, l, ~Right(new.hi, l))] \subseteq nodes,
           Then(next, Beside(new.hi, l, next.key, other)).err = "ok"
    PROVE  Inserted(Then(next, Beside(new.hi, l, next.key, other)), s, new, l)
<1> DEFINE t == s \cup {new}
           b == Right(new.hi, l)
           k == Beside(new.hi, l, next.key, other)
           res == Then(next, k)
<1>1. next.err = "ok" /\ res = addNode(k, next.put)
  BY DEF Then
<1>2. k \notin nodes /\ res.key = k /\ res.put = next.put \cup {k}
  BY <1>1, AddNodeOk
<1>3. /\ next.key = Tree[l + 1][Side(s, l, b) \cup {new}]
      /\ Held[l + 1][Side(s, l, b) \cup {new}] \subseteq nodes \cup next.put
      /\ next.put \subseteq Held[l + 1][Side(s, l, b) \cup {new}]
      /\ Fits(Side(s, l, b) \cup {new}, l + 1)
  BY <1>1 DEF Inserted
<1>4. t \in SUBSET Leaves /\ Many(t) /\ l < MaxLevels /\ new \notin s
  <2>1. new \notin s
    BY <1>1, Zenon DEF Inserted, Side
  <2> QED
    BY <2>1, LevelsNat DEF Many
<1>5. Side(t, l, b) = Side(s, l, b) \cup {new} /\ Side(t, l, ~b) = Side(s, l, ~b)
  BY AddSides
<1>6. /\ Tree[l][t] = Beside(new.hi, l, Tree[l + 1][Side(t, l, b)], Tree[l + 1][Side(t, l, ~b)])
      /\ Held[l][t] = {Tree[l][t]} \cup Held[l + 1][Side(t, l, b)]
                                   \cup Held[l + 1][Side(t, l, ~b)]
  BY <1>4, TreeMany
<1>7. Tree[l][t] = k
  BY <1>3, <1>5, <1>6
<1>8. Held[l][t] = {k} \cup Held[l + 1][Side(s, l, b) \cup {new}]
                       \cup Held[l + 1][Side(s, l, ~b)]
  BY <1>5, <1>6, <1>7
<1>9. Fits(t, l)
  BY <1>3, FitsAdd
<1> QED
  BY <1>2, <1>3, <1>4, <1>7, <1>8, <1>9 DEF Inserted

LEMMA PushInserts ==
    ASSUME NEW new \in Leaves, NEW old \in Leaves, new.hi # old.hi, old \in nodes
    PROVE  \A l \in Levels : pushLeaf(new, old)[l].err = "ok" =>
              Inserted(pushLeaf(new, old)[l], {old}, new, l)
<1> DEFINE push == pushLeaf(new, old)
           S == {l \in Levels : push[l].err = "ok" => Inserted(push[l], {old}, new, l)}
<1>1. MaxLevels \in S
  BY PushDef, LevelsNat, FailedErr DEF TooDeep
<1>2. ASSUME NEW l \in 0 .. MaxLevels, l < MaxLevels, l + 1 \in S PROVE l \in S
  <2> SUFFICES ASSUME push[l].err = "ok" PROVE Inserted(push[l], {old}, new, l)
    BY LevelsNat
  <2> DEFINE b == Right(new.hi, l)
  <2>1. l \in Levels /\ l + 1 \in Levels
    BY <1>2, LevelsNat
  <2>2. ~TooDeep(l)
    BY <2>1, PushDef, FailedErr
  <2>3. l < MaxLevels - 1
    BY <2>1, <2>2, LevelsNat DEF TooDeep
  <2>4. {old} \in SUBSET Leaves /\ Fits({old}, l) /\ {old} # {}
    BY DEF Fits
  <2>5. CASE Right(new.hi, l) = Right(old.hi, l)
    <3>1. push[l] = Then(push[l + 1], Beside(new.hi, l, push[l + 1].key, HashZero))
      BY <2>1, <2>2, <2>5, PushDef
    <3>2. Side({old}, l, b) = {old} /\ Side({old}, l, ~b) = {}
      BY <2>5, RightBool DEF Side
    <3>3. HashZero = Tree[l + 1][{}] /\ Held[l + 1][{}] \subseteq nodes
      BY <2>1, TreeEmpty
    <3>4. push[l + 1].err = "ok" => Inserted(push[l + 1], {old}, new, l + 1)
      BY <1>2
    <3> HIDE DEF push
    <3> QED
      BY <2>1, <2>3, <2>4, <3>1, <3>2, <3>3, <3>4, Combine
  <2>6. CASE Right(new.hi, l) # Right(old.hi, l)
    <3>1. push[l] = Then(addNode(new, {}), Beside(new.hi, l, new, old))
      BY <2>1, <2>2, <2>6, PushDef
    <3>2. Side({old}, l, b) = {} /\ Side({old}, l, ~b) = {old}
      BY <2>6, RightBool DEF Side
    <3>3. old = Tree[l + 1][{old}] /\ Held[l + 1][{old}] \subseteq nodes
      <4>1. Tree[l + 1][{old}] = old /\ Held[l + 1][{old}] = {old}
        BY <2>1, TreeOne
      <4> QED
        BY <4>1
    <3>4. addNode(new, {}).err = "ok" => Inserted(addNode(new, {}), {}, new, l + 1)
      BY <2>1, AddAlone
    <3>5. addNode(new, {}).err = "ok" /\ addNode(new, {}).key = new
      <4>1. addNode(new, {}).err = "ok"
        BY <3>1 DEF Then
      <4> QED
        BY <4>1, AddNodeOk
    <3> DEFINE next == addNode(new, {})
    <3>6. push[l] = Then(next, Beside(new.hi, l, next.key, old))
      BY <3>1, <3>5
    <3>7. /\ Inserted(next, Side({old}, l, b), new, l + 1)
          /\ old = Tree[l + 1][Side({old}, l, ~b)]
          /\ Held[l + 1][Side({old}, l, ~b)] \subseteq nodes
      BY <3>2, <3>3, <3>4, <3>5
    <3> HIDE DEF push, next
    <3> QED
      BY <2>1, <2>3, <2>4, <3>6, <3>7, Combine
  <2> QED
    BY <2>5, <2>6
<1> HIDE DEF S
<1>3. \A l \in 0 .. MaxLevels : l \in S
  BY <1>1, <1>2, LevelsNat, DownInduction
<1> QED
  BY <1>3, LevelsNat DEF S

(* addLeaf below the root of a stored tree leads to the tree with the leaf *)
(* and to all its nodes.                                                   *)
LEMMA AddInsertsBelow ==
    ASSUME NEW s, Stored(s, 0), NEW new \in Leaves
    PROVE  \A l \in Levels :
              Reaches(s, new.hi, l) /\ addLeaf(new, Tree[0][s])[l].err = "ok" =>
                 Inserted(addLeaf(new, Tree[0][s])[l], Under(s, new.hi, l), new, l)
<1> DEFINE add == addLeaf(new, Tree[0][s])
           at == Path(Tree[0][s], new.hi)
           U(l) == Under(s, new.hi, l)
           S == {l \in Levels : Reaches(s, new.hi, l) /\ add[l].err = "ok"
                                  => Inserted(add[l], U(l), new, l)}
<1>1. MaxLevels \in S
  <2>1. MaxLevels \in Levels /\ MaxLevels > MaxLevels - 1
    BY LevelsNat
  <2>2. add[MaxLevels] = Failed("maxlevel")
    BY <2>1, AddDef
  <2> QED
    BY <2>1, <2>2, FailedErr
<1>2. ASSUME NEW l \in 0 .. MaxLevels, l < MaxLevels, l + 1 \in S PROVE l \in S
  <2> SUFFICES ASSUME Reaches(s, new.hi, l), add[l].err = "ok"
               PROVE  Inserted(add[l], U(l), new, l)
    BY LevelsNat
  <2>1. l \in Levels /\ l + 1 \in Levels /\ ~(l > MaxLevels - 1) /\ l \in Nat
    BY <1>2, LevelsNat
  <2>2. Stored(U(l), l)
    BY <2>1, StoredUnder
  <2>3. at[l] = Tree[l][U(l)]
    BY <2>1, PathAt
  <2>4. CASE U(l) = {}
    <3>1. TypeOf(at[l]) = "empty"
      BY <2>1, <2>2, <2>3, <2>4, TreeType DEF Stored
    <3>2. add[l] = addNode(new, {})
      BY <2>1, <3>1, AddDef
    <3> QED
      BY <2>1, <2>4, <3>2, AddAlone
  <2>5. ASSUME NEW e, U(l) = {e} PROVE Inserted(add[l], U(l), new, l)
    <3>1. at[l] = e /\ e \in nodes /\ e \in Leaves /\ TypeOf(at[l]) = "leaf"
      <4>1. Stored({e}, l) /\ at[l] = Tree[l][{e}]
        BY <2>2, <2>3, <2>5
      <4> QED
        BY <2>1, <4>1, StoredOne
    <3>2. add[l] = IF e.hi = new.hi THEN Failed("exists") ELSE pushLeaf(new, e)[l]
      BY <2>1, <3>1, AddDef
    <3>3. new.hi # e.hi /\ add[l] = pushLeaf(new, e)[l]
      BY <3>2, FailedErr
    <3> QED
      BY <2>1, <2>5, <3>1, <3>3, PushInserts
  <2>6. CASE Many(U(l))
    <3> DEFINE b == Right(new.hi, l)
    <3>1. TypeOf(at[l]) = "middle" /\ U(l) \in SUBSET Leaves /\ Fits(U(l), l)
      BY <2>1, <2>2, <2>3, <2>6, TreeType DEF Stored
    <3>2. add[l] = Then(add[l + 1], Beside(new.hi, l, add[l + 1].key, OffPath(at[l], new.hi, l)))
      BY <2>1, <3>1, AddDef
    <3>3. at[l] = Beside(new.hi, l, Tree[l + 1][Side(U(l), l, b)],
                                    Tree[l + 1][Side(U(l), l, ~b)])
      BY <1>2, <2>1, <2>3, <2>6, <3>1, TreeMany
    <3>4. OffPath(at[l], new.hi, l) = Tree[l + 1][Side(U(l), l, ~b)]
      BY <3>3, BesideFacts
    <3>5. U(l + 1) = Side(U(l), l, b)
      BY <2>1, UnderStep
    <3>6. Reaches(s, new.hi, l + 1)
      BY <2>1, <2>6 DEF Reaches
    <3>7. add[l + 1].err = "ok" => Inserted(add[l + 1], Side(U(l), l, b), new, l + 1)
      BY <1>2, <3>5, <3>6
    <3>8. add[l + 1].err = "ok"
      BY <3>2 DEF Then
    <3>9. Held[l + 1][Side(U(l), l, ~b)] \subseteq nodes
      BY <2>1, <2>2, <2>6, StoredSide DEF Stored
    <3>10. l < MaxLevels - 1 /\ U(l) # {}
      BY <2>1, <2>6, <3>1, FitsMany DEF Many
    <3> HIDE DEF add, at, U, b
    <3> QED
      BY <2>1, <3>1, <3>2, <3>4, <3>7, <3>9, <3>10, Combine DEF b
  <2> QED
    BY <2>4, <2>5, <2>6 DEF Many
<1> HIDE DEF S
<1>3. \A l \in 0 .. MaxLevels : l \in S
  BY <1>1, <1>2, LevelsNat, DownInduction
<1> QED
  BY <1>3, LevelsNat DEF S

LEMMA AddInserts ==
    ASSUME NEW s, Stored(s, 0), NEW new \in Leaves, addLeaf(new, Tree[0][s])[0].err = "ok"
    PROVE  Inserted(addLeaf(new, Tree[0][s])[0], s, new, 0)
<1>1. 0 \in Levels /\ Reaches(s, new.hi, 0) /\ Under(s, new.hi, 0) = s
  BY LevelsNat, UnderFacts DEF Reaches
<1> QED
  BY <1>1, AddInsertsBelow

-----------------------------------------------------------------------------
(* The nodes of a tree.                                                    *)
LEMMA EmptyOneMany == ASSUME NEW s PROVE s = {} \/ (\E e \in s : s = {e}) \/ Many(s)
BY DEF Many

LEMMA TreeKind ==
    ASSUME NEW s \in SUBSET Leaves, NEW l \in Levels, Fits(s, l), s # {}
    PROVE  /\ Tree[l][s] \in Leaves \/ (Many(s) /\ Tree[l][s].type = "middle")
           /\ Tree[l][s] # HashZero /\ Tree[l][s] # None
           /\ Tree[l][s] \in Held[l][s]
<1>1. ASSUME NEW e \in s, s = {e}
      PROVE  Tree[l][s] \in Leaves /\ Tree[l][s] \in Held[l][s]
  BY <1>1, TreeOne
<1>2. CASE Many(s)
  <2>1. l < MaxLevels
    BY <1>2, FitsMany, LevelsNat
  <2>2. PICK hi, k, other : Tree[l][s] = Beside(hi, l, k, other)
    BY <1>2, <2>1, TreeMany
  <2>3. Tree[l][s] \in Held[l][s]
    BY <1>2, <2>1, TreeMany
  <2> QED
    BY <1>2, <2>2, <2>3, BesideFacts
<1> QED
  BY <1>1, <1>2, EmptyOneMany, LeafFacts

(* The leaves of w have the same path between two levels.                  *)
Together(w, l, j) == \A i \in l .. j - 1 : \A e, f \in w : Right(e.hi, i) = Right(f.hi, i)

(* Every node of a tree is the tree of some of its leaves, which have the  *)
(* same path down to it.                                                   *)
LEMMA HeldBelow ==
    \A l \in Levels : \A s \in SUBSET Leaves : Fits(s, l) =>
       \A k \in Held[l][s] : \E j \in Levels, w \in SUBSET s :
          w # {} /\ Fits(w, j) /\ k = Tree[j][w] /\ l <= j /\ Together(w, l, j)
<1> DEFINE Sub(k, s, l) ==
             \E j \in Levels, w \in SUBSET s :
                w # {} /\ Fits(w, j) /\ k = Tree[j][w] /\ l <= j /\ Together(w, l, j)
           S == {l \in Levels : \A s \in SUBSET Leaves : Fits(s, l) =>
                                   \A k \in Held[l][s] : Sub(k, s, l)}
<1>1. ASSUME NEW l \in Levels, NEW s \in SUBSET Leaves, Fits(s, l), s # {}
      PROVE  Sub(Tree[l][s], s, l)
  <2>1. s \in SUBSET s /\ l <= l /\ Together(s, l, l)
    BY LevelsNat DEF Together
  <2> QED
    BY <1>1, <2>1
<1>2. ASSUME NEW l \in Levels, NEW s \in SUBSET Leaves, Fits(s, l), ~Many(s), NEW k \in Held[l][s]
      PROVE  Sub(k, s, l)
  <2>1. s # {}
    BY <1>2, TreeEmpty
  <2>2. PICK e \in s : s = {e}
    BY <1>2, <2>1, EmptyOneMany
  <2>3. k = Tree[l][s]
    <3>1. Tree[l][{e}] = e /\ Held[l][{e}] = {e}
      BY TreeOne
    <3> QED
      BY <1>2, <2>2, <3>1
  <2> HIDE DEF Sub
  <2> QED
    BY <1>1, <1>2, <2>1, <2>3
<1>3. MaxLevels \in S
  <2>1. \A s \in SUBSET Leaves : Fits(s, MaxLevels) => ~Many(s)
    BY FitsMany, LevelsNat
  <2> HIDE DEF Sub
  <2> QED
    BY <1>2, <2>1, LevelsNat
<1>4. ASSUME NEW l \in 0 .. MaxLevels, l < MaxLevels, l + 1 \in S PROVE l \in S
  <2> SUFFICES ASSUME NEW s \in SUBSET Leaves, Fits(s, l), NEW k \in Held[l][s]
               PROVE  Sub(k, s, l)
    BY LevelsNat
  <2>1. l \in Levels /\ l + 1 \in Levels
    BY <1>4, LevelsNat
  <2>2. CASE ~Many(s)
    <3> HIDE DEF Sub
    <3> QED
      BY <1>2, <2>1, <2>2
  <2>3. CASE Many(s)
    <3> DEFINE b == Right(0, l)
    <3>1. Held[l][s] = {Tree[l][s]} \cup Held[l + 1][Side(s, l, b)]
                                    \cup Held[l + 1][Side(s, l, ~b)]
      BY <1>4, <2>1, <2>3, TreeMany
    <3>2. b \in BOOLEAN /\ (~b) \in BOOLEAN
      BY RightBool
    <3>3. CASE k = Tree[l][s]
      <4>1. s # {}
        BY <2>3 DEF Many
      <4> HIDE DEF Sub
      <4> QED
        BY <1>1, <2>1, <3>3, <4>1
    <3>4. ASSUME NEW c \in BOOLEAN, k \in Held[l + 1][Side(s, l, c)] PROVE Sub(k, s, l)
      <4>1. Side(s, l, c) \in SUBSET Leaves /\ Side(s, l, c) \in SUBSET s
        BY DEF Side
      <4>2. Fits(Side(s, l, c), l + 1)
        BY <2>1, FitsSide
      <4>3. Sub(k, Side(s, l, c), l + 1)
        BY <1>4, <3>4, <4>1, <4>2
      <4>4. PICK j \in Levels, w \in SUBSET Side(s, l, c) :
               w # {} /\ Fits(w, j) /\ k = Tree[j][w] /\ l + 1 <= j /\ Together(w, l + 1, j)
        BY <4>3
      <4>5. \A e, f \in w : Right(e.hi, l) = Right(f.hi, l)
        BY DEF Side
      <4>6. Together(w, l, j)
        <5>1. \A i \in l .. j - 1 : i = l \/ i \in l + 1 .. j - 1
          BY <2>1, LevelsNat
        <5> QED
          BY <4>4, <4>5, <5>1 DEF Together
      <4>7. w \in SUBSET s /\ l <= j
        BY <4>1, <4>4, LevelsNat
      <4> QED
        BY <4>4, <4>6, <4>7
    <3> HIDE DEF Sub, b
    <3> QED
      BY <3>1, <3>2, <3>3, <3>4
  <2> QED
    BY <2>2, <2>3
<1> HIDE DEF S
<1>5. \A l \in 0 .. MaxLevels : l \in S
  BY <1>3, <1>4, LevelsNat, DownInduction
<1> QED
  BY <1>5, LevelsNat DEF S

LEMMA HeldTree ==
    \A l \in Levels : \A s \in SUBSET Leaves : Fits(s, l) =>
       \A k \in Held[l][s] : \E j \in Levels, w \in SUBSET s :
          w # {} /\ Fits(w, j) /\ k = Tree[j][w]
BY HeldBelow

(* Different sets have different trees, at whatever levels they are.       *)
LEMMA TreeInjective ==
    \A l \in Levels : \A j \in Levels, s, t \in SUBSET Leaves :
       Fits(s, l) /\ Fits(t, j) /\ Tree[l][s] = Tree[j][t] => s = t
<1> DEFINE S == {l \in Levels : \A j \in Levels, s, t \in SUBSET Leaves :
                    Fits(s, l) /\ Fits(t, j) /\ Tree[l][s] = Tree[j][t] => s = t}
<1>1. ASSUME NEW l \in Levels, NEW j \in Levels, NEW s \in SUBSET Leaves, NEW t \in SUBSET Leaves,
             Fits(s, l), Fits(t, j), Tree[l][s] = Tree[j][t], ~Many(s)
      PROVE  s = t
  <2>1. CASE s = {}
    BY <1>1, <2>1, TreeEmpty, TreeKind
  <2>2. ASSUME NEW e \in s, s = {e} PROVE s = t
    <3>1. Tree[j][t] = e /\ e \in Leaves /\ e # HashZero
      BY <1>1, <2>2, TreeOne, LeafFacts
    <3>2. t # {}
      BY <3>1, TreeEmpty
    <3>3. ~Many(t)
      BY <1>1, <3>1, LeafFacts, FitsMany, TreeMany, BesideFacts, LevelsNat
    <3>4. PICK f \in t : t = {f}
      BY <3>2, <3>3, EmptyOneMany
    <3> QED
      BY <2>2, <3>1, <3>4, TreeOne
  <2> QED
    BY <1>1, <2>1, <2>2, EmptyOneMany
<1>2. MaxLevels \in S
  <2>1. \A s \in SUBSET Leaves : Fits(s, MaxLevels) => ~Many(s)
    BY FitsMany, LevelsNat
  <2> QED
    BY <1>1, <2>1, LevelsNat
<1>3. ASSUME NEW l \in 0 .. MaxLevels, l < MaxLevels, l + 1 \in S PROVE l \in S
  <2> SUFFICES ASSUME NEW j \in Levels, NEW s \in SUBSET Leaves, NEW t \in SUBSET Leaves,
                      Fits(s, l), Fits(t, j), Tree[l][s] = Tree[j][t]
               PROVE  s = t
    BY LevelsNat
  <2>1. l \in Levels /\ l + 1 \in Levels
    BY <1>3, LevelsNat
  <2>2. CASE ~Many(s)
    BY <1>1, <2>1, <2>2
  <2>3. CASE ~Many(t)
    BY <1>1, <2>1, <2>3
  <2>4. CASE Many(s) /\ Many(t)
    <3>1. j < MaxLevels /\ j + 1 \in Levels
      BY <2>4, FitsMany, LevelsNat
    <3> DEFINE s0 == Side(s, l, FALSE)
               s1 == Side(s, l, TRUE)
               t0 == Side(t, j, FALSE)
               t1 == Side(t, j, TRUE)
    <3>2. /\ s = s0 \cup s1 /\ t = t0 \cup t1
          /\ s0 \in SUBSET Leaves /\ s1 \in SUBSET Leaves
          /\ t0 \in SUBSET Leaves /\ t1 \in SUBSET Leaves
      BY RightBool DEF Side
    <3>3. Fits(s0, l + 1) /\ Fits(s1, l + 1)
      BY <2>1, FitsSide
    <3>4. Fits(t0, j + 1) /\ Fits(t1, j + 1)
      BY FitsSide
    <3>5. Tree[l][s] = Middle(Tree[l + 1][s0], Tree[l + 1][s1])
      BY <1>3, <2>1, <2>4, TreeSides
    <3>6. Tree[j][t] = Middle(Tree[j + 1][t0], Tree[j + 1][t1])
      BY <2>4, <3>1, TreeSides
    <3> HIDE DEF s0, s1, t0, t1
    <3>7. Tree[l + 1][s0] = Tree[j + 1][t0] /\ Tree[l + 1][s1] = Tree[j + 1][t1]
      <4>1. Tree[l][s].l = Tree[l + 1][s0] /\ Tree[l][s].r = Tree[l + 1][s1]
        BY <3>5, MiddleFacts
      <4>2. Tree[j][t].l = Tree[j + 1][t0] /\ Tree[j][t].r = Tree[j + 1][t1]
        BY <3>6, MiddleFacts
      <4> QED
        BY <4>1, <4>2
    <3>8. s0 = t0
      BY <1>3, <3>1, <3>2, <3>3, <3>4, <3>7
    <3>9. s1 = t1
      BY <1>3, <3>1, <3>2, <3>3, <3>4, <3>7
    <3> QED
      BY <3>2, <3>8, <3>9
  <2> QED
    BY <2>2, <2>3, <2>4
<1> HIDE DEF S
<1>4. \A l \in 0 .. MaxLevels : l \in S
  BY <1>2, <1>3, LevelsNat, DownInduction
<1> QED
  BY <1>4, LevelsNat DEF S

(* A tree is not the node of itself further down: whatever the leaves of a *)
(* set share of their paths adds a node to their tree.                     *)
LEMMA TreeNotBelow ==
    \A l \in Levels : \A j \in Levels, t \in SUBSET Leaves :
       l < j /\ Many(t) /\ Fits(t, j) /\ Together(t, l, j) => Tree[l][t] # Tree[j][t]
<1> DEFINE S == {l \in Levels : \A j \in Levels, t \in SUBSET Leaves :
                    l < j /\ Many(t) /\ Fits(t, j) /\ Together(t, l, j) => Tree[l][t] # Tree[j][t]}
<1>1. MaxLevels \in S
  BY LevelsNat
<1>2. ASSUME NEW l \in 0 .. MaxLevels, l < MaxLevels, l + 1 \in S PROVE l \in S
  <2> SUFFICES ASSUME NEW j \in Levels, NEW t \in SUBSET Leaves,
                      l < j, Many(t), Fits(t, j), Together(t, l, j), Tree[l][t] = Tree[j][t]
               PROVE  FALSE
    BY LevelsNat
  <2>1. l \in Levels /\ l + 1 \in Levels /\ j < MaxLevels /\ j + 1 \in Levels /\ l + 1 < j + 1
    BY <1>2, FitsMany, LevelsNat
  <2>2. PICK e \in t : TRUE
    BY DEF Many
  <2>3. \A f \in t : Right(f.hi, l) = Right(e.hi, l)
    BY <2>1, LevelsNat DEF Together
  <2> DEFINE b == Right(e.hi, l)
  <2>4. Side(t, l, b) = t /\ Side(t, l, ~b) = {}
    BY <2>3, RightBool DEF Side
  <2>5. Fits(t, l + 1)
    <3> SUFFICES ASSUME NEW f \in t, NEW g \in t, f # g
                 PROVE  \E i \in l + 1 .. MaxLevels - 2 : Right(f.hi, i) # Right(g.hi, i)
      BY DEF Fits
    <3>1. PICK i \in j .. MaxLevels - 2 : Right(f.hi, i) # Right(g.hi, i)
      BY DEF Fits
    <3>2. i \in l + 1 .. MaxLevels - 2
      BY <2>1, LevelsNat
    <3> QED
      BY <3>1, <3>2
  <2>6. Tree[l][t] = Beside(e.hi, l, Tree[l + 1][t], Tree[l + 1][{}])
    <3>1. Tree[l][t] = Beside(e.hi, l, Tree[l + 1][Side(t, l, b)], Tree[l + 1][Side(t, l, ~b)])
      BY <1>2, <2>1, TreeMany
    <3> QED
      BY <2>4, <3>1
  <2>7. Tree[l][t] = Middle(Tree[j + 1][Side(t, j, FALSE)], Tree[j + 1][Side(t, j, TRUE)])
    BY <2>1, TreeSides
  <2>8. PICK c \in BOOLEAN : Tree[l + 1][t] = Tree[j + 1][Side(t, j, c)]
    <3>1. \/ Tree[l][t] = Middle(Tree[l + 1][{}], Tree[l + 1][t])
          \/ Tree[l][t] = Middle(Tree[l + 1][t], Tree[l + 1][{}])
      BY <2>6 DEF Beside
    <3>2. \/ Tree[l + 1][t] = Tree[j + 1][Side(t, j, FALSE)]
          \/ Tree[l + 1][t] = Tree[j + 1][Side(t, j, TRUE)]
      <4> DEFINE t0 == Side(t, j, FALSE)
                 t1 == Side(t, j, TRUE)
      <4>1. Tree[l][t] = Middle(Tree[j + 1][t0], Tree[j + 1][t1])
        BY <2>7
      <4> HIDE DEF t0, t1
      <4>2. Tree[l][t].l = Tree[j + 1][t0] /\ Tree[l][t].r = Tree[j + 1][t1]
        BY <4>1, MiddleFacts
      <4>3. Tree[l][t].r = Tree[l + 1][t] \/ Tree[l][t].l = Tree[l + 1][t]
        BY <3>1, MiddleFacts
      <4>4. Tree[l + 1][t] = Tree[j + 1][t0] \/ Tree[l + 1][t] = Tree[j + 1][t1]
        BY <4>2, <4>3
      <4> QED
        BY <4>4 DEF t0, t1
    <3> QED
      BY <3>2
  <2>9. Side(t, j, c) \in SUBSET Leaves /\ Fits(Side(t, j, c), j + 1)
    <3>1. Side(t, j, c) \in SUBSET Leaves
      BY DEF Side
    <3> QED
      BY <3>1, FitsSide
  <2>10. t = Side(t, j, c)
    BY <2>1, <2>5, <2>8, <2>9, TreeInjective
  <2>11. Together(t, l + 1, j + 1)
    <3>1. \A f, g \in t : Right(f.hi, j) = Right(g.hi, j)
      BY <2>10 DEF Side
    <3>2. \A i \in l + 1 .. (j + 1) - 1 : i = j \/ i \in l .. j - 1
      BY <2>1, LevelsNat
    <3> QED
      BY <3>1, <3>2 DEF Together
  <2>12. Tree[l + 1][t] = Tree[j + 1][t] /\ Fits(t, j + 1)
    BY <2>8, <2>9, <2>10
  <2> QED
    BY <1>2, <2>1, <2>11, <2>12
<1> HIDE DEF S
<1>3. \A l \in 0 .. MaxLevels : l \in S
  BY <1>1, <1>2, LevelsNat, DownInduction
<1> QED
  BY <1>3, LevelsNat DEF S

LEMMA TreeNotHeld ==
    ASSUME NEW s \in SUBSET Leaves, NEW l \in Levels, l + 1 \in Levels, Many(s), Fits(s, l),
           NEW b \in BOOLEAN
    PROVE  Tree[l][s] \notin Held[l + 1][Side(s, l, b)]
<1> SUFFICES ASSUME Tree[l][s] \in Held[l + 1][Side(s, l, b)] PROVE FALSE
  OBVIOUS
<1>1. Side(s, l, b) \in SUBSET Leaves /\ Fits(Side(s, l, b), l + 1)
  BY FitsSide, SideFacts
<1>2. PICK j \in Levels, w \in SUBSET Side(s, l, b) :
         Fits(w, j) /\ Tree[l][s] = Tree[j][w] /\ l + 1 <= j /\ Together(w, l + 1, j)
  BY <1>1, HeldBelow
<1>3. w \in SUBSET Leaves
  BY <1>1
<1>4. s = w
  BY <1>2, <1>3, TreeInjective
<1>5. \A e, f \in s : Right(e.hi, l) = Right(f.hi, l)
  BY <1>4 DEF Side
<1>6. Together(s, l, j)
  <2>1. \A i \in l .. j - 1 : i = l \/ i \in l + 1 .. j - 1
    BY LevelsNat
  <2> QED
    BY <1>2, <1>4, <1>5, <2>1 DEF Together
<1>7. l < j
  BY <1>2, LevelsNat
<1> QED
  BY <1>2, <1>4, <1>6, <1>7, TreeNotBelow

LEMMA StoredKey == ASSUME NEW l \in Levels, NEW s, Stored(s, l) PROVE Tree[l][s] \in Keys
<1>1. CASE s = {}
  BY <1>1, TreeEmpty DEF Keys
<1>2. CASE s # {}
  BY <1>2, TreeKind DEF Stored, Keys
<1> QED
  BY <1>1, <1>2

(* walk from the root of a stored tree meets its nodes.                    *)
LEMMA WalkHeld == ASSUME NEW s, Stored(s, 0) PROVE walk(Tree[0][s]) = Held[0][s]
<1>1. PICK below :
         /\ \A root : walk(root) = below[0][root]
         /\ \A l \in Levels : below[l] =
              [k \in Keys |-> IF TypeOf(k) = "middle" /\ l < MaxLevels
                              THEN {k} \cup below[l + 1][k.l] \cup below[l + 1][k.r]
                              ELSE {k} \ {HashZero}]
  BY WalkDef
<1>2. \A l \in Levels, k \in Keys :
         below[l][k] = IF TypeOf(k) = "middle" /\ l < MaxLevels
                       THEN {k} \cup below[l + 1][k.l] \cup below[l + 1][k.r]
                       ELSE {k} \ {HashZero}
  BY <1>1, Zenon
<1> DEFINE S == {l \in Levels : \A u \in SUBSET Leaves :
                                   Stored(u, l) => below[l][Tree[l][u]] = Held[l][u]}
<1>3. ASSUME NEW l \in Levels, NEW u \in SUBSET Leaves, Stored(u, l)
      PROVE  Tree[l][u] \in Keys
  BY <1>3, StoredKey
<1>4. ASSUME NEW l \in Levels, NEW u \in SUBSET Leaves, Stored(u, l), ~Many(u)
      PROVE  below[l][Tree[l][u]] = Held[l][u]
  <2>1. Tree[l][u] \in Keys
    BY <1>3, <1>4
  <2>2. CASE u = {}
    <3>1. TypeOf(Tree[l][u]) = "empty" /\ Tree[l][u] = HashZero /\ Held[l][u] = {}
      BY <1>4, <2>2, TreeType, TreeEmpty DEF Stored
    <3> QED
      BY <1>2, <2>1, <3>1
  <2>3. ASSUME NEW e \in u, u = {e} PROVE below[l][Tree[l][u]] = Held[l][u]
    <3>1. Stored({e}, l) /\ Tree[l][u] = Tree[l][{e}] /\ Held[l][u] = Held[l][{e}]
      BY <1>4, <2>3
    <3>2. Tree[l][{e}] = e /\ TypeOf(e) = "leaf" /\ Held[l][{e}] = {e} /\ e # HashZero
      BY <3>1, StoredOne, TreeOne, LeafFacts
    <3>3. below[l][e] = {e} \ {HashZero}
      <4>1. e \in Keys /\ TypeOf(e) # "middle"
        BY <2>1, <3>1, <3>2
      <4> QED
        BY <1>2, <4>1
    <3> QED
      BY <3>1, <3>2, <3>3
  <2> QED
    BY <1>4, <2>2, <2>3, EmptyOneMany
<1>5. MaxLevels \in S
  <2>1. \A u \in SUBSET Leaves : Stored(u, MaxLevels) => ~Many(u)
    BY FitsMany, LevelsNat DEF Stored
  <2> QED
    BY <1>4, <2>1, LevelsNat
<1>6. ASSUME NEW l \in 0 .. MaxLevels, l < MaxLevels, l + 1 \in S PROVE l \in S
  <2> SUFFICES ASSUME NEW u \in SUBSET Leaves, Stored(u, l)
               PROVE  below[l][Tree[l][u]] = Held[l][u]
    BY LevelsNat
  <2>1. l \in Levels /\ l + 1 \in Levels
    BY <1>6, LevelsNat
  <2>2. CASE ~Many(u)
    BY <1>4, <2>1, <2>2
  <2>3. CASE Many(u)
    <3> DEFINE k == Tree[l][u]
    <3>1. k \in Keys /\ TypeOf(k) = "middle"
      BY <1>3, <2>1, <2>3, TreeType DEF Stored
    <3>2. below[l][k] = {k} \cup below[l + 1][k.l] \cup below[l + 1][k.r]
      BY <1>2, <1>6, <2>1, <3>1
    <3> DEFINE u0 == Side(u, l, FALSE)
               u1 == Side(u, l, TRUE)
    <3>3. k = Middle(Tree[l + 1][u0], Tree[l + 1][u1])
      BY <1>6, <2>1, <2>3, TreeSides
    <3>4. Held[l][u] = {k} \cup Held[l + 1][u0] \cup Held[l + 1][u1]
      BY <1>6, <2>1, <2>3, TreeSides
    <3>5. Stored(u0, l + 1) /\ Stored(u1, l + 1)
      BY <2>1, <2>3, StoredSides
    <3> HIDE DEF u0, u1
    <3>6. k.l = Tree[l + 1][u0] /\ k.r = Tree[l + 1][u1]
      BY <3>3, MiddleFacts
    <3>7. below[l + 1][k.l] = Held[l + 1][u0] /\ below[l + 1][k.r] = Held[l + 1][u1]
      BY <1>6, <3>5, <3>6 DEF Stored
    <3> QED
      BY <3>2, <3>4, <3>7
  <2> QED
    BY <2>2, <2>3
<1> HIDE DEF S
<1>7. \A l \in 0 .. MaxLevels : l \in S
  BY <1>5, <1>6, LevelsNat, DownInduction
<1>8. 0 \in S /\ s \in SUBSET Leaves
  BY <1>7, LevelsNat DEF Stored
<1> QED
  BY <1>1, <1>8 DEF S

(* DumpClaims is a sequence of leaves.                                     *)
LEMMA DumpTyped ==
    ASSUME NEW root \in Keys, \A n \in nodes : n \in Leaves \/ n.type = "middle"
    PROVE  DumpClaims(root) \in Seq(Leaves)
<1>1. PICK below :
         /\ \A r : DumpClaims(r) = below[0][r]
         /\ \A l \in Levels : below[l] =
              [k \in Keys |-> IF TypeOf(k) = "middle" /\ l < MaxLevels
                              THEN below[l + 1][k.l] \o below[l + 1][k.r]
                              ELSE IF TypeOf(k) = "leaf" THEN <<k>> ELSE <<>>]
  BY DumpDef
<1> DEFINE S == {l \in Levels : \A k \in Keys : below[l][k] \in Seq(Leaves)}
<1>2. ASSUME NEW k \in Keys PROVE /\ TypeOf(k) = "leaf" => k \in Leaves
                                  /\ TypeOf(k) = "middle" => k.l \in Keys /\ k.r \in Keys
  <2>1. k # HashZero /\ k \notin nodes => TypeOf(k) = "notfound"
    BY DEF TypeOf
  <2>2. k = HashZero => TypeOf(k) = "empty"
    BY DEF TypeOf
  <2>3. k # HashZero /\ k \in nodes => TypeOf(k) = k.type
    BY DEF TypeOf
  <2> QED
    BY <2>1, <2>2, <2>3 DEF Keys
<1>3. ASSUME NEW l \in Levels, NEW k \in Keys, ~(TypeOf(k) = "middle" /\ l < MaxLevels)
      PROVE  below[l][k] \in Seq(Leaves)
  <2>1. below[l][k] = IF TypeOf(k) = "leaf" THEN <<k>> ELSE <<>>
    BY <1>1, <1>3
  <2> QED
    BY <1>2, <2>1
<1>4. MaxLevels \in S
  BY <1>3, LevelsNat
<1>5. ASSUME NEW l \in 0 .. MaxLevels, l < MaxLevels, l + 1 \in S PROVE l \in S
  <2> SUFFICES ASSUME NEW k \in Keys PROVE below[l][k] \in Seq(Leaves)
    BY LevelsNat
  <2>1. l \in Levels
    BY LevelsNat
  <2>2. CASE TypeOf(k) = "middle"
    <3>1. below[l][k] = below[l + 1][k.l] \o below[l + 1][k.r]
      BY <1>1, <1>5, <2>1, <2>2
    <3>2. below[l + 1][k.l] \in Seq(Leaves) /\ below[l + 1][k.r] \in Seq(Leaves)
      BY <1>2, <1>5, <2>2
    <3> QED
      BY <3>1, <3>2
  <2>3. CASE TypeOf(k) # "middle"
    BY <1>3, <2>1, <2>3
  <2> QED
    BY <2>2, <2>3
<1> HIDE DEF S
<1>6. \A l \in 0 .. MaxLevels : l \in S
  BY <1>4, <1>5, LevelsNat, DownInduction
<1> QED
  BY <1>1, <1>6, LevelsNat DEF S

-----------------------------------------------------------------------------
(* The inductive invariant.                                                *)

(* Every version has its tree in the storage, and its root is that of the  *)
(* tree of its entries.                                                    *)
VersionsStored == \A v \in versions : Stored(v.entries, 0) /\ v.root = Tree[0][v.entries]

EmptyVersion == [root |-> HashZero, entries |-> {}] \in versions

(* The storage has nothing that is not a node of a version.                *)
NodesHeld == \A n \in nodes : \E v \in versions : n \in Held[0][v.entries]

(* After a commit that failed, or the restart after an import, the root of *)
(* the object is one that has no node: no insertion gets anywhere.         *)
RootKnown ==
    open => \/ rootKey \in Roots
            \/ /\ rootKey \notin nodes /\ rootKey # HashZero
               /\ faults = 0 => currentroot.type = "untyped"

CurrentKnown ==
    currentroot = None \/ \E r \in Roots : currentroot = Typed(r) \/ currentroot = Untyped(r)

(* Nothing has been lost: the version with the root k has every entry.     *)
Newest(k) == \A w \in versions : w.root = k => \A v \in versions : v.entries \subseteq w.entries

NothingLost ==
    faults = 0 => /\ open => Newest(rootKey)
                  /\ currentroot = None => Newest(HashZero)
                  /\ currentroot # None => Newest(dbGetRoot(currentroot))

TreeInv ==
    /\ VersionsStored /\ EmptyVersion /\ NodesHeld /\ RootKnown /\ CurrentKnown /\ NothingLost
    /\ dumped \in Seq(Leaves)
    /\ faults \in Nat

LEMMA RootFacts ==
    ASSUME VersionsStored, NEW v \in versions
    PROVE  /\ v.entries \in SUBSET Leaves /\ Fits(v.entries, 0)
           /\ Held[0][v.entries] \subseteq nodes /\ v.root = Tree[0][v.entries]
           /\ v.entries = {} => v.root = HashZero
           /\ v.entries # {} => /\ v.root \in nodes /\ v.root # HashZero
                                /\ v.root \in Leaves \/ v.root.type = "middle"
<1>1. /\ v.entries \in SUBSET Leaves /\ Fits(v.entries, 0)
      /\ Held[0][v.entries] \subseteq nodes /\ v.root = Tree[0][v.entries]
  BY DEF VersionsStored, Stored
<1>2. 0 \in Levels
  BY LevelsNat
<1>3. v.entries = {} => v.root = HashZero
  BY <1>1, <1>2, TreeEmpty
<1>4. v.entries # {} => /\ v.root \in nodes /\ v.root # HashZero
                        /\ v.root \in Leaves \/ v.root.type = "middle"
  BY <1>1, <1>2, TreeKind
<1> QED
  BY <1>1, <1>3, <1>4

LEMMA RootUnique ==
    ASSUME VersionsStored, NEW v \in versions, NEW w \in versions, v.root = w.root
    PROVE  v.entries = w.entries
<1>1. 0 \in Levels /\ Tree[0][v.entries] = Tree[0][w.entries]
  BY RootFacts, LevelsNat
<1>2. /\ v.entries \in SUBSET Leaves /\ Fits(v.entries, 0)
      /\ w.entries \in SUBSET Leaves /\ Fits(w.entries, 0)
  BY RootFacts
<1> QED
  BY <1>1, <1>2, TreeInjective

LEMMA NodeFacts ==
    ASSUME VersionsStored, NodesHeld
    PROVE  \A n \in nodes : n # HashZero /\ (n \in Leaves \/ n.type = "middle")
<1> SUFFICES ASSUME NEW n \in nodes
             PROVE  n # HashZero /\ (n \in Leaves \/ n.type = "middle")
  OBVIOUS
<1>1. PICK v \in versions : n \in Held[0][v.entries]
  BY DEF NodesHeld
<1>2. v.entries \in SUBSET Leaves /\ Fits(v.entries, 0) /\ 0 \in Levels
  BY RootFacts, LevelsNat
<1>3. PICK j \in Levels, w \in SUBSET v.entries : w # {} /\ Fits(w, j) /\ n = Tree[j][w]
  BY <1>1, <1>2, HeldTree
<1>4. w \in SUBSET Leaves
  BY <1>2
<1> QED
  BY <1>3, <1>4, TreeKind

LEMMA EntriesFacts ==
    ASSUME VersionsStored, NEW v \in versions PROVE EntriesOf(v.root) = v.entries
<1> DEFINE w == CHOOSE w \in versions : w.root = v.root
<1>1. w \in versions /\ w.root = v.root
  OBVIOUS
<1>2. EntriesOf(v.root) = w.entries
  BY DEF EntriesOf
<1> HIDE DEF w
<1> QED
  BY <1>1, <1>2, RootUnique

(* A root without a node is as far as an insertion gets.                   *)
LEMMA AddNotFound ==
    ASSUME RootKnown, open, rootKey \notin Roots, NEW new \in Leaves
    PROVE  addLeaf(new, rootKey)[0].err = "notfound"
<1>1. 0 \in Levels /\ ~(0 > MaxLevels - 1)
  BY LevelsNat
<1>2. Path(rootKey, new.hi)[0] = rootKey /\ TypeOf(rootKey) = "notfound"
  BY PathDef DEF TypeOf, RootKnown
<1>3. addLeaf(new, rootKey)[0] = Failed("notfound")
  BY <1>1, <1>2, AddDef
<1> QED
  BY <1>3, FailedErr

(* An insertion that succeeds starts from a version.                       *)
LEMMA AddStarts ==
    ASSUME VersionsStored, RootKnown, open, NEW new \in Leaves,
           addLeaf(new, rootKey)[0].err = "ok"
    PROVE  \E v \in versions :
              /\ v.root = rootKey /\ EntriesOf(rootKey) = v.entries
              /\ Inserted(addLeaf(new, rootKey)[0], v.entries, new, 0)
<1>1. rootKey \in Roots
  BY AddNotFound
<1>2. PICK v \in versions : v.root = rootKey
  BY <1>1 DEF Roots
<1>3. rootKey = Tree[0][v.entries] /\ Stored(v.entries, 0)
  BY <1>2 DEF VersionsStored
<1>4. Inserted(addLeaf(new, rootKey)[0], v.entries, new, 0)
  BY <1>3, AddInserts
<1> QED
  BY <1>2, <1>4, EntriesFacts

LEMMA dbGetRootFacts ==
    ASSUME NEW r
    PROVE  /\ Typed(r) # None /\ Untyped(r) # None
           /\ dbGetRoot(Typed(r)) = r
           /\ dbGetRoot(Untyped(r)) = r \/ dbGetRoot(Untyped(r)).type = "shifted"
           /\ r = HashZero => dbGetRoot(Untyped(r)) = r
           /\ r # HashZero => dbGetRoot(Untyped(r)).type = "shifted"
           /\ Untyped(r).type = "untyped"
<1>1. /\ Typed(r).type = "typed" /\ Typed(r).root = r
      /\ Untyped(r).type = "untyped" /\ Untyped(r).root = r
  BY DEF Typed, Untyped
<1>2. None.type = "none"
  BY HashZeroFacts
<1> QED
  BY <1>1, <1>2 DEF dbGetRoot

LEMMA InitInv == ASSUME Init PROVE TreeInv
<1> DEFINE v0 == [root |-> HashZero, entries |-> {}]
<1>1. 0 \in Levels /\ v0.root = HashZero /\ v0.entries = {}
  BY LevelsNat
<1>2. Stored({}, 0) /\ Tree[0][{}] = HashZero
  BY <1>1, TreeEmpty DEF Stored, Fits
<1>3. versions = {v0} /\ nodes = {} /\ ~open /\ currentroot = None /\ faults = 0 /\ dumped = <<>>
  BY DEF Init
<1> HIDE DEF v0
<1>4. VersionsStored
  BY <1>1, <1>2, <1>3 DEF VersionsStored
<1>5. EmptyVersion
  BY <1>3 DEF EmptyVersion, v0
<1>6. NodesHeld /\ RootKnown /\ CurrentKnown
  BY <1>3 DEF NodesHeld, RootKnown, CurrentKnown
<1>7. NothingLost
  BY <1>3 DEF NothingLost, Newest
<1>8. dumped \in Seq(Leaves) /\ faults \in Nat
  BY <1>3
<1> QED
  BY <1>4, <1>5, <1>6, <1>7, <1>8 DEF TreeInv

(* The nodes that a step adds to the storage take nothing from a version.  *)
LEMMA StoredMore ==
    ASSUME NEW s, Stored(s, 0), nodes \subseteq nodes' PROVE Stored(s, 0)'
BY DEF Stored

LEMMA AddEntryInv ==
    ASSUME TreeInv, NEW new \in Leaves, NEW failing, AddEntry(new, failing),
           dumped' \in Seq(Leaves)
    PROVE  TreeInv'
<1> DEFINE add == addLeaf(new, rootKey)[0]
<1>1. /\ open /\ add.err = "ok" /\ rootKey' = add.key /\ open' = open
      /\ \/ /\ nodes' = nodes \cup add.put
            /\ currentroot' = Typed(add.key)
            /\ versions' = versions \cup {[root |-> add.key,
                                           entries |-> EntriesOf(rootKey) \cup {new}]}
            /\ faults' = faults
         \/ /\ faults < MaxFaults /\ faults' = faults + 1
            /\ nodes' = nodes /\ currentroot' = currentroot /\ versions' = versions
  BY DEF AddEntry, Fault
<1>2. /\ VersionsStored /\ EmptyVersion /\ NodesHeld /\ RootKnown /\ CurrentKnown /\ NothingLost
      /\ faults \in Nat
  BY DEF TreeInv
<1>3. PICK v \in versions : /\ v.root = rootKey /\ EntriesOf(rootKey) = v.entries
                            /\ Inserted(add, v.entries, new, 0)
  BY <1>1, <1>2, AddStarts
<1> DEFINE s == v.entries \cup {new}
           w == [root |-> add.key, entries |-> s]
<1>4. /\ add.key = Tree[0][s] /\ Held[0][s] \subseteq nodes \cup add.put
      /\ add.put \subseteq Held[0][s] /\ Fits(s, 0) /\ add.key \notin nodes
  BY <1>3 DEF Inserted
<1>5. s \in SUBSET Leaves /\ s # {} /\ 0 \in Levels
  BY <1>2, RootFacts, LevelsNat
<1>6. add.key # HashZero
  BY <1>4, <1>5, TreeKind
<1>7. w.root = add.key /\ w.entries = s
  OBVIOUS
<1> HIDE DEF add, s, w
<1>8. CASE /\ nodes' = nodes \cup add.put
           /\ currentroot' = Typed(add.key)
           /\ versions' = versions \cup {w}
           /\ faults' = faults
  <2>1. VersionsStored'
    <3>1. Stored(s, 0)'
      BY <1>4, <1>5, <1>8 DEF Stored
    <3>2. nodes \subseteq nodes'
      BY <1>8
    <3>3. \A u \in versions : Stored(u.entries, 0)' /\ u.root = Tree[0][u.entries]
      BY <1>2, <3>2, StoredMore DEF VersionsStored
    <3> QED
      BY <1>4, <1>7, <1>8, <3>1, <3>3 DEF VersionsStored
  <2>2. NodesHeld'
    BY <1>2, <1>4, <1>7, <1>8 DEF NodesHeld
  <2>3. Roots' = Roots \cup {add.key}
    BY <1>7, <1>8 DEF Roots
  <2>4. EmptyVersion' /\ RootKnown' /\ CurrentKnown'
    BY <1>1, <1>2, <1>8, <2>3 DEF EmptyVersion, RootKnown, CurrentKnown
  <2>5. ASSUME faults' = 0
        PROVE  \A u \in versions' : u.root = add.key => \A x \in versions' : x.entries \subseteq u.entries
    <3>1. \A u \in versions : u.root # add.key
      BY <1>2, <1>4, <1>6, RootFacts
    <3>2. \A u \in versions : u.entries \subseteq v.entries
      BY <1>1, <1>2, <1>3, <1>8, <2>5 DEF NothingLost, Newest
    <3>3. v.entries \subseteq s
      BY DEF s
    <3> QED
      BY <1>7, <1>8, <3>1, <3>2, <3>3
  <2>6. NothingLost'
    <3>1. currentroot' # None /\ dbGetRoot(currentroot') = add.key
      BY <1>8, dbGetRootFacts
    <3> QED
      BY <1>1, <2>5, <3>1 DEF NothingLost, Newest
  <2> QED
    BY <1>2, <1>8, <2>1, <2>2, <2>4, <2>6 DEF TreeInv
<1>9. CASE /\ faults < MaxFaults /\ faults' = faults + 1
           /\ nodes' = nodes /\ currentroot' = currentroot /\ versions' = versions
  <2>1. VersionsStored' /\ NodesHeld' /\ EmptyVersion' /\ CurrentKnown'
    BY <1>2, <1>9 DEF VersionsStored, Stored, NodesHeld, EmptyVersion, CurrentKnown, Roots
  <2>2. faults' \in Nat /\ faults' # 0
    BY <1>2, <1>9
  <2>3. RootKnown'
    BY <1>1, <1>4, <1>6, <1>9, <2>2 DEF RootKnown
  <2> QED
    BY <2>1, <2>2, <2>3 DEF TreeInv, NothingLost
<1> QED
  BY <1>1, <1>3, <1>8, <1>9 DEF s, w

LEMMA NewMerkleTreeInv == ASSUME TreeInv, NewMerkleTree PROVE TreeInv'
<1>1. /\ VersionsStored /\ EmptyVersion /\ NodesHeld /\ RootKnown /\ CurrentKnown /\ NothingLost
      /\ faults \in Nat /\ dumped \in Seq(Leaves)
  BY DEF TreeInv
<1>2. nodes' = nodes /\ versions' = versions /\ dumped' = dumped /\ open'
  BY DEF NewMerkleTree
<1>3. VersionsStored' /\ NodesHeld' /\ EmptyVersion' /\ Roots' = Roots
  BY <1>1, <1>2 DEF VersionsStored, Stored, NodesHeld, EmptyVersion, Roots
<1>4. HashZero \in Roots
  BY <1>1 DEF EmptyVersion, Roots
<1>5. CASE /\ currentroot # None /\ rootKey' = dbGetRoot(currentroot)
           /\ currentroot' = currentroot /\ faults' = faults
  <2>1. CurrentKnown'
    BY <1>1, <1>3, <1>5 DEF CurrentKnown
  <2>2. RootKnown'
    <3>1. PICK r \in Roots : currentroot = Typed(r) \/ currentroot = Untyped(r)
      BY <1>1, <1>5 DEF CurrentKnown
    <3>2. rootKey' = r \/ (rootKey'.type = "shifted" /\ currentroot.type = "untyped")
      BY <1>5, <3>1, dbGetRootFacts
    <3>3. ASSUME rootKey'.type = "shifted" PROVE rootKey' \notin nodes /\ rootKey' # HashZero
      <4>1. rootKey' \notin Leaves
        BY <3>3, LeafFacts
      <4> QED
        BY <1>1, <3>3, <4>1, NodeFacts, HashZeroFacts
    <3> QED
      BY <1>2, <1>3, <1>5, <3>1, <3>2, <3>3 DEF RootKnown
  <2>3. NothingLost'
    BY <1>1, <1>2, <1>5 DEF NothingLost, Newest
  <2> QED
    BY <1>1, <1>2, <1>3, <1>5, <2>1, <2>2, <2>3 DEF TreeInv
<1>6. CASE /\ IF currentroot = None THEN faults' = faults ELSE faults' = faults + 1
           /\ rootKey' = HashZero /\ currentroot' = Typed(HashZero)
  <2>1. CurrentKnown' /\ RootKnown'
    BY <1>3, <1>4, <1>6 DEF CurrentKnown, RootKnown
  <2>2. faults' \in Nat /\ (faults' = 0 => currentroot = None /\ faults = 0)
    BY <1>1, <1>6
  <2>3. currentroot' # None /\ dbGetRoot(currentroot') = HashZero
    BY <1>6, dbGetRootFacts
  <2>4. NothingLost'
    BY <1>1, <1>2, <1>6, <2>2, <2>3 DEF NothingLost, Newest
  <2> QED
    BY <1>1, <1>2, <1>3, <2>1, <2>2, <2>4 DEF TreeInv
<1> QED
  BY <1>5, <1>6 DEF NewMerkleTree, Fault

LEMMA DumpAndImportInv ==
    ASSUME TreeInv, NEW root \in Roots, DumpAndImport(root) PROVE TreeInv'
<1>1. /\ VersionsStored /\ EmptyVersion /\ NodesHeld /\ faults \in Nat
  BY DEF TreeInv
<1>2. /\ nodes' = walk(root) /\ currentroot' = Untyped(root) /\ rootKey' = root
      /\ versions' = {v \in versions : v.root \in {HashZero, root}}
      /\ dumped' = <<>> /\ faults' = faults
  BY DEF DumpAndImport
<1>3. PICK v \in versions : v.root = root
  BY DEF Roots
<1>4. nodes' = Held[0][v.entries]
  BY <1>1, <1>2, <1>3, WalkHeld DEF VersionsStored
<1>5. 0 \in Levels
  BY LevelsNat
<1>6. \A w \in versions' : w \in versions /\ (w.entries = {} \/ w.entries = v.entries)
  BY <1>1, <1>2, <1>3, RootFacts, RootUnique
<1>7. v \in versions' /\ root \in Roots'
  BY <1>2, <1>3 DEF Roots
<1>8. VersionsStored'
  <2> SUFFICES ASSUME NEW w \in versions'
               PROVE  Stored(w.entries, 0)' /\ w.root = Tree[0][w.entries]
    BY DEF VersionsStored
  <2>1. /\ w.entries \in SUBSET Leaves /\ Fits(w.entries, 0) /\ w.root = Tree[0][w.entries]
    BY <1>1, <1>6, RootFacts
  <2>2. Held[0][w.entries] \subseteq nodes'
    BY <1>4, <1>5, <1>6, TreeEmpty
  <2> QED
    BY <2>1, <2>2 DEF Stored
<1>9. NodesHeld'
  BY <1>4, <1>7 DEF NodesHeld
<1>10. EmptyVersion'
  BY <1>1, <1>2 DEF EmptyVersion
<1>11. RootKnown' /\ CurrentKnown'
  BY <1>2, <1>7 DEF RootKnown, CurrentKnown
<1>12. NothingLost'
  <2>1. \A w \in versions' : w.root = root => w.entries = v.entries
    BY <1>1, <1>3, <1>6, RootUnique
  <2>2. \A w \in versions' : w.root = root => \A u \in versions' : u.entries \subseteq w.entries
    BY <1>6, <2>1
  <2>3. currentroot' # None
    BY <1>2, dbGetRootFacts
  <2>4. CASE root = HashZero
    <3>1. dbGetRoot(currentroot') = root
      BY <1>2, <2>4, dbGetRootFacts
    <3> QED
      BY <1>2, <2>2, <2>3, <3>1 DEF NothingLost, Newest
  <2>5. CASE root # HashZero
    <3>1. dbGetRoot(currentroot').type = "shifted"
      BY <1>2, <2>5, dbGetRootFacts
    <3>2. ASSUME NEW w \in versions' PROVE w.root # dbGetRoot(currentroot')
      <4>1. w.root = HashZero \/ w.root \in Leaves \/ w.root.type = "middle"
        BY <1>1, <1>6, RootFacts
      <4> QED
        BY <3>1, <4>1, LeafFacts, HashZeroFacts
    <3> QED
      BY <1>2, <2>2, <2>3, <3>2 DEF NothingLost, Newest
  <2> QED
    BY <2>4, <2>5
<1>13. dumped' \in Seq(Leaves)
  BY <1>2
<1> QED
  BY <1>1, <1>2, <1>8, <1>9, <1>10, <1>11, <1>12, <1>13 DEF TreeInv

LEMMA DumpAndImportClaimsInv ==
    ASSUME TreeInv, NEW root \in Roots, DumpAndImportClaims(root) PROVE TreeInv'
<1> DEFINE v0 == [root |-> HashZero, entries |-> {}]
<1>1. VersionsStored /\ NodesHeld /\ faults \in Nat
  BY DEF TreeInv
<1>2. /\ dumped' = DumpClaims(root) /\ nodes' = {} /\ currentroot' = Typed(HashZero)
      /\ rootKey' = HashZero /\ versions' = {v0} /\ faults' = faults
  BY DEF DumpAndImportClaims
<1>3. 0 \in Levels /\ v0.root = HashZero /\ v0.entries = {}
  BY LevelsNat
<1>4. Stored({}, 0)' /\ Tree[0][{}] = HashZero
  BY <1>3, TreeEmpty DEF Stored, Fits
<1> HIDE DEF v0
<1>5. VersionsStored'
  BY <1>2, <1>3, <1>4 DEF VersionsStored
<1>6. EmptyVersion' /\ HashZero \in Roots'
  BY <1>2, <1>3 DEF EmptyVersion, v0, Roots
<1>7. NodesHeld' /\ RootKnown' /\ CurrentKnown'
  BY <1>2, <1>6 DEF NodesHeld, RootKnown, CurrentKnown
<1>8. NothingLost'
  BY <1>2 DEF NothingLost, Newest
<1>9. dumped' \in Seq(Leaves)
  <2>1. PICK v \in versions : v.root = root
    BY DEF Roots
  <2>2. root \in Keys
    BY <1>1, <2>1, RootFacts DEF Keys
  <2> QED
    BY <1>1, <1>2, <2>2, NodeFacts, DumpTyped
<1> QED
  BY <1>1, <1>2, <1>5, <1>6, <1>7, <1>8, <1>9 DEF TreeInv

(* An object that is left, or nothing at all, leaves the storage as it is. *)
LEMMA StorageSameInv ==
    ASSUME TreeInv, UNCHANGED <<nodes, currentroot, versions, faults>>, dumped' \in Seq(Leaves),
           (open' = open /\ rootKey' = rootKey) \/ ~open'
    PROVE  TreeInv'
BY DEF TreeInv, VersionsStored, Stored, NodesHeld, EmptyVersion, CurrentKnown, RootKnown, Roots,
       NothingLost, Newest

LEMMA NextInv == ASSUME TreeInv, [Next]_vars PROVE TreeInv'
<1>0. dumped \in Seq(Leaves)
  BY DEF TreeInv
<1>1. CASE NewMerkleTree
  BY <1>1, NewMerkleTreeInv
<1>2. ASSUME NEW hi \in HIndexes, NEW hv \in HValues, NEW failing \in BOOLEAN,
             AddEntry(Leaf(hi, hv), failing), UNCHANGED dumped
      PROVE  TreeInv'
  <2>1. Leaf(hi, hv) \in Leaves
    BY DEF Leaves
  <2> QED
    BY <1>0, <1>2, <2>1, AddEntryInv
<1>3. ASSUME NEW root \in Roots, DumpAndImport(root) PROVE TreeInv'
  BY <1>3, DumpAndImportInv
<1>4. ASSUME NEW root \in Roots, DumpAndImportClaims(root) PROVE TreeInv'
  BY <1>4, DumpAndImportClaimsInv
<1>5. CASE ImportDumpedClaims
  <2>1. dumped # <<>>
    BY <1>5 DEF ImportDumpedClaims
  <2>2. Head(dumped) \in Leaves /\ Tail(dumped) \in Seq(Leaves) /\ <<>> \in Seq(Leaves)
    BY <1>0, <2>1
  <2>3. ASSUME NEW failing \in BOOLEAN, AddEntry(Head(dumped), failing),
               dumped' = Tail(dumped) \/ dumped' = <<>>
        PROVE  TreeInv'
    BY <2>2, <2>3, AddEntryInv
  <2>4. CASE dumped' = <<>> /\ UNCHANGED <<nodes, currentroot, open, rootKey, versions, faults>>
    BY <2>2, <2>4, StorageSameInv
  <2> QED
    BY <1>5, <2>3, <2>4 DEF ImportDumpedClaims
<1>6. CASE Close
  BY <1>6, StorageSameInv DEF Close
<1>7. CASE UNCHANGED vars
  BY <1>0, <1>7, StorageSameInv DEF vars
<1> QED
  BY <1>1, <1>2, <1>3, <1>4, <1>5, <1>6, <1>7 DEF Next

(* Every version is in the storage with all its nodes, and the storage has *)
(* no others, through every sequence of AddEntry, of failed commits, of    *)
(* imports and of restarts.                                                *)
THEOREM TreeInvariant == Spec => []TreeInv
<1>1. Init => TreeInv
  BY InitInv
<1>2. TreeInv /\ [Next]_vars => TreeInv'
  BY NextInv
<1> QED
  BY <1>1, <1>2, PTL DEF Spec

(* The root of every version is that of the tree of its entries, whatever  *)
(* the order in which addLeaf and pushLeaf have put them in.               *)
THEOREM RootCommits == Spec => []RootCommitsToSet
<1>1. TreeInv => RootCommitsToSet
  BY DEF TreeInv, VersionsStored, RootCommitsToSet
<1> QED
  BY <1>1, TreeInvariant, PTL

(* GetDataByIndex finds under the root of every version exactly what was   *)
(* added up to it.                                                         *)
THEOREM Readable == Spec => []VersionsReadable
<1>1. ASSUME TreeInv PROVE VersionsReadable
  <2> SUFFICES ASSUME NEW v \in versions, NEW hi \in HIndexes
               PROVE  LET found == {e \in v.entries : e.hi = hi} IN
                      IF found = {} THEN GetDataByIndex(v.root, hi).err = "indexnotfound"
                      ELSE GetDataByIndex(v.root, hi).leaf \in found
    BY DEF VersionsReadable
  <2> DEFINE s == v.entries
             found == {e \in s : e.hi = hi}
             k == Path(v.root, hi)[MaxLevels - 1]
  <2>1. Stored(s, 0) /\ v.root = Tree[0][s]
    BY <1>1 DEF TreeInv, VersionsStored
  <2>2. PICK d \in 0 .. MaxLevels - 1 :
           /\ Reaches(s, hi, d) /\ ~Many(Under(s, hi, d)) /\ Stored(Under(s, hi, d), d)
           /\ k = Tree[d][Under(s, hi, d)]
    BY <2>1, PathEnd
  <2> DEFINE u == Under(s, hi, d)
  <2>3. found \subseteq u /\ u \subseteq s /\ d \in Levels
    BY LevelsNat DEF Under
  <2>4. CASE u = {}
    <3>1. TypeOf(k) = "empty"
      BY <2>2, <2>3, <2>4, TreeType DEF Stored
    <3>2. GetDataByIndex(v.root, hi) = NoLeaf("indexnotfound")
      BY <3>1 DEF GetDataByIndex
    <3> QED
      BY <2>3, <2>4, <3>2 DEF NoLeaf
  <2>5. ASSUME NEW e \in u, u = {e}
        PROVE  IF found = {} THEN GetDataByIndex(v.root, hi).err = "indexnotfound"
               ELSE GetDataByIndex(v.root, hi).leaf \in found
    <3>1. Stored({e}, d) /\ k = Tree[d][{e}]
      BY <2>2, <2>5
    <3>2. k = e /\ TypeOf(k) = "leaf"
      BY <2>3, <3>1, StoredOne
    <3>3. GetDataByIndex(v.root, hi) = IF e.hi = hi THEN [err |-> "ok", leaf |-> e]
                                       ELSE NoLeaf("indexnotfound")
      BY <3>2 DEF GetDataByIndex
    <3>4. CASE e.hi = hi
      BY <2>3, <3>3, <3>4
    <3>5. CASE e.hi # hi
      BY <2>3, <2>5, <3>3, <3>5 DEF NoLeaf
    <3> QED
      BY <3>4, <3>5
  <2> QED
    BY <2>2, <2>4, <2>5, EmptyOneMany
<1>2. TreeInv => VersionsReadable
  BY <1>1
<1> QED
  BY <1>2, TreeInvariant, PTL

-----------------------------------------------------------------------------
(* Proofs.                                                                 *)

(* A proof of depth d: the bitmap says for which of the d levels there is  *)
(* a sibling.                                                              *)
ProofType == [Existence : BOOLEAN, depth : Nat, notempties : SUBSET Nat, Siblings : Seq(Keys),
              NodeAux : Leaves \cup {None}]

WellFormed(p, d) ==
    /\ p \in ProofType /\ p.depth = d
    /\ p.notempties \subseteq 0 .. d - 1 /\ IsFiniteSet(p.notempties)
    /\ Len(p.Siblings) = Cardinality(p.notempties)

LEMMA ProofFields ==
    ASSUME NEW p \in ProofType
    PROVE  /\ p = [Existence |-> p.Existence, depth |-> p.depth, notempties |-> p.notempties,
                   Siblings |-> p.Siblings, NodeAux |-> p.NodeAux]
           /\ p.Existence \in BOOLEAN /\ p.depth \in Nat /\ p.notempties \in SUBSET Nat
           /\ p.Siblings \in Seq(Keys) /\ p.NodeAux \in Leaves \cup {None}
BY DEF ProofType

LEMMA DownRecord ==
    ASSUME NEW p \in ProofType, NEW sibling
    PROVE  Down(p, sibling) =
             [Existence |-> p.Existence, depth |-> p.depth + 1,
              notempties |-> IF sibling = HashZero THEN p.notempties
                             ELSE p.notempties \cup {p.depth},
              Siblings |-> IF sibling = HashZero THEN p.Siblings ELSE Append(p.Siblings, sibling),
              NodeAux |-> p.NodeAux]
BY DEF ProofType, Down

(* The number of siblings at or above a level.                             *)
LEMMA CountFacts ==
    ASSUME NEW d \in Nat, NEW ne, ne \subseteq 0 .. d - 1, IsFiniteSet(ne)
    PROVE  /\ Cardinality(ne) \in Nat
           /\ \A j \in ne : Cardinality({m \in ne : m <= j}) \in 1 .. Cardinality(ne)
           /\ {m \in ne \cup {d} : m <= d} = ne \cup {d}
           /\ IsFiniteSet(ne \cup {d})
           /\ Cardinality(ne \cup {d}) = Cardinality(ne) + 1
           /\ \A j \in 0 .. d - 1 : {m \in ne \cup {d} : m <= j} = {m \in ne : m <= j}
<1>1. Cardinality(ne) \in Nat
  BY FS_CardinalityType
<1>2. ASSUME NEW j \in ne
      PROVE  Cardinality({m \in ne : m <= j}) \in 1 .. Cardinality(ne)
  <2> DEFINE t == {m \in ne : m <= j}
  <2>1. t \subseteq ne /\ j \in t
    OBVIOUS
  <2>2. IsFiniteSet(t) /\ Cardinality(t) <= Cardinality(ne)
    BY <2>1, FS_Subset
  <2>3. Cardinality(t) \in Nat /\ Cardinality(t) # 0
    BY <2>1, <2>2, FS_CardinalityType, FS_EmptySet
  <2> QED
    BY <1>1, <2>2, <2>3
<1>3. d \notin ne
  OBVIOUS
<1>4. IsFiniteSet(ne \cup {d}) /\ Cardinality(ne \cup {d}) = Cardinality(ne) + 1
  BY <1>3, FS_AddElement
<1>5. {m \in ne \cup {d} : m <= d} = ne \cup {d}
  <2>1. \A m \in ne \cup {d} : m <= d
    OBVIOUS
  <2> QED
    BY <2>1, Zenon
<1>6. \A j \in 0 .. d - 1 : {m \in ne \cup {d} : m <= j} = {m \in ne : m <= j}
  OBVIOUS
<1> QED
  BY <1>1, <1>2, <1>4, <1>5, <1>6

LEMMA DownWellFormed ==
    ASSUME NEW d \in Nat, NEW p, WellFormed(p, d), NEW sibling \in Keys
    PROVE  /\ WellFormed(Down(p, sibling), d + 1)
           /\ Down(p, sibling).Existence = p.Existence
           /\ Down(p, sibling).NodeAux = p.NodeAux
           /\ SiblingAt(Down(p, sibling), d) = sibling
           /\ \A j \in 0 .. d - 1 : SiblingAt(Down(p, sibling), j) = SiblingAt(p, j)
<1> DEFINE q == Down(p, sibling)
           ne == p.notempties
           n == Cardinality(ne)
<1>1. /\ p \in ProofType /\ p.depth = d /\ ne \subseteq 0 .. d - 1 /\ IsFiniteSet(ne)
      /\ Len(p.Siblings) = n
  BY DEF WellFormed
<1>2. /\ p.Existence \in BOOLEAN /\ p.Siblings \in Seq(Keys) /\ p.NodeAux \in Leaves \cup {None}
      /\ n \in Nat
  BY <1>1, ProofFields, FS_CardinalityType
<1>3. CASE sibling = HashZero
  <2>1. q = [Existence |-> p.Existence, depth |-> d + 1, notempties |-> ne,
             Siblings |-> p.Siblings, NodeAux |-> p.NodeAux]
    BY <1>1, <1>3, DownRecord
  <2>2. /\ q.Existence = p.Existence /\ q.depth = d + 1 /\ q.notempties = ne
        /\ q.Siblings = p.Siblings /\ q.NodeAux = p.NodeAux
    BY <2>1
  <2>3. q \in ProofType
    BY <1>1, <1>2, <2>1 DEF ProofType
  <2> HIDE DEF q, ne, n
  <2>4. ne \subseteq 0 .. (d + 1) - 1 /\ d \notin ne
    BY <1>1
  <2>5. WellFormed(q, d + 1)
    BY <1>1, <2>2, <2>3, <2>4 DEF WellFormed, n
  <2>6. SiblingAt(q, d) = sibling
    BY <1>3, <2>2, <2>4 DEF SiblingAt
  <2>7. \A j \in 0 .. d - 1 : SiblingAt(q, j) = SiblingAt(p, j)
    BY <2>2 DEF SiblingAt, ne
  <2> QED
    BY <2>2, <2>5, <2>6, <2>7 DEF q
<1>4. CASE sibling # HashZero
  <2>1. q = [Existence |-> p.Existence, depth |-> d + 1, notempties |-> ne \cup {d},
             Siblings |-> Append(p.Siblings, sibling), NodeAux |-> p.NodeAux]
    BY <1>1, <1>4, DownRecord
  <2>2. /\ q.Existence = p.Existence /\ q.depth = d + 1 /\ q.notempties = ne \cup {d}
        /\ q.Siblings = Append(p.Siblings, sibling) /\ q.NodeAux = p.NodeAux
    BY <2>1
  <2>3. ne \cup {d} \in SUBSET Nat /\ ne \cup {d} \subseteq 0 .. (d + 1) - 1
    BY <1>1
  <2>4. /\ Append(p.Siblings, sibling) \in Seq(Keys) /\ Len(Append(p.Siblings, sibling)) = n + 1
        /\ Append(p.Siblings, sibling)[n + 1] = sibling
        /\ \A i \in 1 .. n : Append(p.Siblings, sibling)[i] = p.Siblings[i]
    BY <1>1, <1>2
  <2>5. q \in ProofType
    BY <1>1, <1>2, <2>1, <2>3, <2>4 DEF ProofType
  <2>6. /\ \A j \in ne : Cardinality({m \in ne : m <= j}) \in 1 .. n
        /\ {m \in ne \cup {d} : m <= d} = ne \cup {d}
        /\ IsFiniteSet(ne \cup {d}) /\ Cardinality(ne \cup {d}) = n + 1
        /\ \A j \in 0 .. d - 1 : {m \in ne \cup {d} : m <= j} = {m \in ne : m <= j}
    BY <1>1, CountFacts
  <2> HIDE DEF q, n
  <2>7. WellFormed(q, d + 1)
    BY <2>2, <2>3, <2>4, <2>5, <2>6 DEF WellFormed
  <2>8. SiblingAt(q, d) = sibling
    <3>1. d \in q.notempties /\ Cardinality({m \in q.notempties : m <= d}) = n + 1
      BY <2>2, <2>6
    <3>2. SiblingAt(q, d) = q.Siblings[n + 1]
      BY <3>1 DEF SiblingAt
    <3> QED
      BY <2>2, <2>4, <3>2
  <2>9. ASSUME NEW j \in 0 .. d - 1 PROVE SiblingAt(q, j) = SiblingAt(p, j)
    <3>1. CASE j \notin ne
      <4>1. j \notin q.notempties
        BY <2>2, <3>1
      <4> QED
        BY <3>1, <4>1 DEF SiblingAt
    <3>2. CASE j \in ne
      <4> DEFINE c == Cardinality({m \in ne : m <= j})
      <4>1. j \in q.notempties /\ Cardinality({m \in q.notempties : m <= j}) = c
        BY <2>2, <2>6, <3>2
      <4>2. SiblingAt(q, j) = q.Siblings[c]
        BY <4>1 DEF SiblingAt
      <4>3. SiblingAt(p, j) = p.Siblings[c]
        BY <3>2 DEF SiblingAt
      <4>4. c \in 1 .. n
        BY <2>6, <3>2
      <4> QED
        BY <2>2, <2>4, <4>2, <4>3, <4>4
    <3> QED
      BY <3>1, <3>2
  <2> QED
    BY <2>2, <2>7, <2>8, <2>9 DEF q
<1> QED
  BY <1>3, <1>4

(* The path stays where it has met a leaf or the empty node.               *)
LEMMA PathStays ==
    ASSUME NEW s, NEW hi, Stored(s, 0), NEW l \in Levels, NEW d \in 0 .. l,
           Reaches(s, hi, d), ~Many(Under(s, hi, d))
    PROVE  Path(Tree[0][s], hi)[l] = Tree[d][Under(s, hi, d)]
<1>1. PICK c \in 0 .. l : /\ Reaches(s, hi, c)
                          /\ c = l \/ ~Many(Under(s, hi, c))
                          /\ Path(Tree[0][s], hi)[l] = Tree[c][Under(s, hi, c)]
  BY PathTree
<1>2. c < d => Many(Under(s, hi, c))
  BY LevelsNat DEF Reaches
<1>3. d < c => Many(Under(s, hi, d))
  BY <1>1, LevelsNat DEF Reaches
<1>4. c = d
  BY <1>1, <1>2, <1>3, LevelsNat
<1> QED
  BY <1>1, <1>4

(* The sibling at a level is the tree of the leaves that part from hi      *)
(* there.                                                                  *)
Beyond(s, hi, lvl) == Tree[lvl + 1][Side(Under(s, hi, lvl), lvl, ~Right(hi, lvl))]

CollectedTo(p, s, hi, d) ==
    /\ WellFormed(p, d) /\ p.Existence = FALSE /\ p.NodeAux = None
    /\ \A j \in 0 .. d - 1 : SiblingAt(p, j) = Beyond(s, hi, j)

LEMMA CollectedTree ==
    ASSUME NEW s, NEW hi, Stored(s, 0)
    PROVE  \A l \in Levels : \A d \in 0 .. l :
              Reaches(s, hi, d) /\ (d = l \/ ~Many(Under(s, hi, d))) =>
                 CollectedTo(Collected(hi, Tree[0][s])[l], s, hi, d)
<1> DEFINE at == Path(Tree[0][s], hi)
           col == Collected(hi, Tree[0][s])
           U(l) == Under(s, hi, l)
           S == {l \in Levels : \A d \in 0 .. l :
                   Reaches(s, hi, d) /\ (d = l \/ ~Many(U(d))) => CollectedTo(col[l], s, hi, d)}
<1>1. 0 \in S
  <2>1. col[0] = EmptyProof
    BY CollectedDef
  <2>2. EmptyProof \in ProofType /\ EmptyProof.depth = 0 /\ EmptyProof.notempties = {}
        /\ EmptyProof.Siblings = <<>> /\ EmptyProof.Existence = FALSE /\ EmptyProof.NodeAux = None
    BY DEF EmptyProof, ProofType
  <2>3. IsFiniteSet({}) /\ Cardinality({}) = 0 /\ Len(<<>>) = 0
    BY FS_EmptySet
  <2>4. WellFormed(EmptyProof, 0)
    BY <2>2, <2>3 DEF WellFormed
  <2>5. CollectedTo(col[0], s, hi, 0)
    BY <2>1, <2>2, <2>4 DEF CollectedTo
  <2> HIDE DEF col, U
  <2> QED
    BY <2>5, LevelsNat
<1>2. ASSUME NEW l \in 0 .. MaxLevels, l < MaxLevels, l \in S PROVE l + 1 \in S
  <2>1. l \in Levels /\ l + 1 \in Levels /\ l \in Nat
    BY <1>2, LevelsNat
  <2> SUFFICES ASSUME NEW d \in 0 .. l + 1, Reaches(s, hi, d), d = l + 1 \/ ~Many(U(d))
               PROVE  CollectedTo(col[l + 1], s, hi, d)
    BY <2>1
  <2>2. col[l + 1] = IF TypeOf(at[l]) = "middle" THEN Down(col[l], OffPath(at[l], hi, l)) ELSE col[l]
    BY <1>2, <2>1, CollectedDef
  <2>3. CASE d = l + 1
    <3>1. Reaches(s, hi, l) /\ Many(U(l))
      BY <2>1, <2>3 DEF Reaches
    <3>2. CollectedTo(col[l], s, hi, l)
      BY <1>2, <2>1, <3>1
    <3>3. at[l] = Tree[l][U(l)]
      BY <2>1, <3>1, PathAt
    <3>4. Stored(U(l), l)
      BY <2>1, <3>1, StoredUnder
    <3>5. TypeOf(at[l]) = "middle"
      BY <2>1, <3>1, <3>3, <3>4, TreeType DEF Stored
    <3>6. at[l] = Beside(hi, l, Tree[l + 1][Side(U(l), l, Right(hi, l))], Beyond(s, hi, l))
      BY <1>2, <2>1, <3>1, <3>3, <3>4, TreeMany DEF Stored, Beyond
    <3>7. OffPath(at[l], hi, l) = Beyond(s, hi, l)
      BY <3>6, BesideFacts
    <3>8. Beyond(s, hi, l) \in Keys
      <4>1. Stored(Side(U(l), l, ~Right(hi, l)), l + 1)
        BY <2>1, <3>1, <3>4, StoredSide
      <4> QED
        BY <2>1, <4>1, StoredKey DEF Beyond
    <3>9. col[l + 1] = Down(col[l], Beyond(s, hi, l))
      BY <2>2, <3>5, <3>7
    <3> HIDE DEF col, at, U
    <3>10. /\ WellFormed(col[l], l) /\ col[l].Existence = FALSE /\ col[l].NodeAux = None
           /\ \A j \in 0 .. l - 1 : SiblingAt(col[l], j) = Beyond(s, hi, j)
      BY <3>2 DEF CollectedTo
    <3>11. /\ WellFormed(col[l + 1], l + 1)
           /\ col[l + 1].Existence = col[l].Existence
           /\ col[l + 1].NodeAux = col[l].NodeAux
           /\ SiblingAt(col[l + 1], l) = Beyond(s, hi, l)
           /\ \A j \in 0 .. l - 1 : SiblingAt(col[l + 1], j) = SiblingAt(col[l], j)
      BY <2>1, <3>8, <3>9, <3>10, DownWellFormed
    <3>12. \A j \in 0 .. (l + 1) - 1 : SiblingAt(col[l + 1], j) = Beyond(s, hi, j)
      <4>1. \A j \in 0 .. (l + 1) - 1 : j = l \/ j \in 0 .. l - 1
        BY <2>1
      <4> QED
        BY <3>10, <3>11, <4>1
    <3> QED
      BY <2>3, <3>10, <3>11, <3>12 DEF CollectedTo
  <2>4. CASE d # l + 1
    <3>1. d \in 0 .. l /\ ~Many(U(d)) /\ d \in Levels
      BY <2>1, <2>4, LevelsNat
    <3>2. at[l] = Tree[d][U(d)] /\ Stored(U(d), d)
      BY <2>1, <3>1, PathStays, StoredUnder
    <3>3. TypeOf(at[l]) # "middle"
      BY <3>1, <3>2, TreeType, EmptyOneMany DEF Stored
    <3>4. CollectedTo(col[l], s, hi, d)
      BY <1>2, <3>1
    <3> QED
      BY <2>2, <3>3, <3>4
  <2> QED
    BY <2>3, <2>4
<1> HIDE DEF S
<1>3. \A l \in 0 .. MaxLevels : l \in S
  BY <1>1, <1>2, LevelsNat, UpInduction
<1> QED
  BY <1>3, LevelsNat DEF S

(* What GenerateProof makes for hi from a stored tree.                     *)
Generated(p, s, hi, d) ==
    /\ d \in 0 .. MaxLevels - 1 /\ Reaches(s, hi, d) /\ WellFormed(p, d)
    /\ \A j \in 0 .. d - 1 : SiblingAt(p, j) = Beyond(s, hi, j)
    /\ \/ Under(s, hi, d) = {} /\ p.Existence = FALSE /\ p.NodeAux = None
       \/ \E e \in Leaves : /\ Under(s, hi, d) = {e}
                            /\ \/ e.hi = hi /\ p.Existence = TRUE /\ p.NodeAux = None
                               \/ e.hi # hi /\ p.Existence = FALSE /\ p.NodeAux = e

(* A change of one of these two fields leaves the rest as it is.           *)
LEMMA ProofExistence ==
    ASSUME NEW d \in Nat, NEW p, WellFormed(p, d), NEW b \in BOOLEAN, NEW q,
           q = [p EXCEPT !.Existence = b]
    PROVE  /\ WellFormed(q, d) /\ q.Existence = b /\ q.NodeAux = p.NodeAux
           /\ \A j : SiblingAt(q, j) = SiblingAt(p, j)
<1>1. p \in ProofType
  BY DEF WellFormed
<1>2. /\ q \in ProofType /\ q.Existence = b /\ q.depth = p.depth /\ q.notempties = p.notempties
      /\ q.Siblings = p.Siblings /\ q.NodeAux = p.NodeAux
  BY <1>1 DEF ProofType
<1>3. WellFormed(q, d)
  BY <1>2 DEF WellFormed
<1>4. \A j : SiblingAt(q, j) = SiblingAt(p, j)
  BY <1>2 DEF SiblingAt
<1> QED
  BY <1>2, <1>3, <1>4

LEMMA ProofAux ==
    ASSUME NEW d \in Nat, NEW p, WellFormed(p, d), NEW aux \in Leaves, NEW q,
           q = [p EXCEPT !.NodeAux = aux]
    PROVE  /\ WellFormed(q, d) /\ q.Existence = p.Existence /\ q.NodeAux = aux
           /\ \A j : SiblingAt(q, j) = SiblingAt(p, j)
<1>1. p \in ProofType
  BY DEF WellFormed
<1>2. /\ q \in ProofType /\ q.Existence = p.Existence /\ q.depth = p.depth
      /\ q.notempties = p.notempties /\ q.Siblings = p.Siblings /\ q.NodeAux = aux
  BY <1>1 DEF ProofType
<1>3. WellFormed(q, d)
  BY <1>2 DEF WellFormed
<1>4. \A j : SiblingAt(q, j) = SiblingAt(p, j)
  BY <1>2 DEF SiblingAt
<1> QED
  BY <1>2, <1>3, <1>4

LEMMA ProofNotNone == ASSUME NEW p \in ProofType PROVE p # None
<1>1. p = [Existence |-> p.Existence, depth |-> p.depth, notempties |-> p.notempties,
           Siblings |-> p.Siblings, NodeAux |-> p.NodeAux]
  BY ProofFields
<1>2. DOMAIN p = {"Existence", "depth", "notempties", "Siblings", "NodeAux"}
  BY <1>1
<1>3. DOMAIN None = {"type"}
  BY DEF None
<1> QED
  BY <1>2, <1>3

LEMMA ProofGenerated ==
    ASSUME NEW s, NEW hi, Stored(s, 0)
    PROVE  \E d : Generated(GenerateProof(hi, Tree[0][s]), s, hi, d)
<1> DEFINE root == Tree[0][s]
           k == Path(root, hi)[MaxLevels - 1]
           p == Collected(hi, root)[MaxLevels - 1]
           g == GenerateProof(hi, root)
<1>1. PICK d \in 0 .. MaxLevels - 1 :
         /\ Reaches(s, hi, d) /\ ~Many(Under(s, hi, d)) /\ Stored(Under(s, hi, d), d)
         /\ k = Tree[d][Under(s, hi, d)]
  BY PathEnd
<1>2. MaxLevels - 1 \in Levels /\ d \in Levels /\ d \in Nat
  BY LevelsNat
<1>3. CollectedTo(p, s, hi, d)
  BY <1>1, <1>2, CollectedTree
<1>4. /\ WellFormed(p, d) /\ p.Existence = FALSE /\ p.NodeAux = None
      /\ \A j \in 0 .. d - 1 : SiblingAt(p, j) = Beyond(s, hi, j)
  BY <1>3 DEF CollectedTo
<1>5. CASE Under(s, hi, d) = {}
  <2>1. TypeOf(k) = "empty"
    BY <1>1, <1>2, <1>5, TreeType DEF Stored
  <2>2. g = p
    BY <2>1 DEF GenerateProof
  <2> HIDE DEF p, g
  <2>3. Generated(g, s, hi, d)
    BY <1>1, <1>4, <1>5, <2>2 DEF Generated
  <2> QED
    BY <2>3 DEF g
<1>6. ASSUME NEW e \in Under(s, hi, d), Under(s, hi, d) = {e}
      PROVE  \E c : Generated(g, s, hi, c)
  <2>1. Stored({e}, d) /\ k = Tree[d][{e}]
    BY <1>1, <1>6
  <2>2. k = e /\ TypeOf(k) = "leaf" /\ e \in Leaves
    BY <1>2, <2>1, StoredOne
  <2>3. g = IF e.hi = hi THEN [p EXCEPT !.Existence = TRUE] ELSE [p EXCEPT !.NodeAux = e]
    BY <2>2 DEF GenerateProof
  <2> HIDE DEF p, g
  <2>4. CASE e.hi = hi
    <3>1. /\ WellFormed(g, d) /\ g.Existence = TRUE /\ g.NodeAux = p.NodeAux
          /\ \A j : SiblingAt(g, j) = SiblingAt(p, j)
      <4>1. PICK b \in BOOLEAN : b = TRUE
        OBVIOUS
      <4>2. g = [p EXCEPT !.Existence = b]
        BY <2>3, <2>4, <4>1
      <4>3. /\ WellFormed(g, d) /\ g.Existence = b /\ g.NodeAux = p.NodeAux
            /\ \A j : SiblingAt(g, j) = SiblingAt(p, j)
        BY <1>2, <1>4, <4>2, ProofExistence
      <4> QED
        BY <4>1, <4>3
    <3>2. Generated(g, s, hi, d)
      BY <1>1, <1>4, <1>6, <2>2, <2>4, <3>1 DEF Generated
    <3> QED
      BY <3>2
  <2>5. CASE e.hi # hi
    <3>1. /\ WellFormed(g, d) /\ g.Existence = p.Existence /\ g.NodeAux = e
          /\ \A j : SiblingAt(g, j) = SiblingAt(p, j)
      <4>1. g = [p EXCEPT !.NodeAux = e]
        BY <2>3, <2>5
      <4> QED
        BY <1>2, <1>4, <2>2, <4>1, ProofAux
    <3>2. Generated(g, s, hi, d)
      BY <1>1, <1>4, <1>6, <2>2, <2>5, <3>1 DEF Generated
    <3> QED
      BY <3>2
  <2> QED
    BY <2>4, <2>5
<1> QED
  BY <1>1, <1>5, <1>6, EmptyOneMany

(* Whatever siblings a proof has: if it leads from a leaf to the root of   *)
(* a tree, the leaf is what the tree has at the end of the path.           *)
LEMMA UpSound ==
    ASSUME NEW s \in SUBSET Leaves, Fits(s, 0), NEW p, NEW d \in Nat, p.depth = d, NEW hi, NEW leaf,
           Up(p, hi, leaf)[0] = Tree[0][s]
    PROVE  d \in Levels /\ leaf = Tree[d][Under(s, hi, d)] /\ Fits(Under(s, hi, d), d)
<1> DEFINE up == Up(p, hi, leaf)
           U(l) == Under(s, hi, l)
           S == {l \in 0 .. d : l \in Levels /\ up[l] = Tree[l][U(l)] /\ Fits(U(l), l)}
<1>1. 0 \in S
  BY UnderFacts, LevelsNat
<1>2. ASSUME NEW l \in 0 .. d, l < d, l \in S PROVE l + 1 \in S
  <2>1. l \in Levels /\ up[l] = Tree[l][U(l)] /\ Fits(U(l), l) /\ l \in Nat
    BY <1>2
  <2>2. U(l) \in SUBSET Leaves
    BY UnderFacts
  <2>3. up[l] = Beside(hi, l, up[l + 1], SiblingAt(p, l))
    BY <1>2, UpDef
  <2>4. Many(U(l))
    <3>1. up[l] # HashZero /\ up[l] \notin Leaves
      BY <2>3, BesideFacts
    <3>2. U(l) # {}
      BY <2>1, <3>1, TreeEmpty
    <3> QED
      BY <2>1, <2>2, <3>1, <3>2, TreeKind
  <2>5. l + 1 \in Levels /\ l < MaxLevels
    BY <2>1, <2>4, FitsMany, LevelsNat
  <2>6. up[l] = Beside(hi, l, Tree[l + 1][Side(U(l), l, Right(hi, l))],
                              Tree[l + 1][Side(U(l), l, ~Right(hi, l))])
    BY <2>1, <2>2, <2>4, <2>5, TreeMany
  <2>7. up[l + 1] = Tree[l + 1][Side(U(l), l, Right(hi, l))]
    <3>1. OnPath(up[l], hi, l) = up[l + 1]
      BY <2>3, BesideFacts
    <3>2. OnPath(up[l], hi, l) = Tree[l + 1][Side(U(l), l, Right(hi, l))]
      BY <2>6, BesideFacts
    <3> QED
      BY <3>1, <3>2
  <2>8. U(l + 1) = Side(U(l), l, Right(hi, l))
    BY <2>1, UnderStep
  <2>9. Fits(Side(U(l), l, Right(hi, l)), l + 1)
    BY <2>1, <2>2, FitsSide, RightBool
  <2> HIDE DEF up, U
  <2> QED
    BY <1>2, <2>5, <2>7, <2>8, <2>9
<1> HIDE DEF S
<1>3. \A l \in 0 .. d : l \in S
  BY <1>1, <1>2, UpInduction
<1>4. d \in S /\ up[d] = leaf
  BY <1>3, UpDef
<1> QED
  BY <1>4 DEF S

(* No proof that VerifyProof accepts, however it was made, says of a tree  *)
(* what is not so: nothing is assumed of its depth, its bitmap and its     *)
(* siblings.                                                               *)
THEOREM AcceptedProofsSound ==
    ASSUME NEW s \in SUBSET Leaves, Fits(s, 0), NEW p, NEW d \in Nat, p.depth = d,
           p.Existence \in BOOLEAN, p.NodeAux \in Leaves \cup {None},
           NEW hi \in HIndexes, NEW hv \in HValues,
           RootFromProof(p, hi, hv) = Tree[0][s]
    PROVE  IF p.Existence THEN Leaf(hi, hv) \in s ELSE \A e \in s : e.hi # hi
<1> DEFINE leaf == ProofLeaf(p, hi, hv)
           u == Under(s, hi, d)
<1>1. /\ p.depth = d /\ p.NodeAux \in Leaves \cup {None} /\ p.Existence \in BOOLEAN
  OBVIOUS
<1>2. Tree[0][s] # None
  <2>1. 0 \in Levels
    BY LevelsNat
  <2>2. CASE s = {}
    BY <2>1, <2>2, TreeEmpty, HashZeroFacts
  <2>3. CASE s # {}
    BY <2>1, <2>3, TreeKind
  <2> QED
    BY <2>2, <2>3
<1>3. leaf # None /\ Up(p, hi, leaf)[0] = Tree[0][s]
  BY <1>2 DEF RootFromProof
<1>4. d \in Levels /\ leaf = Tree[d][u] /\ Fits(u, d)
  BY <1>1, <1>3, UpSound
<1>5. u \subseteq s /\ u \in SUBSET Leaves /\ \A e \in s : e.hi = hi => e \in u
  BY DEF Under
<1>6. leaf \in Leaves => u = {leaf}
  <2> SUFFICES ASSUME leaf \in Leaves PROVE u = {leaf}
    OBVIOUS
  <2>1. u # {}
    BY <1>4, TreeEmpty, LeafFacts
  <2>2. ~Many(u)
    <3> SUFFICES ASSUME Many(u) PROVE FALSE
      OBVIOUS
    <3>1. d < MaxLevels
      BY <1>4, FitsMany, LevelsNat
    <3>2. PICK k, other : leaf = Beside(hi, d, k, other)
      BY <1>4, <1>5, <3>1, TreeMany
    <3> QED
      BY <3>2, BesideFacts
  <2>3. PICK e \in u : u = {e}
    BY <2>1, <2>2, EmptyOneMany
  <2>4. Tree[d][{e}] = e
    BY <1>4, <1>5, TreeOne
  <2> QED
    BY <1>4, <2>3, <2>4
<1>7. leaf = HashZero => u = {}
  BY <1>4, <1>5, TreeKind
<1>8. CASE p.Existence = TRUE
  <2>1. leaf = Leaf(hi, hv) /\ leaf \in Leaves
    BY <1>8 DEF ProofLeaf, Leaves
  <2> QED
    BY <1>5, <1>6, <1>8, <2>1
<1>9. CASE p.Existence = FALSE /\ p.NodeAux = None
  <2>1. leaf = HashZero
    BY <1>9 DEF ProofLeaf
  <2> QED
    BY <1>5, <1>7, <1>9, <2>1
<1>10. CASE p.Existence = FALSE /\ p.NodeAux # None
  <2>1. leaf = p.NodeAux /\ p.NodeAux.hi # hi
    BY <1>3, <1>10 DEF ProofLeaf
  <2>2. u = {p.NodeAux}
    BY <1>1, <1>6, <1>10, <2>1
  <2> QED
    BY <1>5, <1>10, <2>1, <2>2
<1> QED
  BY <1>1, <1>8, <1>9, <1>10

LEMMA ProofSound ==
    ASSUME NEW s \in SUBSET Leaves, Fits(s, 0), NEW p, NEW d \in Nat, WellFormed(p, d),
           NEW hi \in HIndexes, NEW hv \in HValues, RootFromProof(p, hi, hv) = Tree[0][s]
    PROVE  IF p.Existence THEN Leaf(hi, hv) \in s ELSE \A e \in s : e.hi # hi
BY ProofFields, AcceptedProofsSound DEF WellFormed

(* No proof says what is not so, under whichever root and for whichever    *)
(* entry it is verified, and of whichever kind it is said to be.           *)
THEOREM Sound == Spec => []ProofsSound
<1>1. ASSUME TreeInv PROVE ProofsSound
  <2> SUFFICES ASSUME NEW w \in versions, NEW hi \in HIndexes, NEW existence \in BOOLEAN,
                      NEW other \in HIndexes, NEW hv \in HValues, NEW v \in versions,
                      v.root = RootFromProof([GenerateProof(hi, w.root) EXCEPT !.Existence = existence],
                                             other, hv)
               PROVE  IF existence THEN Leaf(other, hv) \in v.entries
                      ELSE \A e \in v.entries : e.hi # other
    BY DEF ProofsSound
  <2> DEFINE g == GenerateProof(hi, w.root)
             p == [g EXCEPT !.Existence = existence]
  <2>1. /\ Stored(w.entries, 0) /\ w.root = Tree[0][w.entries]
        /\ v.entries \in SUBSET Leaves /\ Fits(v.entries, 0) /\ v.root = Tree[0][v.entries]
    BY <1>1, RootFacts DEF TreeInv, VersionsStored
  <2>2. PICK d : Generated(g, w.entries, hi, d)
    BY <2>1, ProofGenerated
  <2>3. d \in Nat /\ WellFormed(g, d)
    BY <2>2, LevelsNat DEF Generated
  <2> HIDE DEF g
  <2>4. WellFormed(p, d) /\ p.Existence = existence
    BY <2>3, ProofExistence
  <2>5. RootFromProof(p, other, hv) = Tree[0][v.entries]
    BY <2>1 DEF g
  <2> HIDE DEF p
  <2> QED
    BY <2>1, <2>3, <2>4, <2>5, ProofSound
<1>2. TreeInv => ProofsSound
  BY <1>1
<1> QED
  BY <1>2, TreeInvariant, PTL

(* A proof that GenerateProof makes leads from what the tree has at the    *)
(* end of the path to the root.                                            *)
LEMMA UpComplete ==
    ASSUME NEW s, NEW hi, Stored(s, 0), NEW p, NEW d \in 0 .. MaxLevels - 1, p.depth = d,
           Reaches(s, hi, d), \A j \in 0 .. d - 1 : SiblingAt(p, j) = Beyond(s, hi, j),
           NEW leaf, leaf = Tree[d][Under(s, hi, d)]
    PROVE  Up(p, hi, leaf)[0] = Tree[0][s]
<1> DEFINE up == Up(p, hi, leaf)
           U(l) == Under(s, hi, l)
           S == {l \in 0 .. d : up[l] = Tree[l][U(l)]}
<1>0. d \in Nat /\ p.depth = d
  BY LevelsNat
<1>1. d \in S
  BY <1>0, UpDef
<1>2. ASSUME NEW l \in 0 .. d, l < d, l + 1 \in S PROVE l \in S
  <2>1. l \in Levels /\ l \in 0 .. d - 1 /\ l \in Nat /\ l < MaxLevels
    BY <1>2, LevelsNat
  <2>2. up[l] = Beside(hi, l, up[l + 1], SiblingAt(p, l))
    BY <1>0, <1>2, UpDef
  <2>3. Many(U(l)) /\ Reaches(s, hi, l)
    BY <2>1 DEF Reaches
  <2>4. U(l) \in SUBSET Leaves
    BY <2>1, <2>3, StoredUnder DEF Stored
  <2>5. Tree[l][U(l)] = Beside(hi, l, Tree[l + 1][Side(U(l), l, Right(hi, l))],
                                      Tree[l + 1][Side(U(l), l, ~Right(hi, l))])
    BY <2>1, <2>3, <2>4, TreeMany
  <2>6. U(l + 1) = Side(U(l), l, Right(hi, l))
    BY <2>1, UnderStep
  <2>7. up[l + 1] = Tree[l + 1][U(l + 1)]
    BY <1>2
  <2>8. SiblingAt(p, l) = Tree[l + 1][Side(U(l), l, ~Right(hi, l))]
    BY <2>1 DEF Beyond
  <2> HIDE DEF up, U
  <2>9. up[l] = Tree[l][U(l)]
    BY <2>2, <2>5, <2>6, <2>7, <2>8
  <2> QED
    BY <2>9
<1> HIDE DEF S
<1>3. \A l \in 0 .. d : l \in S
  BY <1>0, <1>1, <1>2, DownInduction
<1>4. 0 \in S
  BY <1>0, <1>3
<1> QED
  BY <1>4, UnderFacts DEF S

(* GenerateProof makes a proof of the right kind for every index and under *)
(* every root, and VerifyProof accepts it for the value in the tree only.  *)
THEOREM Verify == Spec => []ProofsVerify
<1>1. ASSUME TreeInv PROVE ProofsVerify
  <2> SUFFICES ASSUME NEW v \in versions, NEW hi \in HIndexes
               PROVE  LET p == GenerateProof(hi, v.root)
                          found == {e \in v.entries : e.hi = hi} IN
                      /\ p # None
                      /\ p.Existence <=> found # {}
                      /\ \A hv \in HValues :
                            VerifyProof(v.root, p, hi, hv) <=> (found = {} \/ Leaf(hi, hv) \in found)
    BY DEF ProofsVerify
  <2> DEFINE s == v.entries
             p == GenerateProof(hi, v.root)
             found == {e \in s : e.hi = hi}
  <2>1. Stored(s, 0) /\ v.root = Tree[0][s] /\ s \in SUBSET Leaves /\ Fits(s, 0)
    BY <1>1 DEF TreeInv, VersionsStored, Stored
  <2>2. PICK d : Generated(p, s, hi, d)
    BY <2>1, ProofGenerated
  <2> DEFINE u == Under(s, hi, d)
  <2> HIDE DEF p
  <2>3. /\ d \in 0 .. MaxLevels - 1 /\ d \in Nat /\ d \in Levels /\ Reaches(s, hi, d)
        /\ WellFormed(p, d) /\ p.depth = d /\ p \in ProofType
        /\ \A j \in 0 .. d - 1 : SiblingAt(p, j) = Beyond(s, hi, j)
    BY <2>2, LevelsNat DEF Generated, WellFormed
  <2>4. p # None
    BY <2>3, ProofNotNone
  <2>5. found \subseteq u /\ u \subseteq s
    BY DEF Under
  <2>6. ASSUME NEW hv \in HValues, ProofLeaf(p, hi, hv) = Tree[d][u], ProofLeaf(p, hi, hv) # None
        PROVE  VerifyProof(v.root, p, hi, hv)
    BY <2>1, <2>3, <2>6, UpComplete DEF VerifyProof, RootFromProof
  <2>7. CASE u = {} /\ p.Existence = FALSE /\ p.NodeAux = None
    <3>1. found = {}
      BY <2>5, <2>7
    <3>2. \A hv \in HValues : ProofLeaf(p, hi, hv) = HashZero
      BY <2>7 DEF ProofLeaf
    <3>3. Tree[d][u] = HashZero /\ HashZero # None
      BY <2>3, <2>7, TreeEmpty, HashZeroFacts
    <3> QED
      BY <2>4, <2>6, <2>7, <3>1, <3>2, <3>3 DEF p
  <2>8. ASSUME NEW e \in Leaves, u = {e}, e.hi = hi, p.Existence = TRUE
        PROVE  /\ p.Existence <=> found # {}
               /\ \A hv \in HValues :
                     VerifyProof(v.root, p, hi, hv) <=> (found = {} \/ Leaf(hi, hv) \in found)
    <3>1. found = {e}
      BY <2>5, <2>8
    <3>2. ASSUME NEW hv \in HValues, Leaf(hi, hv) \in found PROVE VerifyProof(v.root, p, hi, hv)
      <4>1. Leaf(hi, hv) = e
        BY <3>1, <3>2
      <4>2. ProofLeaf(p, hi, hv) = e /\ Tree[d][{e}] = e /\ e # None
        BY <2>3, <2>8, <4>1, TreeOne, LeafFacts DEF ProofLeaf
      <4> QED
        BY <2>6, <2>8, <4>2
    <3>3. ASSUME NEW hv \in HValues, VerifyProof(v.root, p, hi, hv) PROVE Leaf(hi, hv) \in found
      <4>1. RootFromProof(p, hi, hv) = Tree[0][s]
        BY <2>1, <3>3 DEF VerifyProof
      <4>2. Leaf(hi, hv) \in s
        BY <2>1, <2>3, <2>8, <4>1, ProofSound
      <4>3. Leaf(hi, hv).hi = hi
        BY DEF Leaf
      <4> QED
        BY <4>2, <4>3
    <3> QED
      BY <2>8, <3>1, <3>2, <3>3
  <2>9. ASSUME NEW e \in Leaves, u = {e}, e.hi # hi, p.Existence = FALSE, p.NodeAux = e
        PROVE  /\ p.Existence <=> found # {}
               /\ \A hv \in HValues :
                     VerifyProof(v.root, p, hi, hv) <=> (found = {} \/ Leaf(hi, hv) \in found)
    <3>1. found = {}
      BY <2>5, <2>9
    <3>2. Tree[d][{e}] = e /\ e # None
      BY <2>3, TreeOne, LeafFacts
    <3>3. \A hv \in HValues : ProofLeaf(p, hi, hv) = e
      BY <2>9, <3>2 DEF ProofLeaf
    <3> QED
      BY <2>6, <2>9, <3>1, <3>2, <3>3
  <2> QED
    BY <2>2, <2>4, <2>7, <2>8, <2>9 DEF Generated, p
<1>2. TreeInv => ProofsVerify
  BY <1>1
<1> QED
  BY <1>2, TreeInvariant, PTL

(* What NewProofFromBytes makes of the fields, by the flag of a NodeAux.   *)
Form(ne, na, d, ns, ws) ==
    [notExistence |-> ne, nodeAux |-> na, depth |-> d, notempties |-> ns, words |-> ws]
Made(ex, d, ns, sib, aux) ==
    [Existence |-> ex, depth |-> d, notempties |-> ns, Siblings |-> sib, NodeAux |-> aux]

LEMMA FormFields ==
    ASSUME NEW ne \in BOOLEAN, NEW na \in BOOLEAN, NEW d, NEW ns, NEW ws
    PROVE  LET bs == Form(ne, na, d, ns, ws) IN
           /\ bs.notExistence <=> ne
           /\ bs.nodeAux <=> na
           /\ bs.depth = d /\ bs.notempties = ns /\ bs.words = ws
           /\ \A less : [bs EXCEPT !.words = less] = Form(ne, na, d, ns, less)
  BY DEF Form

(* bs has the fields of p, whatever its words are.                         *)
Fields(bs, p) ==
    /\ bs.notExistence <=> ~p.Existence
    /\ bs.nodeAux <=> p.NodeAux # None
    /\ bs.depth = p.depth
    /\ bs.notempties = p.notempties
    /\ SiblingCount(bs) = Len(p.Siblings)

LEMMA FromBytesPlain ==
    ASSUME NEW p \in ProofType, NEW bs, Fields(bs, p), p.NodeAux = None,
           Len(p.Siblings) \in Nat, Len(bs.words) \in Nat
    PROVE  /\ Len(bs.words) < Len(p.Siblings) => NewProofFromBytes(bs) = None
           /\ Len(bs.words) = Len(p.Siblings) /\ SubSeq(bs.words, 1, Len(p.Siblings)) = p.Siblings
                 => NewProofFromBytes(bs) = p
  <1> DEFINE n == Len(p.Siblings)
  <1>1. p = Made(p.Existence, p.depth, p.notempties, p.Siblings, None) /\ p.Existence \in BOOLEAN
    BY ProofFields DEF Made
  <1>2. p = Made(~bs.notExistence, p.depth, p.notempties, p.Siblings, None)
    BY <1>1 DEF Fields, Made
  <1>3. ~(bs.notExistence /\ bs.nodeAux)
    BY DEF Fields
  <1>4. ASSUME Len(bs.words) < n PROVE NewProofFromBytes(bs) = None
    BY <1>4 DEF Fields, NewProofFromBytes
  <1>5. ASSUME Len(bs.words) = n, SubSeq(bs.words, 1, n) = p.Siblings PROVE NewProofFromBytes(bs) = p
    <2>1. NewProofFromBytes(bs) = Made(~bs.notExistence, p.depth, p.notempties, p.Siblings, None)
      BY <1>3, <1>5 DEF Fields, NewProofFromBytes, Made
    <2> QED
      BY <1>2, <2>1
  <1> QED
    BY <1>4, <1>5

LEMMA FromBytesAux ==
    ASSUME NEW p \in ProofType, NEW bs, Fields(bs, p), p.NodeAux # None, p.Existence = FALSE,
           Len(p.Siblings) \in Nat, Len(bs.words) \in Nat
    PROVE  LET n == Len(p.Siblings) IN
           /\ Len(bs.words) # n + 2 => NewProofFromBytes(bs) = None
           /\ (/\ Len(bs.words) = n + 2
               /\ SubSeq(bs.words, 1, n) = p.Siblings
               /\ Leaf(bs.words[n + 1], bs.words[n + 2]) = p.NodeAux)
                 => NewProofFromBytes(bs) = p
  <1> DEFINE n == Len(p.Siblings)
  <1>1. p = Made(p.Existence, p.depth, p.notempties, p.Siblings, p.NodeAux)
    BY ProofFields DEF Made
  <1>2. p = Made(~bs.notExistence, p.depth, p.notempties, p.Siblings, p.NodeAux)
    BY <1>1 DEF Fields, Made
  <1>3. bs.notExistence /\ bs.nodeAux
    BY DEF Fields
  <1>4. ASSUME Len(bs.words) # n + 2 PROVE NewProofFromBytes(bs) = None
    <2>1. Len(bs.words) - n # 2
      BY <1>4
    <2> QED
      BY <1>3, <2>1 DEF Fields, NewProofFromBytes
  <1>5. ASSUME Len(bs.words) = n + 2, SubSeq(bs.words, 1, n) = p.Siblings,
               Leaf(bs.words[n + 1], bs.words[n + 2]) = p.NodeAux
        PROVE  NewProofFromBytes(bs) = p
    <2>1. SiblingCount(bs) = n /\ bs.depth = p.depth /\ bs.notempties = p.notempties
      BY DEF Fields
    <2> DEFINE aux == Leaf(bs.words[n + 1], bs.words[n + 2])
    <2>3. ~(Len(bs.words) < n) /\ Len(bs.words) - n = 2
      BY <1>5
    <2>4. aux = Leaf(bs.words[SiblingCount(bs) + 1], bs.words[SiblingCount(bs) + 2])
      BY <2>1
    <2> HIDE DEF n, aux
    <2>2. NewProofFromBytes(bs)
             = Made(~bs.notExistence, bs.depth, bs.notempties, SubSeq(bs.words, 1, n), aux)
      BY <1>3, <2>1, <2>3, <2>4 DEF NewProofFromBytes, Made
    <2> QED
      BY <1>2, <1>5, <2>1, <2>2 DEF aux
  <1> QED
    BY <1>4, <1>5

(* Words and what is left of them when one is lost.                        *)
LEMMA WordsFacts ==
    ASSUME NEW V, NEW a \in Seq(V), NEW b \in Seq(V)
    PROVE  LET ws == a \o b
               less == SubSeq(ws, 1, Len(ws) - 1) IN
           /\ ws \in Seq(V)
           /\ Len(ws) = Len(a) + Len(b)
           /\ SubSeq(ws, 1, Len(a)) = a
           /\ \A i \in 1 .. Len(b) : ws[Len(a) + i] = b[i]
           /\ ws # <<>> => Len(less) = Len(ws) - 1 /\ Len(ws) > 0
  <1> DEFINE ws == a \o b
             less == SubSeq(ws, 1, Len(ws) - 1)
  <1>1. ws \in Seq(V) /\ Len(ws) = Len(a) + Len(b) /\ Len(a) \in Nat /\ Len(b) \in Nat
    OBVIOUS
  <1>2. \A i \in 1 .. Len(a) : ws[i] = a[i]
    OBVIOUS
  <1>3. \A i \in 1 .. Len(b) : ws[Len(a) + i] = b[i]
    OBVIOUS
  <1> HIDE DEF ws
  <1>4. SubSeq(ws, 1, Len(a)) = a
    BY <1>1, <1>2
  <1>5. ws # <<>> => Len(ws) > 0
    BY <1>1
  <1>6. ASSUME Len(ws) > 0 PROVE Len(less) = Len(ws) - 1
    BY <1>1, <1>6
  <1> QED
    BY <1>1, <1>3, <1>4, <1>5, <1>6 DEF ws

(* NewProofFromBytes of the Bytes of a proof that GenerateProof has made   *)
(* is that proof, and with a word less it is an error.                     *)
THEOREM SurviveBytes == Spec => []ProofsSurviveBytes
<1>1. ASSUME TreeInv PROVE ProofsSurviveBytes
  <2> SUFFICES ASSUME NEW v \in versions, NEW hi \in HIndexes
               PROVE  LET p == GenerateProof(hi, v.root)
                          bs == Bytes(p)
                          less == SubSeq(bs.words, 1, Len(bs.words) - 1) IN
                      /\ NewProofFromBytes(bs) = p
                      /\ bs.words # <<>> => NewProofFromBytes([bs EXCEPT !.words = less]) = None
    BY DEF ProofsSurviveBytes
  <2> DEFINE s == v.entries
             p == GenerateProof(hi, v.root)
             V == Keys \cup HIndexes \cup HValues
             n == Len(p.Siblings)
  <2>1. Stored(s, 0) /\ v.root = Tree[0][s]
    BY <1>1 DEF TreeInv, VersionsStored
  <2>2. PICK d : Generated(p, s, hi, d)
    BY <2>1, ProofGenerated
  <2> SUFFICES LET bs == Bytes(p)
                   less == SubSeq(bs.words, 1, Len(bs.words) - 1) IN
                /\ NewProofFromBytes(bs) = p
                /\ bs.words # <<>> => NewProofFromBytes([bs EXCEPT !.words = less]) = None
    OBVIOUS
  <2> HIDE DEF p
  <2>3. /\ p \in ProofType /\ p.depth = d /\ d \in Nat /\ p.notempties \subseteq 0 .. d - 1
        /\ n = Cardinality(p.notempties)
        /\ p.Existence = TRUE => p.NodeAux = None
        /\ p.depth % 256 = p.depth
    BY <2>2, LevelsNat, MerkleTreeAssumption DEF Generated, WellFormed, MaxBits
  <2>4. /\ p = Made(p.Existence, p.depth, p.notempties, p.Siblings, p.NodeAux)
        /\ p.Existence \in BOOLEAN /\ p.NodeAux \in Leaves \cup {None}
    BY <2>3, ProofFields DEF Made
  <2>5. p.Siblings \in Seq(V) /\ n \in Nat
    <3>1. p.Siblings \in Seq(Keys)
      BY <2>3, ProofFields
    <3> QED
      BY <3>1
  <2>6. n = Cardinality({lvl \in p.notempties : lvl < p.depth})
    <3>1. {lvl \in p.notempties : lvl < d} = p.notempties
      BY <2>3
    <3> QED
      BY <2>3, <3>1
  <2> HIDE DEF V, n
  <2>7. PICK ne \in BOOLEAN : ne <=> ~p.Existence
    BY <2>4
  <2>8. PICK na \in BOOLEAN : na <=> p.NodeAux # None
    OBVIOUS
  <2>9. ASSUME NEW ws PROVE Fields(Form(ne, na, p.depth, p.notempties, ws), p)
    <3> DEFINE form == Form(ne, na, p.depth, p.notempties, ws)
    <3>1. /\ form.notExistence <=> ne
          /\ form.nodeAux <=> na
          /\ form.depth = p.depth /\ form.notempties = p.notempties
      BY FormFields
    <3> HIDE DEF form
    <3>2. SiblingCount(form) = n
      BY <2>6, <3>1 DEF SiblingCount
    <3>3. Fields(form, p)
      BY <2>7, <2>8, <3>1, <3>2 DEF Fields, n
    <3> QED
      BY <3>3 DEF form
  <2>10. ASSUME NEW b \in Seq(V),
                Bytes(p) = Form(ne, na, p.depth, p.notempties, p.Siblings \o b),
                \/ p.NodeAux = None /\ Len(b) = 0
                \/ /\ p.NodeAux # None /\ p.NodeAux \in Leaves /\ Len(b) = 2
                   /\ b[1] = p.NodeAux.hi /\ b[2] = p.NodeAux.hv
         PROVE  LET bs == Bytes(p)
                    less == SubSeq(bs.words, 1, Len(bs.words) - 1) IN
                /\ NewProofFromBytes(bs) = p
                /\ bs.words # <<>> => NewProofFromBytes([bs EXCEPT !.words = less]) = None
    <3> DEFINE ws == p.Siblings \o b
               less == SubSeq(ws, 1, Len(ws) - 1)
               bs == Form(ne, na, p.depth, p.notempties, ws)
               cut == Form(ne, na, p.depth, p.notempties, less)
    <3>1. /\ Len(ws) = n + Len(b) /\ SubSeq(ws, 1, n) = p.Siblings
          /\ \A i \in 1 .. Len(b) : ws[n + i] = b[i]
          /\ ws # <<>> => Len(less) = Len(ws) - 1 /\ Len(ws) > 0
      BY <2>5, WordsFacts DEF n
    <3>2. Fields(bs, p) /\ Fields(cut, p)
      BY <2>9
    <3>3. bs.words = ws /\ cut.words = less /\ [bs EXCEPT !.words = less] = cut
      <4> HIDE DEF ws, less
      <4>1. bs.words = ws /\ [bs EXCEPT !.words = less] = cut
        BY FormFields
      <4>2. cut.words = less
        BY FormFields
      <4> QED
        BY <4>1, <4>2
    <3> HIDE DEF ws, less, bs, cut
    <3>4. Len(b) \in Nat /\ Len(ws) \in Nat
      BY <2>5, <3>1
    <3>5. CASE p.NodeAux = None
      <4>1. Len(b) = 0
        BY <2>10, <3>5
      <4>2. NewProofFromBytes(bs) = p
        BY <2>3, <2>5, <3>1, <3>2, <3>3, <3>4, <3>5, <4>1, FromBytesPlain DEF n
      <4>3. ws # <<>> => NewProofFromBytes(cut) = None
        <5>1. ws # <<>> => Len(less) \in Nat /\ Len(less) < n
          BY <2>5, <3>1, <4>1
        <5> QED
          BY <2>3, <2>5, <3>2, <3>3, <3>5, <5>1, FromBytesPlain DEF n
      <4> QED
        BY <2>10, <3>3, <4>2, <4>3 DEF bs, less, ws
    <3>6. CASE p.NodeAux # None
      <4>1. /\ Len(b) = 2 /\ p.NodeAux \in Leaves /\ p.Existence = FALSE
            /\ b[1] = p.NodeAux.hi /\ b[2] = p.NodeAux.hv
        BY <2>3, <2>4, <2>10, <3>6
      <4>2. ws[n + 1] = p.NodeAux.hi /\ ws[n + 2] = p.NodeAux.hv
        <5>1. 1 \in 1 .. Len(b) /\ 2 \in 1 .. Len(b)
          BY <4>1
        <5> QED
          BY <3>1, <4>1, <5>1
      <4>3. Leaf(ws[n + 1], ws[n + 2]) = p.NodeAux
        BY <4>1, <4>2, LeafFacts
      <4>4. NewProofFromBytes(bs) = p
        <5>1. Len(bs.words) = n + 2 /\ SubSeq(bs.words, 1, n) = p.Siblings
          BY <3>1, <3>3, <4>1
        <5>2. Leaf(bs.words[n + 1], bs.words[n + 2]) = p.NodeAux
          BY <3>3, <4>3
        <5>3. Len(bs.words) \in Nat
          BY <3>3, <3>4
        <5> QED
          BY <2>3, <2>5, <3>2, <3>6, <4>1, <5>1, <5>2, <5>3, FromBytesAux DEF n
      <4>5. ws # <<>> => NewProofFromBytes(cut) = None
        <5>1. ws # <<>> => Len(less) \in Nat /\ Len(less) # n + 2
          BY <2>5, <3>1, <4>1
        <5> QED
          BY <2>3, <2>5, <3>2, <3>3, <3>6, <4>1, <5>1, FromBytesAux DEF n
      <4> QED
        BY <2>10, <3>3, <4>4, <4>5 DEF bs, less, ws
    <3> QED
      BY <3>5, <3>6
  <2>11. CASE p.NodeAux = None
    <3>1. Bytes(p) = Form(ne, na, p.depth, p.notempties, p.Siblings \o <<>>)
      BY <2>3, <2>7, <2>8, <2>11 DEF Bytes, Form
    <3>2. <<>> \in Seq(V) /\ Len(<<>>) = 0
      OBVIOUS
    <3> QED
      BY <2>10, <2>11, <3>1, <3>2
  <2>12. CASE p.NodeAux # None
    <3> DEFINE b == <<p.NodeAux.hi, p.NodeAux.hv>>
    <3>1. Bytes(p) = Form(ne, na, p.depth, p.notempties, p.Siblings \o b)
      BY <2>3, <2>7, <2>8, <2>12 DEF Bytes, Form
    <3>2. p.NodeAux \in Leaves /\ p.NodeAux.hi \in HIndexes /\ p.NodeAux.hv \in HValues
      BY <2>4, <2>12, LeafFacts
    <3>3. b \in Seq(V) /\ Len(b) = 2 /\ b[1] = p.NodeAux.hi /\ b[2] = p.NodeAux.hv
      BY <3>2 DEF V
    <3> HIDE DEF b
    <3> QED
      BY <2>10, <2>12, <3>1, <3>2, <3>3
  <2> QED
    BY <2>11, <2>12
<1>2. TreeInv => ProofsSurviveBytes
  BY <1>1
<1> QED
  BY <1>2, TreeInvariant, PTL

-----------------------------------------------------------------------------
(* What AddEntry refuses.                                                  *)

(* No node above new is in the storage.                                    *)
Fresh(new) ==
    \A j \in Levels, w \in SUBSET Leaves : new \in w /\ Fits(w, j) => Tree[j][w] \notin nodes

(* The path of hi does not part from that of the leaf in time.             *)
Clashes(e, hi, lvl) == \A i \in lvl .. MaxLevels - 2 : Right(e.hi, i) = Right(hi, i)

(* What an insertion below a node with the leaves s has to say.            *)
Outcome(s, hi, lvl) ==
    IF \E e \in s : e.hi = hi THEN "exists"
    ELSE IF \E e \in s : Clashes(e, hi, lvl) THEN "maxlevel" ELSE "ok"

LEMMA FreshAlone ==
    ASSUME NEW new \in Leaves, Fresh(new)
    PROVE  addNode(new, {}).err = "ok" /\ addNode(new, {}).key = new
<1>1. 0 \in Levels /\ {new} \in SUBSET Leaves /\ new \in {new} /\ Fits({new}, 0)
  BY LevelsNat DEF Fits
<1>2. Tree[0][{new}] = new
  BY <1>1, TreeOne
<1>3. new \notin nodes
  BY <1>1, <1>2 DEF Fresh
<1> QED
  BY <1>3, AddNodeOk

(* From the level below to this one: no node of the way up was there.      *)
LEMMA CombineOk ==
    ASSUME NEW s \in SUBSET Leaves, NEW l \in Levels, l < MaxLevels - 1, Fits(s, l), s # {},
           NEW new \in Leaves, Fresh(new), NEW next, NEW other, next.err = "ok",
           Inserted(next, Side(s, l, Right(new.hi, l)), new, l + 1),
           other = Tree[l + 1][Side(s, l, ~Right(new.hi, l))]
    PROVE  Then(next, Beside(new.hi, l, next.key, other)).err = "ok"
<1> DEFINE t == s \cup {new}
           b == Right(new.hi, l)
           k == Beside(new.hi, l, next.key, other)
<1>1. /\ next.key = Tree[l + 1][Side(s, l, b) \cup {new}]
      /\ next.put \subseteq Held[l + 1][Side(s, l, b) \cup {new}]
      /\ Fits(Side(s, l, b) \cup {new}, l + 1)
  BY DEF Inserted
<1>2. t \in SUBSET Leaves /\ Many(t) /\ l < MaxLevels /\ l + 1 \in Levels
  <2>1. new \notin s
    BY Zenon DEF Inserted, Side
  <2> QED
    BY <2>1, LevelsNat DEF Many
<1>3. Side(t, l, b) = Side(s, l, b) \cup {new} /\ Side(t, l, ~b) = Side(s, l, ~b)
  BY AddSides
<1>4. Tree[l][t] = Beside(new.hi, l, Tree[l + 1][Side(t, l, b)], Tree[l + 1][Side(t, l, ~b)])
  BY <1>2, TreeMany
<1>5. Tree[l][t] = k
  BY <1>1, <1>3, <1>4
<1>6. Fits(t, l)
  BY <1>1, FitsAdd
<1>7. k \notin nodes
  <2>1. new \in t
    OBVIOUS
  <2> HIDE DEF t, k
  <2> QED
    BY <1>2, <1>5, <1>6, <2>1 DEF Fresh
<1>8. k \notin next.put
  <2>1. b \in BOOLEAN
    BY RightBool
  <2>2. Tree[l][t] \notin Held[l + 1][Side(t, l, b)]
    BY <1>2, <1>6, <2>1, TreeNotHeld
  <2> QED
    BY <1>1, <1>3, <1>5, <2>2
<1> HIDE DEF k
<1>9. Then(next, k) = addNode(k, next.put)
  BY DEF Then
<1>10. Then(next, k).err = "ok"
  BY <1>7, <1>8, <1>9, AddNodeOk
<1> QED
  BY <1>10 DEF k

LEMMA ThenFails == ASSUME NEW next, NEW k, next.err # "ok" PROVE Then(next, k) = next
BY DEF Then

LEMMA PushOutcome ==
    ASSUME NEW new \in Leaves, NEW old \in Leaves, new.hi # old.hi, old \in nodes, Fresh(new)
    PROVE  \A l \in Levels : pushLeaf(new, old)[l].err =
              IF Clashes(old, new.hi, l) THEN "maxlevel" ELSE "ok"
<1> DEFINE push == pushLeaf(new, old)
           S == {l \in Levels : push[l].err = IF Clashes(old, new.hi, l) THEN "maxlevel" ELSE "ok"}
<1>1. ASSUME NEW l \in Levels, TooDeep(l) PROVE l \in S
  <2>1. push[l].err = "maxlevel"
    BY <1>1, PushDef, FailedErr
  <2>2. l .. MaxLevels - 2 = {}
    BY <1>1, LevelsNat DEF TooDeep
  <2> QED
    BY <2>1, <2>2 DEF Clashes
<1>2. MaxLevels \in S
  BY <1>1, LevelsNat DEF TooDeep
<1>3. ASSUME NEW l \in 0 .. MaxLevels, l < MaxLevels, l + 1 \in S PROVE l \in S
  <2> DEFINE b == Right(new.hi, l)
  <2>1. l \in Levels /\ l + 1 \in Levels
    BY <1>3, LevelsNat
  <2>2. CASE TooDeep(l)
    BY <1>1, <2>1, <2>2
  <2>3. CASE ~TooDeep(l)
    <3>1. l < MaxLevels - 1 /\ l \in l .. MaxLevels - 2
      BY <2>1, <2>3, LevelsNat DEF TooDeep
    <3>2. {old} \in SUBSET Leaves /\ Fits({old}, l) /\ {old} # {}
      BY DEF Fits
    <3>3. CASE Right(new.hi, l) = Right(old.hi, l)
      <4>1. push[l] = Then(push[l + 1], Beside(new.hi, l, push[l + 1].key, HashZero))
        BY <2>1, <2>3, <3>3, PushDef
      <4>2. Side({old}, l, b) = {old} /\ Side({old}, l, ~b) = {}
        BY <3>3, RightBool DEF Side
      <4>3. Clashes(old, new.hi, l) <=> Clashes(old, new.hi, l + 1)
        <5>1. l .. MaxLevels - 2 = {l} \cup (l + 1 .. MaxLevels - 2)
          BY <2>1, <3>1, LevelsNat
        <5> QED
          BY <3>3, <5>1 DEF Clashes
      <4>4. CASE Clashes(old, new.hi, l)
        <5>1. push[l + 1].err = "maxlevel"
          BY <1>3, <4>3, <4>4
        <5>2. push[l] = push[l + 1]
          BY <4>1, <5>1, ThenFails
        <5> QED
          BY <2>1, <4>4, <5>1, <5>2
      <4>5. CASE ~Clashes(old, new.hi, l)
        <5>1. push[l + 1].err = "ok"
          BY <1>3, <4>3, <4>5
        <5>2. Inserted(push[l + 1], {old}, new, l + 1)
          BY <2>1, <5>1, PushInserts
        <5>3. HashZero = Tree[l + 1][{}]
          BY <2>1, TreeEmpty
        <5>4. push[l].err = "ok"
          <6> DEFINE one == {old}
          <6>1. /\ Inserted(push[l + 1], Side(one, l, b), new, l + 1)
                /\ HashZero = Tree[l + 1][Side(one, l, ~b)]
                /\ one \in SUBSET Leaves /\ Fits(one, l) /\ one # {}
            BY <3>2, <4>2, <5>2, <5>3
          <6> HIDE DEF push, one
          <6> QED
            BY <2>1, <3>1, <4>1, <5>1, <6>1, CombineOk
        <5> QED
          BY <2>1, <4>5, <5>4
      <4> QED
        BY <4>4, <4>5
    <3>4. CASE Right(new.hi, l) # Right(old.hi, l)
      <4> DEFINE next == addNode(new, {})
      <4>1. push[l] = Then(next, Beside(new.hi, l, new, old))
        BY <2>1, <2>3, <3>4, PushDef
      <4>2. Side({old}, l, b) = {} /\ Side({old}, l, ~b) = {old}
        BY <3>4, RightBool DEF Side
      <4>3. ~Clashes(old, new.hi, l)
        BY <3>1, <3>4 DEF Clashes
      <4>4. next.err = "ok" /\ next.key = new
        BY FreshAlone
      <4>5. Inserted(next, {}, new, l + 1)
        BY <2>1, <4>4, AddAlone
      <4>6. old = Tree[l + 1][{old}]
        BY <2>1, TreeOne
      <4>7. push[l].err = "ok"
        <5>1. push[l] = Then(next, Beside(new.hi, l, next.key, old))
          BY <4>1, <4>4
        <5> DEFINE one == {old}
        <5> HIDE DEF push, next
        <5>2. /\ Inserted(next, Side(one, l, b), new, l + 1)
              /\ old = Tree[l + 1][Side(one, l, ~b)]
              /\ one \in SUBSET Leaves /\ Fits(one, l) /\ one # {}
          BY <3>2, <4>2, <4>5, <4>6
        <5> HIDE DEF one
        <5> QED
          BY <2>1, <3>1, <4>4, <5>1, <5>2, CombineOk
      <4> QED
        BY <2>1, <4>3, <4>7
    <3> QED
      BY <3>3, <3>4
  <2> QED
    BY <2>2, <2>3
<1> HIDE DEF S
<1>4. \A l \in 0 .. MaxLevels : l \in S
  BY <1>2, <1>3, LevelsNat, DownInduction
<1> QED
  BY <1>4, LevelsNat DEF S

(* One level further down the outcome is the same.                         *)
LEMMA OutcomeStep ==
    ASSUME NEW s, NEW hi, NEW l \in Nat, l < MaxLevels - 1
    PROVE  Outcome(Under(s, hi, l), hi, l) = Outcome(Under(s, hi, l + 1), hi, l + 1)
<1>1. Under(s, hi, l + 1) = {e \in Under(s, hi, l) : Right(e.hi, l) = Right(hi, l)}
  BY UnderStep DEF Side
<1>2. l .. MaxLevels - 2 = {l} \cup (l + 1 .. MaxLevels - 2)
  BY LevelsNat
<1>3. \A e : Clashes(e, hi, l) <=> Clashes(e, hi, l + 1) /\ Right(e.hi, l) = Right(hi, l)
  BY <1>2 DEF Clashes
<1>4. (\E e \in Under(s, hi, l) : e.hi = hi) <=> (\E e \in Under(s, hi, l + 1) : e.hi = hi)
  BY <1>1
<1>5. (\E e \in Under(s, hi, l) : Clashes(e, hi, l))
        <=> (\E e \in Under(s, hi, l + 1) : Clashes(e, hi, l + 1))
  BY <1>1, <1>3
<1> QED
  BY <1>4, <1>5 DEF Outcome

LEMMA AddOutcome ==
    ASSUME NEW s, Stored(s, 0), NEW new \in Leaves, (\A e \in s : e.hi # new.hi) => Fresh(new)
    PROVE  addLeaf(new, Tree[0][s])[0].err = Outcome(s, new.hi, 0)
<1> DEFINE add == addLeaf(new, Tree[0][s])
           at == Path(Tree[0][s], new.hi)
           U(l) == Under(s, new.hi, l)
           S == {l \in Levels : Reaches(s, new.hi, l) => add[l].err = Outcome(U(l), new.hi, l)}
<1>1. MaxLevels \in S
  <2> SUFFICES ASSUME Reaches(s, new.hi, MaxLevels) PROVE FALSE
    BY LevelsNat
  <2>1. /\ MaxLevels - 1 \in Levels /\ Reaches(s, new.hi, MaxLevels - 1)
        /\ Many(U(MaxLevels - 1))
    BY LevelsNat DEF Reaches
  <2>2. Fits(U(MaxLevels - 1), MaxLevels - 1)
    BY <2>1, StoredUnder DEF Stored
  <2> QED
    BY <2>1, <2>2, FitsMany, LevelsNat
<1>2. ASSUME NEW l \in 0 .. MaxLevels, l < MaxLevels, l + 1 \in S PROVE l \in S
  <2> SUFFICES ASSUME Reaches(s, new.hi, l) PROVE add[l].err = Outcome(U(l), new.hi, l)
    BY LevelsNat
  <2>1. l \in Levels /\ l + 1 \in Levels /\ ~(l > MaxLevels - 1) /\ l \in Nat
    BY <1>2, LevelsNat
  <2>2. Stored(U(l), l)
    BY <2>1, StoredUnder
  <2>3. at[l] = Tree[l][U(l)]
    BY <2>1, PathAt
  <2>4. (\A e \in U(l) : e.hi # new.hi) => Fresh(new)
    BY DEF Under
  <2>5. CASE U(l) = {}
    <3>1. TypeOf(at[l]) = "empty"
      <4>1. at[l] = HashZero
        BY <2>1, <2>3, <2>5, TreeEmpty
      <4> QED
        BY <4>1 DEF TypeOf
    <3>2. add[l] = addNode(new, {})
      BY <2>1, <3>1, AddDef
    <3>3. add[l].err = "ok"
      BY <2>4, <2>5, <3>2, FreshAlone
    <3> QED
      BY <2>5, <3>3 DEF Outcome
  <2>6. ASSUME NEW e, U(l) = {e} PROVE add[l].err = Outcome(U(l), new.hi, l)
    <3>1. at[l] = e /\ e \in nodes /\ e \in Leaves /\ TypeOf(at[l]) = "leaf"
      <4>1. Stored({e}, l) /\ at[l] = Tree[l][{e}]
        BY <2>2, <2>3, <2>6
      <4> QED
        BY <2>1, <4>1, StoredOne
    <3>2. add[l] = IF e.hi = new.hi THEN Failed("exists") ELSE pushLeaf(new, e)[l]
      BY <2>1, <3>1, AddDef
    <3>3. Outcome({e}, new.hi, l) = IF e.hi = new.hi THEN "exists"
                                    ELSE IF Clashes(e, new.hi, l) THEN "maxlevel" ELSE "ok"
      BY DEF Outcome
    <3>4. CASE e.hi = new.hi
      BY <2>6, <3>2, <3>3, <3>4, FailedErr
    <3>5. CASE e.hi # new.hi
      <4>1. Fresh(new) /\ add[l] = pushLeaf(new, e)[l]
        BY <2>4, <2>6, <3>2, <3>5
      <4>2. pushLeaf(new, e)[l].err = IF Clashes(e, new.hi, l) THEN "maxlevel" ELSE "ok"
        BY <2>1, <3>1, <3>5, <4>1, PushOutcome
      <4> QED
        BY <2>6, <3>3, <3>5, <4>1, <4>2
    <3> QED
      BY <3>4, <3>5
  <2>7. CASE Many(U(l))
    <3> DEFINE b == Right(new.hi, l)
               other == OffPath(at[l], new.hi, l)
    <3>1. TypeOf(at[l]) = "middle" /\ U(l) \in SUBSET Leaves /\ Fits(U(l), l)
      BY <2>1, <2>2, <2>3, <2>7, TreeType DEF Stored
    <3>2. add[l] = Then(add[l + 1], Beside(new.hi, l, add[l + 1].key, other))
      BY <2>1, <3>1, AddDef
    <3>3. l < MaxLevels - 1 /\ U(l) # {}
      BY <2>1, <2>7, <3>1, FitsMany DEF Many
    <3>4. Reaches(s, new.hi, l + 1)
      BY <2>1, <2>7 DEF Reaches
    <3>5. add[l + 1].err = Outcome(U(l), new.hi, l)
      <4>1. add[l + 1].err = Outcome(U(l + 1), new.hi, l + 1)
        BY <1>2, <3>4
      <4>2. Outcome(U(l), new.hi, l) = Outcome(U(l + 1), new.hi, l + 1)
        BY <2>1, <3>3, OutcomeStep
      <4> QED
        BY <4>1, <4>2
    <3>6. CASE add[l + 1].err # "ok"
      BY <3>2, <3>5, <3>6, ThenFails
    <3>7. CASE add[l + 1].err = "ok"
      <4>1. Fresh(new)
        BY <2>4, <3>5, <3>7 DEF Outcome
      <4>2. Inserted(add[l + 1], U(l + 1), new, l + 1)
        BY <2>1, <3>4, <3>7, AddInsertsBelow
      <4>3. U(l + 1) = Side(U(l), l, b)
        BY <2>1, UnderStep
      <4>4. at[l] = Beside(new.hi, l, Tree[l + 1][Side(U(l), l, b)],
                                      Tree[l + 1][Side(U(l), l, ~b)])
        BY <1>2, <2>1, <2>3, <2>7, <3>1, TreeMany
      <4>5. other = Tree[l + 1][Side(U(l), l, ~b)]
        BY <4>4, BesideFacts
      <4>6. Inserted(add[l + 1], Side(U(l), l, b), new, l + 1)
        BY <4>2, <4>3
      <4>7. add[l].err = "ok"
        <5> HIDE DEF add, at, U, b, other
        <5> QED
          BY <2>1, <3>1, <3>2, <3>3, <3>7, <4>1, <4>5, <4>6, CombineOk DEF b
      <4> QED
        BY <3>5, <3>7, <4>7
    <3> QED
      BY <3>6, <3>7
  <2> QED
    BY <2>5, <2>6, <2>7 DEF Many
<1> HIDE DEF S
<1>3. \A l \in 0 .. MaxLevels : l \in S
  BY <1>1, <1>2, LevelsNat, DownInduction
<1>4. 0 \in S /\ Reaches(s, new.hi, 0) /\ U(0) = s
  BY <1>3, LevelsNat, UnderFacts DEF Reaches
<1> QED
  BY <1>4 DEF S

(* AddEntry refuses, as long as no operation of the storage has failed,    *)
(* only an index that is there and an entry whose path parts too late: no  *)
(* node that the insertion needs is missing, and none that it has to make  *)
(* is there from an earlier version.  It refuses everything in a tree that *)
(* was imported with its bare root and opened again, and in no other.      *)
THEOREM AcceptsWhatFits == Spec => []AddEntryAcceptsWhatFits
<1>1. ASSUME TreeInv PROVE AddEntryAcceptsWhatFits
  <2>0. RootKnown /\ \A hi \in HIndexes, hv \in HValues : Leaf(hi, hv) \in Leaves
    BY <1>1 DEF TreeInv, Leaves
  <2> SUFFICES ASSUME open, faults = 0, rootKey \in Roots, NEW hi \in HIndexes, NEW hv \in HValues
               PROVE  addLeaf(Leaf(hi, hv), rootKey)[0].err = Refusal(hi)
    <3>1. open /\ faults = 0 /\ rootKey \notin Roots => currentroot.type = "untyped"
      BY <2>0 DEF RootKnown
    <3>2. open /\ rootKey \notin Roots => \A hi \in HIndexes, hv \in HValues :
                                              addLeaf(Leaf(hi, hv), rootKey)[0].err = "notfound"
      BY <2>0, AddNotFound
    <3> QED
      BY <3>1, <3>2 DEF AddEntryAcceptsWhatFits
  <2> DEFINE new == Leaf(hi, hv)
  <2>1. VersionsStored /\ NodesHeld /\ Newest(rootKey)
    BY <1>1 DEF TreeInv, NothingLost
  <2>2. PICK v \in versions : v.root = rootKey
    BY DEF Roots
  <2> DEFINE s == v.entries
  <2>3. EntriesOf(rootKey) = s /\ rootKey = Tree[0][s] /\ Stored(s, 0)
    BY <2>1, <2>2, EntriesFacts DEF VersionsStored
  <2>4. new \in Leaves /\ new.hi = hi
    BY DEF Leaves, Leaf
  <2> HIDE DEF new
  <2>5. ASSUME \A e \in s : e.hi # new.hi PROVE Fresh(new)
    <3> SUFFICES ASSUME NEW j \in Levels, NEW w \in SUBSET Leaves, new \in w, Fits(w, j),
                        Tree[j][w] \in nodes
                 PROVE  FALSE
      BY DEF Fresh
    <3>1. PICK x \in versions : Tree[j][w] \in Held[0][x.entries]
      BY <2>1 DEF NodesHeld
    <3>2. x.entries \in SUBSET Leaves /\ Fits(x.entries, 0) /\ 0 \in Levels
      BY <2>1, RootFacts, LevelsNat
    <3>3. PICK i \in Levels, y \in SUBSET x.entries : Fits(y, i) /\ Tree[j][w] = Tree[i][y]
      BY <3>1, <3>2, HeldTree
    <3>4. y \in SUBSET Leaves
      BY <3>2
    <3>5. w = y
      BY <3>3, <3>4, TreeInjective
    <3>6. x.entries \subseteq s
      BY <2>1, <2>2 DEF Newest
    <3> QED
      BY <2>5, <3>5, <3>6
  <2>6. addLeaf(new, rootKey)[0].err = Outcome(s, new.hi, 0)
    BY <2>3, <2>4, <2>5, AddOutcome
  <2> QED
    BY <2>3, <2>4, <2>6 DEF Outcome, Clashes, Refusal, new
<1>2. TreeInv => AddEntryAcceptsWhatFits
  BY <1>1
<1> QED
  BY <1>2, TreeInvariant, PTL

=============================================================================
