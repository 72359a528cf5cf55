--------------------------- MODULE KVStorageProofs --------------------------
(***************************************************************************)
(* Proofs, for every set of prefixes, keys, values and transactions, every *)
(* bound on the list and every number of failed commits and crashes, of    *)
(* the safety properties of KVStorage.                                     *)
(***************************************************************************)
EXTENDS KVStorage, TLAPS

-----------------------------------------------------------------------------
(* Where a view can put something: its prefix and a key, and the full key. *)
Addresses == ({Root} \X OwnKeys) \cup (TreePrefixes \X TreeKeys)
At(x) == concat(x[1], x[2])

(* What the sequences that make up the keys consist of.                    *)
KeyStrings == TreePrefixes \cup TreeKeys \cup OwnKeys \cup {Root}
KeyParts == UNION {{s[i] : i \in 1 .. Len(s)} : s \in KeyStrings}

(* Two concatenations that are equal begin alike.                          *)
LEMMA EqualConcats ==
    ASSUME NEW E, NEW p \in Seq(E), NEW q \in Seq(E), NEW k \in Seq(E), NEW l \in Seq(E),
           p \o k = q \o l, Len(p) <= Len(q)
    PROVE  IsPrefix(p, q)
<1>1. Len(p) \in Nat /\ Len(q) \in Nat
  OBVIOUS
<1>2. \A i \in 1 .. Len(p) : p[i] = q[i]
  <2> SUFFICES ASSUME NEW i \in 1 .. Len(p) PROVE p[i] = q[i]
    OBVIOUS
  <2>1. (p \o k)[i] = p[i]
    OBVIOUS
  <2>2. (q \o l)[i] = q[i]
    BY <1>1
  <2> QED
    BY <2>1, <2>2
<1> QED
  BY <1>1, <1>2 DEF IsPrefix

(* What follows a prefix.                                                  *)
LEMMA ConcatTail ==
    ASSUME NEW E, NEW p \in Seq(E), NEW k \in Seq(E)
    PROVE  /\ SubSeq(p \o k, Len(p) + 1, Len(p \o k)) = k
           /\ Len(p \o k) = Len(p) + Len(k) /\ Len(p) \in Nat /\ Len(k) \in Nat
           /\ SubSeq(p \o k, 1, Len(p)) = p
<1>1. Len(p \o k) = Len(p) + Len(k) /\ Len(p) \in Nat /\ Len(k) \in Nat
  OBVIOUS
<1>2. SubSeq(p \o k, 1, Len(p)) = p
  OBVIOUS
<1>3. SubSeq(p \o k, Len(p) + 1, Len(p \o k)) = k
  OBVIOUS
<1> QED
  BY <1>1, <1>2, <1>3

(* A prefix is a prefix.                                                   *)
LEMMA ConcatPrefix ==
    ASSUME NEW E, NEW p \in Seq(E), NEW k \in Seq(E) PROVE IsPrefix(p, p \o k)
BY ConcatTail DEF IsPrefix

(* The strings of the keys are sequences.                                  *)
LEMMA KeyStringsAreSequences == \A s \in KeyStrings : s \in Seq(KeyParts)
<1>1. \A s \in KeyStrings : s = [i \in 1 .. Len(s) |-> s[i]] /\ Len(s) \in Nat
  <2>1. \A E : \A s \in Seq(E) : s = [i \in 1 .. Len(s) |-> s[i]] /\ Len(s) \in Nat
    OBVIOUS
  <2>2. \A a : <<a>> \in Seq({a})
    OBVIOUS
  <2>3. \A a, b : <<a, b>> \in Seq({a, b})
    OBVIOUS
  <2>4. Root \in Seq({})
    BY DEF Root
  <2>5. \A a : <<a>> = [i \in 1 .. Len(<<a>>) |-> <<a>>[i]] /\ Len(<<a>>) \in Nat
    BY <2>1, <2>2
  <2>6. \A a, b : <<a, b>> = [i \in 1 .. Len(<<a, b>>) |-> <<a, b>>[i]] /\ Len(<<a, b>>) \in Nat
    BY <2>1, <2>3
  <2>7. Root = [i \in 1 .. Len(Root) |-> Root[i]] /\ Len(Root) \in Nat
    BY <2>1, <2>4
  <2>8. \A s \in OwnKeys : (\E a : s = <<a>>) \/ (\E a, b : s = <<a, b>>)
    BY Zenon DEF OwnKeys, LenKey, RegisterKey, ListKey, ByIdxKey
  <2>9. \A s \in OwnKeys : s = [i \in 1 .. Len(s) |-> s[i]] /\ Len(s) \in Nat
    <3> SUFFICES ASSUME NEW s \in OwnKeys PROVE s = [i \in 1 .. Len(s) |-> s[i]] /\ Len(s) \in Nat
      OBVIOUS
    <3>1. CASE \E a : s = <<a>>
      <4>1. PICK a : s = <<a>>
        BY <3>1
      <4>2. <<a>> = [i \in 1 .. Len(<<a>>) |-> <<a>>[i]] /\ Len(<<a>>) \in Nat
        BY <2>5, Zenon
      <4> QED
        BY <4>1, <4>2, ZenonT(30)
    <3>2. CASE \E a, b : s = <<a, b>>
      <4>1. PICK a, b : s = <<a, b>>
        BY <3>2
      <4>2. <<a, b>> = [i \in 1 .. Len(<<a, b>>) |-> <<a, b>>[i]] /\ Len(<<a, b>>) \in Nat
        BY <2>6, Zenon
      <4> QED
        BY <4>1, <4>2, ZenonT(30)
    <3> QED
      BY <3>1, <3>2, <2>8
  <2> QED
    BY <2>7, <2>9, KVStorageAssumption DEF KeyStrings
<1> QED
  BY <1>1 DEF KeyParts

(* No tree has the whole storage as its view.                              *)
LEMMA RootIsNoTree == Root \notin TreePrefixes
<1>1. LenKey \in OwnKeys /\ LenKey \in Seq(KeyParts) /\ Root \in Seq(KeyParts)
  BY KeyStringsAreSequences DEF OwnKeys, KeyStrings
<1>2. Root \o LenKey = LenKey
  BY <1>1 DEF Root
<1>3. IsPrefix(Root, LenKey)
  BY <1>1, <1>2, ConcatPrefix
<1> QED
  BY <1>1, <1>3, KVStorageAssumption

(* A full key tells the view and the key it belongs to.                    *)
LEMMA AddressesAreSeparate ==
    /\ \A x, y \in Addresses : At(x) = At(y) => x = y
    /\ \A p \in TreePrefixes : \A x \in Addresses : HasPrefix(At(x), p) <=> x[1] = p
    /\ \A x \in Addresses : SubSeq(At(x), Len(x[1]) + 1, Len(At(x))) = x[2]
    /\ \A k \in OwnKeys : concat(Root, k) = k /\ <<Root, k>> \in Addresses
<1> USE DEF concat, At
<1>1. \A x \in Addresses : /\ x = <<x[1], x[2]>>
                           /\ x[1] \in Seq(KeyParts) /\ x[2] \in Seq(KeyParts)
  BY KeyStringsAreSequences DEF Addresses, KeyStrings
<1>2. \A p \in TreePrefixes : p \in Seq(KeyParts)
  BY KeyStringsAreSequences DEF KeyStrings
<1>3. \A k \in OwnKeys : concat(Root, k) = k /\ <<Root, k>> \in Addresses
  <2>1. \A k \in OwnKeys : k \in Seq(KeyParts)
    BY KeyStringsAreSequences DEF KeyStrings
  <2> QED
    BY <2>1 DEF Root, Addresses
<1>0. Root \notin TreePrefixes
  BY RootIsNoTree
<1>4. \A x \in Addresses : SubSeq(At(x), Len(x[1]) + 1, Len(At(x))) = x[2]
  BY <1>1, ConcatTail
<1>5. ASSUME NEW x \in Addresses, NEW y \in Addresses, At(x) = At(y), Len(x[1]) <= Len(y[1])
      PROVE  x[1] = y[1]
  <2>1. IsPrefix(x[1], y[1])
    BY <1>1, <1>5, EqualConcats
  <2>2. CASE x[1] = Root /\ y[1] = Root
    BY <2>2
  <2>3. CASE x[1] = Root /\ y[1] \in TreePrefixes
    <3>1. x[2] \in OwnKeys /\ At(x) = x[2]
      BY <2>3, <1>0, <1>3 DEF Addresses
    <3>2. x[2] = y[1] \o y[2]
      BY <3>1, <1>5
    <3>3. IsPrefix(y[1], x[2])
      BY <3>2, <1>1, ConcatPrefix
    <3> QED
      BY <2>3, <3>1, <3>3, KVStorageAssumption
  <2>4. CASE x[1] \in TreePrefixes /\ y[1] \in TreePrefixes
    BY <2>1, <2>4, KVStorageAssumption
  <2>5. CASE x[1] \in TreePrefixes /\ y[1] = Root
    <3>1. y[2] \in OwnKeys /\ At(y) = y[2]
      BY <2>5, <1>0, <1>3 DEF Addresses
    <3>2. y[2] = x[1] \o x[2]
      BY <3>1, <1>5
    <3>3. IsPrefix(x[1], y[2])
      BY <3>2, <1>1, ConcatPrefix
    <3> QED
      BY <2>5, <3>1, <3>3, KVStorageAssumption
  <2> QED
    BY <2>2, <2>3, <2>4, <2>5 DEF Addresses
<1>6. \A x, y \in Addresses : At(x) = At(y) => x = y
  <2> SUFFICES ASSUME NEW x \in Addresses, NEW y \in Addresses, At(x) = At(y) PROVE x = y
    OBVIOUS
  <2>1. Len(x[1]) \in Nat /\ Len(y[1]) \in Nat
    BY <1>1
  <2>2. Len(x[1]) <= Len(y[1]) \/ Len(y[1]) <= Len(x[1])
    BY <2>1
  <2> HIDE DEF At
  <2>3. x[1] = y[1]
    BY <2>2, <1>5
  <2>4. x[2] = y[2]
    <3> DEFINE Rest(f, q) == SubSeq(f, Len(q) + 1, Len(f))
    <3>1. Rest(At(x), x[1]) = x[2] /\ Rest(At(y), y[1]) = y[2]
      BY <1>4
    <3> HIDE DEF Rest
    <3> QED
      BY <3>1, <2>3
  <2> QED
    BY <2>3, <2>4, <1>1
<1>7. \A p \in TreePrefixes : \A x \in Addresses : HasPrefix(At(x), p) <=> x[1] = p
  <2> SUFFICES ASSUME NEW p \in TreePrefixes, NEW x \in Addresses
               PROVE  HasPrefix(At(x), p) <=> x[1] = p
    OBVIOUS
  <2>1. ASSUME x[1] = p PROVE HasPrefix(At(x), p)
    BY <2>1, <1>1, ConcatTail DEF HasPrefix
  <2>2. ASSUME HasPrefix(At(x), p) PROVE x[1] = p
    <3> DEFINE f == At(x)
               r == SubSeq(f, Len(p) + 1, Len(f))
    <3>1. f \in Seq(KeyParts) /\ p \in Seq(KeyParts) /\ Len(p) <= Len(f)
      <4>1. f \in Seq(KeyParts)
        BY <1>1
      <4>2. Len(p) <= Len(f)
        BY <4>1, <2>2, <1>2 DEF HasPrefix
      <4> QED
        BY <4>1, <4>2, <1>2
    <3> HIDE DEF f
    <3>2. r \in Seq(KeyParts)
      <4>1. Len(p) \in Nat /\ Len(f) \in Nat
        BY <3>1
      <4> QED
        BY <3>1, <4>1
    <3>3. p \o r = f
      <4>1. p = SubSeq(f, 1, Len(p))
        BY <2>2 DEF HasPrefix, f
      <4> QED
        BY <3>1, <3>2, <4>1
    <3>4. x[1] \o x[2] = f
      BY DEF f
    <3> HIDE DEF r
    <3>5. IsPrefix(p, x[1]) \/ IsPrefix(x[1], p)
      <4>1. Len(p) <= Len(x[1]) \/ Len(x[1]) <= Len(p)
        BY <3>1, <1>1
      <4> QED
        BY <4>1, <3>1, <3>2, <3>3, <3>4, <1>1, EqualConcats
    <3>6. CASE x[1] \in TreePrefixes
      BY <3>5, <3>6, KVStorageAssumption
    <3>7. CASE x[1] = Root /\ x[2] \in OwnKeys
      <4>1. f = x[2]
        BY <3>7, <1>3 DEF f
      <4>2. IsPrefix(p, x[2])
        BY <4>1, <3>1, <3>2, <3>3, ConcatPrefix
      <4> QED
        BY <3>7, <4>2, KVStorageAssumption
    <3> QED
      BY <3>6, <3>7 DEF Addresses
  <2> QED
    BY <2>1, <2>2
<1> QED
  BY <1>3, <1>4, <1>6, <1>7

-----------------------------------------------------------------------------
(* Maps of full keys, and what was put through the views.                  *)
Values == TreeValues \cup ListKeys \cup Nat
Stored == UNION {[S -> Values] : S \in SUBSET {At(x) : x \in Addresses}}
Puts == UNION {[S -> Values] : S \in SUBSET Addresses}

(* The map m holds what was put, at its place, and nothing else.           *)
Mirrors(m, puts) ==
    /\ DOMAIN m = {At(x) : x \in DOMAIN puts}
    /\ \A x \in DOMAIN puts : m[At(x)] = puts[x]

(* The list as a map holds it: Length, and the parts of ListIsWhole.       *)
ListLen(m) == IF LenKey \in DOMAIN m THEN m[LenKey] ELSE 0

Whole(m) ==
    /\ ListLen(m) \in 0 .. MaxLen
    /\ \A i \in 0 .. MaxLen : ByIdxKey(i) \in DOMAIN m <=> i < ListLen(m)
    /\ \A i \in 0 .. MaxLen : i < ListLen(m) =>
           /\ m[ByIdxKey(i)] \in ListKeys
           /\ ListKey(m[ByIdxKey(i)]) \in DOMAIN m
    /\ \A k \in ListKeys : ListKey(k) \in DOMAIN m =>
           /\ m[ListKey(k)] = k
           /\ \E i \in 0 .. MaxLen : i < ListLen(m) /\ m[ByIdxKey(i)] = k
    /\ ListLen(m) > 0 => /\ RegisterKey \in DOMAIN m
                         /\ m[RegisterKey] = m[ByIdxKey(ListLen(m) - 1)]

(* The list in n continues the list in m.                                  *)
Continues(n, m) ==
    /\ ListLen(m) <= ListLen(n)
    /\ \A i \in 0 .. MaxLen : i < ListLen(m) => m[ByIdxKey(i)] = n[ByIdxKey(i)]

(* Two maps hold the same under the issuer's own keys.                     *)
SameOwn(m, n) ==
    \A x \in OwnKeys : /\ x \in DOMAIN m <=> x \in DOMAIN n
                       /\ x \in DOMAIN m => m[x] = n[x]

-----------------------------------------------------------------------------
Transactions == [open : BOOLEAN, prefix : TreePrefixes \cup {Root}, cache : Stored, made : Puts]

TypeInv ==
    /\ backend \in {"memory", "leveldb"}
    /\ kv \in Stored
    /\ tx \in [Txs -> Transactions]
    /\ shadow \in Puts
    /\ faults \in 0 .. MaxFaults

(* A transaction of the trees writes under their prefixes, the issuer's    *)
(* under its own keys, and one that is over holds nothing.                 *)
TxInv ==
    /\ \A t \in Txs : Mirrors(tx[t].cache, tx[t].made)
    /\ \A t \in TreeTxs : /\ tx[t].open => tx[t].prefix \in TreePrefixes
                          /\ DOMAIN tx[t].made \subseteq TreePrefixes \X TreeKeys
    /\ tx[Own].prefix = Root
    /\ DOMAIN tx[Own].made \subseteq {Root} \X OwnKeys

(* What the issuer's transaction reads: its puts over what is stored.      *)
OwnView == Over(tx[Own].cache, kv)

(* The list is whole in the storage and through the open transaction.      *)
ListInv ==
    /\ Whole(kv)
    /\ Whole(OwnView)
    /\ Continues(OwnView, kv)

Inv == TypeInv /\ TxInv /\ Mirrors(kv, shadow) /\ ListInv

-----------------------------------------------------------------------------
(* Maps.                                                                   *)

LEMMA OverFacts ==
    ASSUME NEW m, NEW n
    PROVE  /\ DOMAIN Over(m, n) = DOMAIN m \cup DOMAIN n
           /\ \A x \in DOMAIN m : Over(m, n)[x] = m[x]
           /\ \A x \in DOMAIN n : x \notin DOMAIN m => Over(m, n)[x] = n[x]
BY DEF Over

(* What it is to be a map from some keys of K to values of V.              *)
LEMMA MapType ==
    ASSUME NEW K, NEW V, NEW m
    PROVE  m \in UNION {[S -> V] : S \in SUBSET K} <=>
             /\ m = [x \in DOMAIN m |-> m[x]]
             /\ DOMAIN m \subseteq K
             /\ \A x \in DOMAIN m : m[x] \in V
<1>1. ASSUME m \in UNION {[S -> V] : S \in SUBSET K}
      PROVE  /\ m = [x \in DOMAIN m |-> m[x]]
             /\ DOMAIN m \subseteq K
             /\ \A x \in DOMAIN m : m[x] \in V
  <2>1. PICK S \in SUBSET K : m \in [S -> V]
    BY <1>1
  <2> QED
    BY <2>1
<1>2. ASSUME m = [x \in DOMAIN m |-> m[x]], DOMAIN m \subseteq K, \A x \in DOMAIN m : m[x] \in V
      PROVE  m \in UNION {[S -> V] : S \in SUBSET K}
  <2>1. m \in [DOMAIN m -> V]
    BY <1>2
  <2> QED
    BY <1>2, <2>1
<1> QED
  BY <1>1, <1>2

LEMMA OverType ==
    /\ \A m, n \in Stored : Over(m, n) \in Stored
    /\ \A m, n \in Puts : Over(m, n) \in Puts
<1>1. ASSUME NEW K, NEW V, NEW m \in UNION {[S -> V] : S \in SUBSET K},
             NEW n \in UNION {[S -> V] : S \in SUBSET K}
      PROVE  Over(m, n) \in UNION {[S -> V] : S \in SUBSET K}
  <2>1. /\ DOMAIN m \subseteq K /\ \A x \in DOMAIN m : m[x] \in V
        /\ DOMAIN n \subseteq K /\ \A x \in DOMAIN n : n[x] \in V
    BY MapType
  <2>2. /\ DOMAIN Over(m, n) \subseteq K
        /\ \A x \in DOMAIN Over(m, n) : Over(m, n)[x] \in V
    BY <2>1 DEF Over
  <2>3. Over(m, n) = [x \in DOMAIN Over(m, n) |-> Over(m, n)[x]]
    BY DEF Over
  <2> QED
    BY <2>2, <2>3, MapType
<1> QED
  BY <1>1 DEF Stored, Puts

(* The map without keys is one of either kind.                             *)
LEMMA EmptyFacts ==
    /\ Empty \in Stored /\ Empty \in Puts /\ DOMAIN Empty = {}
    /\ Mirrors(Empty, Empty)
<1>1. DOMAIN Empty = {} /\ Empty = [x \in DOMAIN Empty |-> Empty[x]]
  BY DEF Empty
<1>2. Empty \in [{} -> Values]
  BY DEF Empty
<1>3. Empty \in Stored /\ Empty \in Puts
  BY <1>2 DEF Stored, Puts
<1> QED
  BY <1>1, <1>3 DEF Mirrors

(* What was put goes over what was put before, in both.                    *)
LEMMA OverMirrors ==
    ASSUME NEW m, NEW a \in Puts, NEW n, NEW b \in Puts, Mirrors(m, a), Mirrors(n, b)
    PROVE  Mirrors(Over(m, n), Over(a, b))
<1>1. DOMAIN a \subseteq Addresses /\ DOMAIN b \subseteq Addresses
  BY MapType DEF Puts
<1> DEFINE mn == Over(m, n)
           ab == Over(a, b)
<1>2. /\ DOMAIN mn = DOMAIN m \cup DOMAIN n /\ DOMAIN ab = DOMAIN a \cup DOMAIN b
      /\ \A f \in DOMAIN m : mn[f] = m[f]
      /\ \A f \in DOMAIN n : f \notin DOMAIN m => mn[f] = n[f]
      /\ \A x \in DOMAIN a : ab[x] = a[x]
      /\ \A x \in DOMAIN b : x \notin DOMAIN a => ab[x] = b[x]
  BY DEF Over
<1> HIDE DEF mn, ab
<1>3. DOMAIN mn = {At(x) : x \in DOMAIN ab}
  BY <1>2 DEF Mirrors
<1>4. ASSUME NEW x \in DOMAIN ab PROVE mn[At(x)] = ab[x]
  <2>1. CASE x \in DOMAIN a
    BY <2>1, <1>2 DEF Mirrors
  <2>2. CASE x \notin DOMAIN a
    <3>1. x \in DOMAIN b /\ x \in Addresses
      BY <2>2, <1>1, <1>2
    <3>2. At(x) \notin DOMAIN m
      BY <2>2, <3>1, <1>1, AddressesAreSeparate DEF Mirrors
    <3> QED
      BY <2>2, <3>1, <3>2, <1>2 DEF Mirrors
  <2> QED
    BY <2>1, <2>2
<1> QED
  BY <1>3, <1>4 DEF Mirrors, mn, ab

(* A put, as it is stored and as it is seen.                               *)
LEMMA PutMirrors ==
    ASSUME NEW p, NEW m, {p} \X DOMAIN m \subseteq Addresses, \A k \in DOMAIN m : m[k] \in Values
    PROVE  /\ Full(p, m) \in Stored
           /\ Seen(p, m) \in Puts
           /\ DOMAIN Seen(p, m) = {p} \X DOMAIN m
           /\ Mirrors(Full(p, m), Seen(p, m))
           /\ DOMAIN Full(p, m) = {concat(p, k) : k \in DOMAIN m}
           /\ \A k \in DOMAIN m : Full(p, m)[concat(p, k)] = m[k]
<1>1. \A k \in DOMAIN m : <<p, k>> \in Addresses /\ At(<<p, k>>) = concat(p, k)
  BY DEF At
<1>2. \A k, l \in DOMAIN m : concat(p, k) = concat(p, l) => k = l
  <2> SUFFICES ASSUME NEW k \in DOMAIN m, NEW l \in DOMAIN m, concat(p, k) = concat(p, l)
               PROVE  k = l
    OBVIOUS
  <2> DEFINE x == <<p, k>>
             y == <<p, l>>
  <2>1. x \in Addresses /\ y \in Addresses /\ At(x) = At(y) /\ x[2] = k /\ y[2] = l
    BY <1>1
  <2> HIDE DEF x, y
  <2>2. x = y
    BY <2>1, AddressesAreSeparate
  <2> QED
    BY <2>1, <2>2
<1>3. DOMAIN Full(p, m) = {concat(p, k) : k \in DOMAIN m}
  BY DEF Full
<1>4. \A k \in DOMAIN m : Full(p, m)[concat(p, k)] = m[k]
  <2> SUFFICES ASSUME NEW k \in DOMAIN m PROVE Full(p, m)[concat(p, k)] = m[k]
    OBVIOUS
  <2> DEFINE l == CHOOSE j \in DOMAIN m : concat(p, j) = concat(p, k)
  <2>1. l \in DOMAIN m /\ concat(p, l) = concat(p, k)
    OBVIOUS
  <2>2. l = k
    BY <2>1, <1>2
  <2>3. Full(p, m)[concat(p, k)] = m[l]
    BY DEF Full
  <2> QED
    BY <2>2, <2>3
<1>5. DOMAIN Seen(p, m) = {p} \X DOMAIN m /\ \A k \in DOMAIN m : Seen(p, m)[<<p, k>>] = m[k]
  BY DEF Seen
<1>6. Full(p, m) \in Stored
  <2>1. DOMAIN Full(p, m) \subseteq {At(x) : x \in Addresses}
    BY <1>1, <1>3
  <2>2. \A f \in DOMAIN Full(p, m) : Full(p, m)[f] \in Values
    BY <1>3, <1>4
  <2>3. Full(p, m) = [f \in DOMAIN Full(p, m) |-> Full(p, m)[f]]
    BY DEF Full
  <2> QED
    BY <2>1, <2>2, <2>3, MapType DEF Stored
<1>7. Seen(p, m) \in Puts
  <2>1. \A x \in DOMAIN Seen(p, m) : Seen(p, m)[x] \in Values
    BY <1>5
  <2>2. Seen(p, m) = [x \in DOMAIN Seen(p, m) |-> Seen(p, m)[x]]
    BY DEF Seen
  <2> QED
    BY <1>5, <2>1, <2>2, MapType DEF Puts
<1>8. Mirrors(Full(p, m), Seen(p, m))
  <2>1. {At(x) : x \in DOMAIN Seen(p, m)} = {concat(p, k) : k \in DOMAIN m}
    <3>1. \A x \in {p} \X DOMAIN m : x[2] \in DOMAIN m /\ At(x) = concat(p, x[2])
      BY DEF At
    <3>2. \A k \in DOMAIN m : <<p, k>> \in {p} \X DOMAIN m
      OBVIOUS
    <3> DEFINE D == DOMAIN Seen(p, m)
    <3>3. D = {p} \X DOMAIN m
      BY <1>5
    <3> HIDE DEF D
    <3>4. ASSUME NEW x \in D PROVE At(x) \in {concat(p, k) : k \in DOMAIN m}
      BY <3>1, <3>3
    <3>5. ASSUME NEW k \in DOMAIN m PROVE concat(p, k) \in {At(x) : x \in D}
      BY <1>1, <3>2, <3>3
    <3>6. {At(x) : x \in D} = {concat(p, k) : k \in DOMAIN m}
      BY <3>4, <3>5
    <3> QED
      BY <3>6 DEF D
  <2>2. \A x \in DOMAIN Seen(p, m) : Full(p, m)[At(x)] = Seen(p, m)[x]
    BY <1>1, <1>4, <1>5
  <2> QED
    BY <1>3, <2>1, <2>2 DEF Mirrors
<1> QED
  BY <1>3, <1>4, <1>5, <1>6, <1>7, <1>8

-----------------------------------------------------------------------------
(* The list.                                                               *)

(* The keys of the list are the issuer's own, and differ.                  *)
LEMMA OwnKeyFacts ==
    /\ LenKey \in OwnKeys /\ RegisterKey \in OwnKeys
    /\ \A k \in ListKeys : ListKey(k) \in OwnKeys
    /\ \A i \in 0 .. MaxLen : ByIdxKey(i) \in OwnKeys
    /\ LenKey # RegisterKey
    /\ \A k : ListKey(k) # LenKey /\ ListKey(k) # RegisterKey
    /\ \A i : ByIdxKey(i) # LenKey /\ ByIdxKey(i) # RegisterKey
    /\ \A k, i : ListKey(k) # ByIdxKey(i)
    /\ \A k, l : ListKey(k) = ListKey(l) => k = l
    /\ \A i, j : ByIdxKey(i) = ByIdxKey(j) => i = j
<1>1. /\ LenKey \in OwnKeys /\ RegisterKey \in OwnKeys
      /\ \A k \in ListKeys : ListKey(k) \in OwnKeys
      /\ \A i \in 0 .. MaxLen : ByIdxKey(i) \in OwnKeys
  BY DEF OwnKeys
<1>2. LenKey # RegisterKey
  BY DEF LenKey, RegisterKey
<1>3. \A a, b, c : <<a>> # <<b, c>>
  OBVIOUS
<1>4. \A a, b, c, d : <<a, b>> = <<c, d>> => a = c /\ b = d
  OBVIOUS
<1> QED
  BY <1>1, <1>2, <1>3, <1>4 DEF LenKey, RegisterKey, ListKey, ByIdxKey

(* Only the issuer's own keys matter to the list.                          *)
LEMMA WholeSame ==
    ASSUME NEW m, NEW n, SameOwn(m, n), Whole(m) PROVE Whole(n) /\ ListLen(n) = ListLen(m)
<1>1. ListLen(n) = ListLen(m)
  BY OwnKeyFacts DEF SameOwn, ListLen
<1>2. /\ LenKey \in OwnKeys /\ RegisterKey \in OwnKeys
      /\ \A k \in ListKeys : ListKey(k) \in OwnKeys
      /\ \A i \in 0 .. MaxLen : ByIdxKey(i) \in OwnKeys
  BY OwnKeyFacts
<1>3. \A i \in 0 .. MaxLen : i < ListLen(m) => n[ByIdxKey(i)] = m[ByIdxKey(i)]
  BY <1>2 DEF SameOwn, Whole
<1>4. /\ ListLen(n) \in 0 .. MaxLen
      /\ \A i \in 0 .. MaxLen : ByIdxKey(i) \in DOMAIN n <=> i < ListLen(n)
  BY <1>1, <1>2 DEF SameOwn, Whole
<1>5. \A i \in 0 .. MaxLen : i < ListLen(n) =>
           n[ByIdxKey(i)] \in ListKeys /\ ListKey(n[ByIdxKey(i)]) \in DOMAIN n
  BY <1>1, <1>2, <1>3 DEF SameOwn, Whole
<1>6. ASSUME NEW k \in ListKeys, ListKey(k) \in DOMAIN n
      PROVE  n[ListKey(k)] = k /\ \E i \in 0 .. MaxLen : i < ListLen(n) /\ n[ByIdxKey(i)] = k
  BY <1>1, <1>2, <1>3, <1>6 DEF SameOwn, Whole
<1>7. ASSUME ListLen(n) > 0
      PROVE  RegisterKey \in DOMAIN n /\ n[RegisterKey] = n[ByIdxKey(ListLen(n) - 1)]
  <2>1. ListLen(n) - 1 \in 0 .. MaxLen /\ ListLen(n) - 1 < ListLen(n)
    BY <1>4, <1>7, KVStorageAssumption
  <2> QED
    BY <1>1, <1>2, <1>3, <1>7, <2>1 DEF SameOwn, Whole
<1> QED
  BY <1>1, <1>4, <1>5, <1>6, <1>7 DEF Whole

LEMMA ContinuesSame ==
    ASSUME NEW l, NEW m, NEW n, SameOwn(m, n), Whole(m)
    PROVE  /\ Continues(m, l) /\ Whole(l) => Continues(n, l)
           /\ Continues(l, m) => Continues(l, n)
           /\ Continues(m, m)
<1>1. ListLen(n) = ListLen(m) /\ ListLen(m) \in Nat
  BY WholeSame DEF Whole
<1>2. \A i \in 0 .. MaxLen : i < ListLen(m) => n[ByIdxKey(i)] = m[ByIdxKey(i)]
  BY OwnKeyFacts DEF SameOwn, Whole
<1>3. ASSUME Continues(m, l), Whole(l) PROVE Continues(n, l)
  <2>1. ListLen(l) \in Nat /\ ListLen(l) <= ListLen(m)
    BY <1>3 DEF Whole, Continues
  <2>2. \A i \in 0 .. MaxLen : i < ListLen(l) => i < ListLen(m)
    BY <1>1, <2>1
  <2> QED
    BY <1>1, <1>2, <1>3, <2>1, <2>2 DEF Continues
<1>4. ASSUME Continues(l, m) PROVE Continues(l, n)
  BY <1>1, <1>2, <1>4 DEF Continues
<1>5. Continues(m, m)
  BY <1>1 DEF Continues
<1> QED
  BY <1>3, <1>4, <1>5

(* What StorageList.Append puts makes the list longer by one.              *)
Appended(k, n) ==
    Over(Const({LenKey}, n + 1), Const({ListKey(k), ByIdxKey(AppendIdx(n)), RegisterKey}, k))

LEMMA AppendedFacts ==
    ASSUME NEW k \in ListKeys, NEW n \in 0 .. MaxLen
    PROVE  /\ DOMAIN Appended(k, n) = {LenKey, ListKey(k), ByIdxKey(n), RegisterKey}
           /\ Appended(k, n)[LenKey] = n + 1
           /\ \A x \in {ListKey(k), ByIdxKey(n), RegisterKey} : Appended(k, n)[x] = k
           /\ DOMAIN Appended(k, n) \subseteq OwnKeys
           /\ \A x \in DOMAIN Appended(k, n) : Appended(k, n)[x] \in Values
<1>1. DOMAIN Appended(k, n) = {LenKey, ListKey(k), ByIdxKey(n), RegisterKey}
  BY DEF Appended, Over, Const, AppendIdx
<1>2. Appended(k, n)[LenKey] = n + 1
  BY DEF Appended, Over, Const
<1>3. \A x \in {ListKey(k), ByIdxKey(n), RegisterKey} : Appended(k, n)[x] = k
  BY OwnKeyFacts DEF Appended, Over, Const, AppendIdx
<1>4. n + 1 \in Values /\ k \in Values
  BY KVStorageAssumption DEF Values
<1> QED
  BY <1>1, <1>2, <1>3, <1>4, OwnKeyFacts

LEMMA AppendWhole ==
    ASSUME NEW m, Whole(m), LenKey \in DOMAIN m, m[LenKey] < MaxLen, NEW k \in ListKeys
    PROVE  /\ Whole(Over(Appended(k, m[LenKey]), m))
           /\ Continues(Over(Appended(k, m[LenKey]), m), m)
           /\ m[LenKey] \in 0 .. MaxLen
<1> DEFINE n == m[LenKey]
           a == Appended(k, n)
           o == Over(a, m)
<1>1. n = ListLen(m) /\ n \in 0 .. MaxLen /\ MaxLen \in Nat
  BY KVStorageAssumption DEF Whole, ListLen
<1>2. /\ DOMAIN a = {LenKey, ListKey(k), ByIdxKey(n), RegisterKey}
      /\ a[LenKey] = n + 1
      /\ a[ListKey(k)] = k /\ a[ByIdxKey(n)] = k /\ a[RegisterKey] = k
  BY <1>1, AppendedFacts
<1> HIDE DEF n, a
<1>3. /\ DOMAIN o = DOMAIN a \cup DOMAIN m
      /\ \A x \in DOMAIN a : o[x] = a[x]
      /\ \A x \in DOMAIN m : x \notin DOMAIN a => o[x] = m[x]
  BY DEF Over
<1> HIDE DEF o
<1>4. LenKey \in DOMAIN o /\ o[LenKey] = n + 1 /\ ListLen(o) = n + 1
  BY <1>2, <1>3 DEF ListLen
<1>5. \A i \in 0 .. MaxLen : i # n => ByIdxKey(i) \notin DOMAIN a
  BY <1>2, OwnKeyFacts
<1>6. \A i \in 0 .. MaxLen : ByIdxKey(i) \in DOMAIN o <=> i < ListLen(o)
  <2>1. \A i \in 0 .. MaxLen : ByIdxKey(i) \in DOMAIN o <=> i = n \/ ByIdxKey(i) \in DOMAIN m
    BY <1>2, <1>3, <1>5
  <2>2. \A i \in 0 .. MaxLen : ByIdxKey(i) \in DOMAIN m <=> i < n
    BY <1>1 DEF Whole
  <2>3. \A i \in 0 .. MaxLen : i < n + 1 <=> i = n \/ i < n
    BY <1>1
  <2> QED
    BY <1>4, <2>1, <2>2, <2>3
<1>7. o[ByIdxKey(n)] = k /\ o[RegisterKey] = k /\ o[ListKey(k)] = k /\ ListKey(k) \in DOMAIN o
      /\ RegisterKey \in DOMAIN o
  BY <1>2, <1>3
<1>8. \A i \in 0 .. MaxLen : i < n => o[ByIdxKey(i)] = m[ByIdxKey(i)]
  <2>1. \A i \in 0 .. MaxLen : i < n => i # n /\ ByIdxKey(i) \in DOMAIN m
    BY <1>1 DEF Whole
  <2> QED
    BY <2>1, <1>3, <1>5
<1>9. \A i \in 0 .. MaxLen : i < ListLen(o) =>
         o[ByIdxKey(i)] \in ListKeys /\ ListKey(o[ByIdxKey(i)]) \in DOMAIN o
  <2>1. \A i \in 0 .. MaxLen : i < n =>
          m[ByIdxKey(i)] \in ListKeys /\ ListKey(m[ByIdxKey(i)]) \in DOMAIN m
    BY <1>1 DEF Whole
  <2>2. \A i \in 0 .. MaxLen : i < ListLen(o) => i = n \/ i < n
    BY <1>1, <1>4
  <2> QED
    BY <2>1, <2>2, <1>3, <1>7, <1>8
<1>10. ASSUME NEW l \in ListKeys, ListKey(l) \in DOMAIN o
       PROVE  o[ListKey(l)] = l /\ \E i \in 0 .. MaxLen : i < ListLen(o) /\ o[ByIdxKey(i)] = l
  <2>1. CASE l = k
    <3>1. n < ListLen(o)
      BY <1>1, <1>4
    <3> QED
      BY <2>1, <3>1, <1>1, <1>7
  <2>2. CASE l # k
    <3>1. ListKey(l) \notin DOMAIN a /\ ListKey(l) \in DOMAIN m
      BY <2>2, <1>2, <1>3, <1>10, OwnKeyFacts
    <3>2. m[ListKey(l)] = l
      BY <3>1 DEF Whole
    <3>3. PICK i \in 0 .. MaxLen : i < n /\ m[ByIdxKey(i)] = l
      BY <3>1, <1>1 DEF Whole
    <3>4. i < ListLen(o)
      BY <3>3, <1>1, <1>4
    <3> QED
      BY <3>1, <3>2, <3>3, <3>4, <1>3, <1>8
  <2> QED
    BY <2>1, <2>2
<1>11. Whole(o)
  <2>1. ListLen(o) \in 0 .. MaxLen /\ ListLen(o) - 1 = n
    BY <1>1, <1>4 DEF n
  <2> QED
    BY <2>1, <1>6, <1>7, <1>9, <1>10 DEF Whole
<1>12. Continues(o, m)
  BY <1>1, <1>4, <1>8 DEF Continues
<1> QED
  BY <1>1, <1>11, <1>12 DEF o, a, n

(* StorageList.Init starts an empty list where there is none.              *)
LEMMA InitWhole ==
    ASSUME NEW m, Whole(m), LenKey \notin DOMAIN m
    PROVE  /\ Whole(Over(Const({LenKey}, 0), m))
           /\ Continues(Over(Const({LenKey}, 0), m), m)
<1> DEFINE o == Over(Const({LenKey}, 0), m)
<1>1. /\ DOMAIN o = {LenKey} \cup DOMAIN m
      /\ o[LenKey] = 0
      /\ \A x \in DOMAIN m : o[x] = m[x]
  BY DEF Over, Const
<1> HIDE DEF o
<1>2. ListLen(o) = 0 /\ ListLen(m) = 0
  BY <1>1 DEF ListLen
<1>3. Whole(o)
  BY <1>1, <1>2, OwnKeyFacts DEF Whole
<1>4. Continues(o, m)
  BY <1>2 DEF Continues
<1> QED
  BY <1>3, <1>4 DEF o

LEMMA ContinuesTransitive ==
    ASSUME NEW l, NEW m, NEW n, Whole(l), Whole(m), Whole(n), Continues(m, l), Continues(n, m)
    PROVE  Continues(n, l)
<1>1. ListLen(l) \in Nat /\ ListLen(m) \in Nat /\ ListLen(n) \in Nat
  BY DEF Whole
<1>2. ListLen(l) <= ListLen(m) /\ ListLen(m) <= ListLen(n)
  BY DEF Continues
<1>3. ListLen(l) <= ListLen(n) /\ \A i \in 0 .. MaxLen : i < ListLen(l) => i < ListLen(m)
  BY <1>1, <1>2
<1> QED
  BY <1>3 DEF Continues

(* A storage with nothing under the issuer's own keys has an empty list.   *)
LEMMA EmptyWhole == Whole(Empty)
<1>1. ListLen(Empty) = 0
  BY EmptyFacts DEF ListLen
<1> QED
  BY <1>1, EmptyFacts, KVStorageAssumption DEF Whole

-----------------------------------------------------------------------------
(* Transactions.                                                           *)

(* The transaction that is no more.                                        *)
LEMMA NilFacts ==
    /\ Nil \in Transactions /\ ~Nil.open /\ Nil.prefix = Root
    /\ Nil.cache = Empty /\ Nil.made = Empty
    /\ \A p \in TreePrefixes \cup {Root} :
          LET new == [Nil EXCEPT !.open = TRUE, !.prefix = p] IN
          new \in Transactions /\ new.prefix = p /\ new.cache = Empty /\ new.made = Empty
BY EmptyFacts DEF Nil, Transactions

(* A transaction with more in it.                                          *)
More(t, m, a) == tx' = [tx EXCEPT ![t].cache = Over(m, @), ![t].made = Over(a, @)]

LEMMA MoreFacts ==
    ASSUME TypeInv, NEW t \in Txs, NEW m \in Stored, NEW a \in Puts, Mirrors(m, a),
           Mirrors(tx[t].cache, tx[t].made), More(t, m, a)
    PROVE  /\ tx' \in [Txs -> Transactions]
           /\ \A u \in Txs : u # t => tx'[u] = tx[u]
           /\ tx'[t].open = tx[t].open /\ tx'[t].prefix = tx[t].prefix
           /\ tx'[t].cache = Over(m, tx[t].cache)
           /\ tx'[t].made = Over(a, tx[t].made)
           /\ Mirrors(tx'[t].cache, tx'[t].made)
<1>1. tx \in [Txs -> Transactions] /\ tx[t] \in Transactions
  BY DEF TypeInv
<1>2. tx[t].cache \in Stored /\ tx[t].made \in Puts
  BY <1>1 DEF Transactions
<1>3. Over(m, tx[t].cache) \in Stored /\ Over(a, tx[t].made) \in Puts
  BY <1>2, OverType
<1>4. /\ \A u \in Txs : u # t => tx'[u] = tx[u]
      /\ DOMAIN tx' = Txs
      /\ tx'[t].open = tx[t].open /\ tx'[t].prefix = tx[t].prefix
      /\ tx'[t].cache = Over(m, tx[t].cache)
      /\ tx'[t].made = Over(a, tx[t].made)
  BY <1>1 DEF Transactions, More
<1>5. tx' \in [Txs -> Transactions]
  BY <1>1, <1>3 DEF Transactions, More
<1>6. Mirrors(tx'[t].cache, tx'[t].made)
  BY <1>2, <1>4, OverMirrors
<1> QED
  BY <1>4, <1>5, <1>6

(* What the issuer's transaction gets is what its view holds.              *)
LEMMA OwnGet ==
    ASSUME Inv, NEW x \in OwnKeys
    PROVE  TxGet(Own, x) = IF x \in DOMAIN OwnView THEN OwnView[x] ELSE NotFound
<1>1. tx[Own].prefix = Root /\ concat(Root, x) = x
  BY AddressesAreSeparate DEF Inv, TxInv
<1> QED
  BY <1>1 DEF TxGet, Get, OwnView, Over

(* The length that the issuer's transaction reads.                         *)
LEMMA OwnLength ==
    ASSUME Inv
    PROVE  /\ LenKey \in DOMAIN OwnView => /\ OwnView[LenKey] \in 0 .. MaxLen
                                           /\ TxGet(Own, LenKey) = OwnView[LenKey]
                                           /\ TxGet(Own, LenKey) # NotFound
           /\ LenKey \notin DOMAIN OwnView => TxGet(Own, LenKey) = NotFound
<1>1. LenKey \in DOMAIN OwnView => OwnView[LenKey] \in 0 .. MaxLen
  BY DEF Inv, ListInv, Whole, ListLen
<1>2. \A n \in 0 .. MaxLen : n # NotFound
  BY KVStorageAssumption
<1> QED
  BY <1>1, <1>2, OwnGet, OwnKeyFacts

(* A put of the issuer's transaction that makes the list no worse.         *)
LEMMA OwnPut ==
    ASSUME Inv, NEW m, DOMAIN m \subseteq OwnKeys, \A k \in DOMAIN m : m[k] \in Values, Put(Own, m),
           Whole(Over(m, OwnView)), Continues(Over(m, OwnView), OwnView),
           UNCHANGED <<backend, kv, shadow, faults>>
    PROVE  Inv'
<1> DEFINE f == Full(Root, m)
           a == Seen(Root, m)
<1>1. tx[Own].prefix = Root /\ Own \in Txs
  BY DEF Inv, TxInv, Txs
<1>2. {Root} \X DOMAIN m \subseteq Addresses
  BY DEF Addresses
<1>3. /\ f \in Stored /\ a \in Puts /\ Mirrors(f, a)
      /\ DOMAIN a = {Root} \X DOMAIN m
      /\ DOMAIN f = {concat(Root, k) : k \in DOMAIN m}
      /\ \A k \in DOMAIN m : f[concat(Root, k)] = m[k]
  BY <1>2, PutMirrors
<1>4. \A k \in DOMAIN m : concat(Root, k) = k
  BY AddressesAreSeparate
<1>5. DOMAIN f = DOMAIN m /\ \A k \in DOMAIN m : f[k] = m[k]
  <2>1. {concat(Root, k) : k \in DOMAIN m} = DOMAIN m
    BY <1>4
  <2> HIDE DEF f
  <2> QED
    BY <1>3, <1>4, <2>1
<1>6. More(Own, f, a)
  BY <1>1 DEF Put, More
<1> HIDE DEF f, a
<1>7. /\ tx' \in [Txs -> Transactions]
      /\ \A u \in Txs : u # Own => tx'[u] = tx[u]
      /\ tx'[Own].prefix = Root
      /\ tx'[Own].cache = Over(f, tx[Own].cache)
      /\ tx'[Own].made = Over(a, tx[Own].made)
      /\ Mirrors(tx'[Own].cache, tx'[Own].made)
  <2>1. TypeInv /\ Own \in Txs /\ Mirrors(tx[Own].cache, tx[Own].made) /\ tx[Own].prefix = Root
    BY <1>1 DEF Inv, TxInv
  <2> QED
    BY <1>3, <1>6, <2>1, MoreFacts
<1>8. TypeInv'
  BY <1>7 DEF Inv, TypeInv
<1>9. TxInv'
  <2>1. DOMAIN tx'[Own].made \subseteq {Root} \X OwnKeys
    BY <1>3, <1>7 DEF Inv, TxInv, Over
  <2>2. \A t \in TreeTxs : t \in Txs /\ t # Own /\ tx'[t] = tx[t]
    BY <1>7, KVStorageAssumption DEF Txs
  <2>3. \A t \in Txs : Mirrors(tx'[t].cache, tx'[t].made)
    BY <1>7 DEF Inv, TxInv
  <2> QED
    BY <1>7, <2>1, <2>2, <2>3 DEF Inv, TxInv
<1>10. ListInv'
  <2>1. SameOwn(Over(m, OwnView), OwnView')
    <3>1. OwnView' = Over(Over(f, tx[Own].cache), kv)
      BY <1>7 DEF OwnView
    <3> QED
      BY <3>1, <1>5 DEF SameOwn, OwnView, Over
  <2>2. Whole(OwnView') /\ Continues(OwnView', OwnView)
    BY <2>1, WholeSame, ContinuesSame DEF Inv, ListInv
  <2>3. Continues(OwnView', kv)
    BY <2>2, ContinuesTransitive DEF Inv, ListInv
  <2> QED
    BY <2>2, <2>3 DEF Inv, ListInv
<1> QED
  BY <1>8, <1>9, <1>10 DEF Inv

(* Create and StorageList.Append.                                          *)
LEMMA CreateInv == ASSUME Inv, Create PROVE Inv'
<1> DEFINE m == Const({LenKey}, 0)
<1>1. DOMAIN m = {LenKey} /\ \A k \in DOMAIN m : m[k] \in Values
  BY DEF Const, Values
<1>2. LenKey \notin DOMAIN OwnView
  BY OwnLength DEF Create
<1>3. Whole(Over(m, OwnView)) /\ Continues(Over(m, OwnView), OwnView)
  BY <1>2, InitWhole DEF Inv, ListInv
<1>4. Put(Own, m) /\ UNCHANGED <<backend, kv, shadow, faults>>
  BY DEF Create, ListInit
<1> HIDE DEF m
<1>5. DOMAIN m \subseteq OwnKeys
  BY <1>1, OwnKeyFacts
<1> QED
  BY <1>1, <1>3, <1>4, <1>5, OwnPut

LEMMA ListAppendInv == ASSUME Inv, NEW k \in ListKeys, ListAppend(k) PROVE Inv'
<1> DEFINE n == TxGet(Own, LenKey)
           m == Appended(k, n)
<1>1. /\ LenKey \in DOMAIN OwnView
      /\ n = OwnView[LenKey] /\ OwnView[LenKey] \in 0 .. MaxLen
      /\ OwnView[LenKey] < MaxLen
  BY OwnLength DEF ListAppend
<1>2. Put(Own, m) /\ UNCHANGED <<backend, kv, shadow, faults>>
  BY DEF ListAppend, Appended
<1> HIDE DEF n
<1>3. DOMAIN m \subseteq OwnKeys /\ \A x \in DOMAIN m : m[x] \in Values
  BY <1>1, AppendedFacts
<1>4. Whole(Over(m, OwnView)) /\ Continues(Over(m, OwnView), OwnView)
  BY <1>1, AppendWhole DEF Inv, ListInv
<1> HIDE DEF m
<1> QED
  BY <1>2, <1>3, <1>4, OwnPut

(* A step of the transactions of the trees.                                *)
LEMMA TreeStep ==
    ASSUME Inv, NEW t \in TreeTxs, tx' \in [Txs -> Transactions],
           \A u \in Txs : u # t => tx'[u] = tx[u],
           Mirrors(tx'[t].cache, tx'[t].made),
           tx'[t].open => tx'[t].prefix \in TreePrefixes,
           DOMAIN tx'[t].made \subseteq TreePrefixes \X TreeKeys,
           UNCHANGED <<backend, kv, shadow, faults>>
    PROVE  Inv'
<1>1. t \in Txs /\ Own \in Txs /\ tx'[Own] = tx[Own] /\ \A u \in TreeTxs : u \in Txs
  BY KVStorageAssumption DEF Txs
<1>2. TypeInv'
  BY DEF Inv, TypeInv
<1>3. TxInv'
  <2>1. \A u \in Txs : Mirrors(tx'[u].cache, tx'[u].made)
    BY DEF Inv, TxInv
  <2>2. \A u \in TreeTxs : /\ tx'[u].open => tx'[u].prefix \in TreePrefixes
                          /\ DOMAIN tx'[u].made \subseteq TreePrefixes \X TreeKeys
    BY <1>1 DEF Inv, TxInv
  <2> QED
    BY <1>1, <2>1, <2>2 DEF Inv, TxInv
<1>4. OwnView' = OwnView
  BY <1>1 DEF OwnView, Over
<1> QED
  BY <1>2, <1>3, <1>4 DEF Inv, ListInv

LEMMA TreePutInv ==
    ASSUME Inv, NEW t \in TreeTxs, NEW k \in TreeKeys, NEW v \in TreeValues, TreePut(t, k, v)
    PROVE  Inv'
<1> DEFINE p == tx[t].prefix
           m == Const({k}, v)
<1>1. t \in Txs /\ p \in TreePrefixes
  BY DEF TreePut, Inv, TxInv, Txs
<1>2. DOMAIN m = {k} /\ \A x \in DOMAIN m : m[x] \in Values
  BY DEF Const, Values
<1>3. More(t, Full(p, m), Seen(p, m))
  BY DEF TreePut, Put, More
<1> HIDE DEF p, m
<1>4. /\ {p} \X DOMAIN m \subseteq TreePrefixes \X TreeKeys
      /\ {p} \X DOMAIN m \subseteq Addresses
  BY <1>1, <1>2 DEF Addresses
<1>5. /\ Full(p, m) \in Stored /\ Seen(p, m) \in Puts /\ Mirrors(Full(p, m), Seen(p, m))
      /\ DOMAIN Seen(p, m) = {p} \X DOMAIN m
  BY <1>2, <1>4, PutMirrors
<1>6. /\ tx' \in [Txs -> Transactions]
      /\ \A u \in Txs : u # t => tx'[u] = tx[u]
      /\ tx'[t].open = tx[t].open /\ tx'[t].prefix = tx[t].prefix
      /\ tx'[t].made = Over(Seen(p, m), tx[t].made)
      /\ Mirrors(tx'[t].cache, tx'[t].made)
  <2>1. TypeInv /\ Mirrors(tx[t].cache, tx[t].made)
    BY <1>1 DEF Inv, TxInv
  <2> QED
    BY <1>1, <1>3, <1>5, <2>1, MoreFacts
<1>7. DOMAIN tx'[t].made \subseteq TreePrefixes \X TreeKeys
  BY <1>4, <1>5, <1>6 DEF Inv, TxInv, Over
<1>8. UNCHANGED <<backend, kv, shadow, faults>>
  BY DEF TreePut
<1> QED
  BY <1>1, <1>6, <1>7, <1>8, TreeStep DEF p

LEMMA AddInv ==
    ASSUME Inv, NEW t \in TreeTxs, NEW u \in TreeTxs, Add(t, u) PROVE Inv'
<1>1. t \in Txs /\ u \in Txs /\ tx[u] \in Transactions
  BY DEF Inv, TypeInv, Txs
<1>2. tx[u].cache \in Stored /\ tx[u].made \in Puts /\ Mirrors(tx[u].cache, tx[u].made)
  BY <1>1 DEF Transactions, Inv, TxInv
<1>3. More(t, tx[u].cache, tx[u].made) /\ UNCHANGED <<backend, kv, shadow, faults>>
  BY DEF Add, More
<1>4. /\ tx' \in [Txs -> Transactions]
      /\ \A w \in Txs : w # t => tx'[w] = tx[w]
      /\ tx'[t].open = tx[t].open /\ tx'[t].prefix = tx[t].prefix
      /\ tx'[t].made = Over(tx[u].made, tx[t].made)
      /\ Mirrors(tx'[t].cache, tx'[t].made)
  <2>1. TypeInv /\ Mirrors(tx[t].cache, tx[t].made)
    BY <1>1 DEF Inv, TxInv
  <2> QED
    BY <1>1, <1>2, <1>3, <2>1, MoreFacts
<1>5. DOMAIN tx'[t].made \subseteq TreePrefixes \X TreeKeys
  BY <1>4 DEF Inv, TxInv, Over
<1>6. tx'[t].open => tx'[t].prefix \in TreePrefixes
  BY <1>4 DEF Inv, TxInv
<1> QED
  BY <1>3, <1>4, <1>5, <1>6, TreeStep

(* A storage with a whole list, and no puts of the issuer on top of it.    *)
LEMMA OwnReset ==
    ASSUME TypeInv', TxInv', Mirrors(kv', shadow'), Whole(kv'), tx'[Own].cache = Empty PROVE Inv'
<1>1. SameOwn(kv', OwnView')
  BY EmptyFacts DEF SameOwn, OwnView, Over
<1>2. Whole(OwnView') /\ Continues(OwnView', kv')
  BY <1>1, WholeSame, ContinuesSame
<1> QED
  BY <1>2 DEF Inv, ListInv

(* A transaction begins or ends; when it ends, what it holds is stored or  *)
(* lost.                                                                   *)
Begins(t, x) ==
    /\ x \in Transactions /\ x.cache = Empty /\ x.made = Empty
    /\ t = Own => x.prefix = Root
    /\ t # Own => (x.open => x.prefix \in TreePrefixes)
    /\ tx' = [tx EXCEPT ![t] = x]

LEMMA TxBegins ==
    ASSUME Inv, NEW t \in Txs, NEW x, Begins(t, x), UNCHANGED backend, faults' \in 0 .. MaxFaults,
           \/ UNCHANGED <<kv, shadow>>
           \/ kv' = Committed(t) /\ shadow' = Over(tx[t].made, shadow)
    PROVE  Inv' /\ Continues(kv', kv)
<1>1. /\ tx \in [Txs -> Transactions] /\ Own \in Txs
      /\ kv \in Stored /\ shadow \in Puts
  BY DEF Inv, TypeInv, Txs
<1>2. tx[t].cache \in Stored /\ tx[t].made \in Puts /\ Mirrors(tx[t].cache, tx[t].made)
  BY <1>1 DEF Transactions, Inv, TxInv
<1>3. /\ tx' \in [Txs -> Transactions]
      /\ tx'[t] = x
      /\ \A u \in Txs : u # t => tx'[u] = tx[u]
  BY <1>1 DEF Begins
<1>4. TypeInv'
  BY <1>1, <1>2, <1>3, OverType DEF Inv, TypeInv, Committed
<1>5. TxInv'
  <2>1. Mirrors(x.cache, x.made) /\ DOMAIN x.made = {}
    BY EmptyFacts DEF Begins
  <2>2. \A u \in Txs : Mirrors(tx'[u].cache, tx'[u].made)
    BY <1>3, <2>1 DEF Inv, TxInv
  <2>3. \A u \in TreeTxs : /\ tx'[u].open => tx'[u].prefix \in TreePrefixes
                          /\ DOMAIN tx'[u].made \subseteq TreePrefixes \X TreeKeys
    <3>1. \A u \in TreeTxs : u \in Txs /\ u # Own
      BY KVStorageAssumption DEF Txs
    <3> QED
      BY <1>3, <2>1, <3>1 DEF Inv, TxInv, Begins
  <2>4. tx'[Own].prefix = Root /\ DOMAIN tx'[Own].made \subseteq {Root} \X OwnKeys
    BY <1>1, <1>3, <2>1 DEF Inv, TxInv, Begins
  <2> QED
    BY <2>2, <2>3, <2>4 DEF TxInv
<1>6. Mirrors(kv', shadow')
  BY <1>1, <1>2, OverMirrors DEF Inv, Committed
<1>7. CASE t = Own
  <2>1. kv' = kv \/ kv' = OwnView
    BY <1>7 DEF Committed, OwnView
  <2>2. Whole(kv')
    BY <2>1 DEF Inv, ListInv
  <2>3. tx'[Own].cache = Empty
    BY <1>3, <1>7 DEF Begins
  <2>4. Continues(kv', kv)
    <3>1. SameOwn(kv, kv)
      BY DEF SameOwn
    <3> QED
      BY <2>1, <3>1, ContinuesSame DEF Inv, ListInv
  <2> QED
    BY <1>4, <1>5, <1>6, <2>2, <2>3, <2>4, OwnReset
<1>8. CASE t # Own
  <2>1. tx'[Own] = tx[Own] /\ t \in TreeTxs
    BY <1>1, <1>3, <1>8 DEF Txs
  <2>2. \A y \in OwnKeys : y \notin DOMAIN tx[t].cache
    <3> SUFFICES ASSUME NEW y \in OwnKeys, y \in DOMAIN tx[t].cache PROVE FALSE
      OBVIOUS
    <3>1. <<Root, y>> \in Addresses /\ At(<<Root, y>>) = y
      BY AddressesAreSeparate DEF At
    <3>2. PICK z \in DOMAIN tx[t].made : At(z) = y
      BY <1>2 DEF Mirrors
    <3>3. z \in TreePrefixes \X TreeKeys /\ z \in Addresses
      BY <2>1 DEF Inv, TxInv, Addresses
    <3>4. z = <<Root, y>>
      BY <3>1, <3>2, <3>3, AddressesAreSeparate
    <3>5. z[1] \in TreePrefixes /\ z[1] = Root
      BY <3>3, <3>4
    <3> QED
      BY <3>5, RootIsNoTree
  <2>3. SameOwn(kv, kv') /\ SameOwn(OwnView, OwnView')
    <3>1. SameOwn(kv, kv')
      BY <2>2 DEF SameOwn, Committed, Over
    <3> QED
      BY <2>1, <3>1 DEF SameOwn, OwnView, Over
  <2>4. Whole(kv') /\ Whole(OwnView') /\ Continues(OwnView', kv')
    BY <2>3, WholeSame, ContinuesSame DEF Inv, ListInv
  <2>5. Continues(kv', kv)
    BY <2>3, ContinuesSame DEF Inv, ListInv
  <2> QED
    BY <1>4, <1>5, <1>6, <2>4, <2>5 DEF Inv, ListInv
<1> QED
  BY <1>7, <1>8

LEMMA NewTxInv ==
    ASSUME Inv, NEW t \in Txs, NEW p, NewTx(t, p),
           t = Own => p = Root, t # Own => p \in TreePrefixes
    PROVE  Inv' /\ Continues(kv', kv)
<1> DEFINE x == [Nil EXCEPT !.open = TRUE, !.prefix = p]
<1>1. p \in TreePrefixes \cup {Root}
  OBVIOUS
<1>2. x \in Transactions /\ x.prefix = p /\ x.cache = Empty /\ x.made = Empty
  BY <1>1, NilFacts
<1>3. tx' = [tx EXCEPT ![t] = x] /\ UNCHANGED <<backend, kv, shadow, faults>>
  BY DEF NewTx
<1> HIDE DEF x
<1>4. Begins(t, x)
  BY <1>2, <1>3 DEF Begins
<1>5. faults' \in 0 .. MaxFaults
  BY <1>3 DEF Inv, TypeInv
<1> QED
  BY <1>3, <1>4, <1>5, TxBegins

LEMMA EndInv ==
    ASSUME Inv, NEW t \in Txs, Commit(t) \/ CloseTx(t) PROVE Inv' /\ Continues(kv', kv)
<1>1. Begins(t, Nil)
  BY NilFacts DEF Begins, Commit, CloseTx
<1>2. /\ UNCHANGED backend
      /\ \/ UNCHANGED <<kv, shadow>>
         \/ kv' = Committed(t) /\ shadow' = Over(tx[t].made, shadow)
  BY DEF Commit, CloseTx
<1>3. faults' \in 0 .. MaxFaults
  BY KVStorageAssumption DEF Inv, TypeInv, Commit, CloseTx, Fault
<1> QED
  BY <1>1, <1>2, <1>3, TxBegins

LEMMA CrashInv == ASSUME Inv, Crash PROVE Inv'
<1>1. /\ tx' = [t \in Txs |-> Nil] /\ UNCHANGED backend
      /\ UNCHANGED <<kv, shadow>> \/ (kv' = Empty /\ shadow' = Empty)
  BY DEF Crash
<1>2. faults' \in 0 .. MaxFaults
  BY KVStorageAssumption DEF Inv, TypeInv, Crash, Fault
<1>3. Own \in Txs /\ \A t \in TreeTxs : t \in Txs
  BY DEF Txs
<1>4. TypeInv'
  BY <1>1, <1>2, NilFacts, EmptyFacts DEF Inv, TypeInv
<1>5. TxInv'
  BY <1>1, <1>3, NilFacts, EmptyFacts DEF TxInv
<1>6. Mirrors(kv', shadow') /\ Whole(kv')
  BY <1>1, EmptyFacts, EmptyWhole DEF Inv, ListInv
<1> QED
  BY <1>1, <1>3, <1>4, <1>5, <1>6, NilFacts, OwnReset

-----------------------------------------------------------------------------
LEMMA InitInv == Init => Inv
<1> SUFFICES ASSUME Init PROVE Inv
  OBVIOUS
<1>1. /\ tx = [t \in Txs |-> Nil] /\ kv = Empty /\ shadow = Empty
      /\ backend \in {"memory", "leveldb"} /\ faults \in 0 .. MaxFaults
  BY KVStorageAssumption DEF Init
<1>2. Own \in Txs /\ \A t \in TreeTxs : t \in Txs
  BY DEF Txs
<1>3. TypeInv
  BY <1>1, NilFacts, EmptyFacts DEF TypeInv
<1>4. TxInv
  BY <1>1, <1>2, NilFacts, EmptyFacts DEF TxInv
<1>5. SameOwn(kv, OwnView)
  BY <1>1, <1>2, NilFacts, EmptyFacts DEF SameOwn, OwnView, Over
<1>6. Whole(kv)
  BY <1>1, EmptyWhole
<1>7. ListInv
  BY <1>5, <1>6, WholeSame, ContinuesSame DEF ListInv
<1> QED
  BY <1>1, <1>3, <1>4, <1>7, EmptyFacts DEF Inv

(* Every step keeps the invariant, and all but the end of the process with *)
(* a storage in memory continue the stored list.                           *)
LEMMA NextInv ==
    ASSUME Inv, [Next]_vars
    PROVE  Inv' /\ (Continues(kv', kv) \/ (backend = "memory" /\ Crash))
<1>0. UNCHANGED kv => Continues(kv', kv)
  <2>1. SameOwn(kv, kv) /\ Whole(kv)
    BY DEF SameOwn, Inv, ListInv
  <2>2. Continues(kv, kv)
    BY <2>1, ContinuesSame
  <2> QED
    BY <2>2
<1>1. CASE NewTx(Own, Root)
  <2>1. Own \in Txs
    BY DEF Txs
  <2> QED
    BY <1>1, <2>1, NewTxInv
<1>2. CASE Create
  BY <1>0, <1>2, CreateInv DEF Create, ListInit
<1>3. CASE \E k \in ListKeys : ListAppend(k)
  BY <1>0, <1>3, ListAppendInv DEF ListAppend
<1>4. CASE \E t \in TreeTxs, p \in TreePrefixes : NewTx(t, p)
  <2>1. PICK t \in TreeTxs, p \in TreePrefixes : NewTx(t, p)
    BY <1>4
  <2>2. t \in Txs /\ t # Own
    BY KVStorageAssumption DEF Txs
  <2> QED
    BY <2>1, <2>2, NewTxInv
<1>5. CASE \E t \in TreeTxs, k \in TreeKeys, v \in TreeValues : TreePut(t, k, v)
  BY <1>0, <1>5, TreePutInv DEF TreePut
<1>6. CASE \E t, u \in TreeTxs : Add(t, u)
  BY <1>0, <1>6, AddInv DEF Add
<1>7. CASE (\E t \in Txs : Commit(t)) \/ (\E t \in Txs : CloseTx(t))
  BY <1>7, EndInv
<1>8. CASE Crash
  BY <1>0, <1>8, CrashInv DEF Crash
<1>9. CASE UNCHANGED vars
  <2>1. OwnView' = OwnView
    BY <1>9 DEF vars, OwnView, Over
  <2> QED
    BY <1>0, <1>9, <2>1 DEF vars, Inv, TypeInv, TxInv, ListInv
<1> QED
  BY <1>1, <1>2, <1>3, <1>4, <1>5, <1>6, <1>7, <1>8, <1>9 DEF Next

(* The inductive invariant: every view mirrors what was put through it,    *)
(* and the list is whole in the storage and in the open transaction.       *)
THEOREM Invariance == Spec => []Inv
<1>1. Inv /\ [Next]_vars => Inv'
  BY NextInv
<1> QED
  BY <1>1, InitInv, PTL DEF Spec

(* What the readers of the stored list find.                               *)
ListReads ==
    /\ Length = ListLen(kv) /\ Length \in 0 .. MaxLen
    /\ \A i \in 1 .. Length : /\ i - 1 \in 0 .. MaxLen /\ i - 1 < ListLen(kv)
                             /\ StoredList[i] = kv[ByIdxKey(i - 1)]
                             /\ StoredList[i] \in ListKeys

LEMMA ListRead ==
    ASSUME Inv
    PROVE  /\ \A x \in OwnKeys : Get(Root, x) = IF x \in DOMAIN kv THEN kv[x] ELSE NotFound
           /\ ListReads
<1>1. \A x \in OwnKeys : Get(Root, x) = IF x \in DOMAIN kv THEN kv[x] ELSE NotFound
  BY AddressesAreSeparate DEF Get
<1>2. Whole(kv) /\ MaxLen \in Nat
  BY KVStorageAssumption DEF Inv, ListInv
<1>3. Length = ListLen(kv) /\ Length \in 0 .. MaxLen
  <2>1. LenKey \in DOMAIN kv => kv[LenKey] # NotFound
    BY <1>2, KVStorageAssumption DEF Whole, ListLen
  <2>2. Get(Root, LenKey) = IF LenKey \in DOMAIN kv THEN kv[LenKey] ELSE NotFound
    BY <1>1, OwnKeyFacts
  <2> QED
    BY <1>2, <2>1, <2>2 DEF Length, ListLen, Whole
<1>4. ASSUME NEW i \in 1 .. Length
      PROVE  /\ i - 1 \in 0 .. MaxLen /\ i - 1 < ListLen(kv)
             /\ StoredList[i] = kv[ByIdxKey(i - 1)]
             /\ StoredList[i] \in ListKeys
  <2>1. i - 1 \in 0 .. MaxLen /\ i - 1 < ListLen(kv)
    BY <1>2, <1>3
  <2>2. StoredList[i] = Get(Root, ByIdxKey(i - 1))
    BY DEF StoredList
  <2>3. ByIdxKey(i - 1) \in OwnKeys /\ ByIdxKey(i - 1) \in DOMAIN kv
    BY <1>2, <2>1, OwnKeyFacts DEF Whole
  <2>4. kv[ByIdxKey(i - 1)] \in ListKeys
    BY <1>2, <2>1 DEF Whole
  <2> QED
    BY <2>1, <2>2, <2>3, <2>4, <1>1
<1> QED
  BY <1>1, <1>3, <1>4 DEF ListReads

(* The stored list is whole, after any crash and any commit that failed:   *)
(* every index leads to a key and every key to its value, nothing is beyond*)
(* the length, and the register is that of the last entry.                 *)
THEOREM ListStaysWhole == Spec => []ListIsWhole
<1>1. Inv => ListIsWhole
  <2> SUFFICES ASSUME Inv PROVE ListIsWhole
    OBVIOUS
  <2>1. Whole(kv) /\ MaxLen \in Nat
    BY KVStorageAssumption DEF Inv, ListInv
  <2>2. ASSUME NEW i \in 1 .. Length
        PROVE  StoredList[i] # NotFound /\ Get(Root, ListKey(StoredList[i])) = StoredList[i]
    <3>1. /\ StoredList[i] \in ListKeys
          /\ ListKey(StoredList[i]) \in DOMAIN kv
      BY <2>1, ListRead DEF Whole, ListReads
    <3>2. kv[ListKey(StoredList[i])] = StoredList[i] /\ ListKey(StoredList[i]) \in OwnKeys
      BY <2>1, <3>1, OwnKeyFacts DEF Whole
    <3> QED
      BY <3>1, <3>2, ListRead, KVStorageAssumption
  <2>3. ASSUME NEW k \in ListKeys, Get(Root, ListKey(k)) # NotFound
        PROVE  \E i \in 1 .. Length : StoredList[i] = k
    <3>1. ListKey(k) \in DOMAIN kv
      BY <2>3, ListRead, OwnKeyFacts
    <3>2. PICK j \in 0 .. MaxLen : j < ListLen(kv) /\ kv[ByIdxKey(j)] = k
      BY <2>1, <3>1 DEF Whole
    <3>3. j + 1 \in 1 .. Length /\ (j + 1) - 1 = j
      BY <2>1, <3>2, ListRead DEF ListReads
    <3>4. StoredList[j + 1] = kv[ByIdxKey((j + 1) - 1)]
      BY <3>3, ListRead DEF ListReads
    <3> QED
      BY <3>2, <3>3, <3>4
  <2>4. ASSUME NEW i \in Length .. MaxLen PROVE Get(Root, ByIdxKey(i)) = NotFound
    <3>1. i \in 0 .. MaxLen /\ ~(i < ListLen(kv))
      BY <2>1, ListRead DEF ListReads
    <3>2. ByIdxKey(i) \notin DOMAIN kv /\ ByIdxKey(i) \in OwnKeys
      BY <2>1, <3>1, OwnKeyFacts DEF Whole
    <3> QED
      BY <3>2, ListRead
  <2>5. ASSUME Length > 0 PROVE Get(Root, RegisterKey) = StoredList[Length]
    <3>1. Length \in 1 .. Length /\ Length = ListLen(kv)
      BY <2>1, <2>5, ListRead DEF ListReads
    <3>2. StoredList[Length] = kv[ByIdxKey(Length - 1)]
      BY <3>1, ListRead DEF ListReads
    <3>3. RegisterKey \in DOMAIN kv /\ kv[RegisterKey] = kv[ByIdxKey(ListLen(kv) - 1)]
      BY <2>1, <2>5, <3>1 DEF Whole
    <3> QED
      BY <3>1, <3>2, <3>3, ListRead, OwnKeyFacts
  <2> QED
    BY <2>2, <2>3, <2>4, <2>5 DEF ListIsWhole
<1> QED
  BY <1>1, Invariance, PTL

(* The stored list loses and changes nothing, unless the memory it is in   *)
(* is gone.                                                                *)
THEOREM ListGrows == Spec => ListOnlyGrows
<1>1. ASSUME ListReads, ListReads', Continues(kv', kv) PROVE IsPrefix(StoredList, StoredList')
  <2> DEFINE s == StoredList
             t == StoredList'
             n == Length
             o == Length'
  <2>1. /\ n = ListLen(kv) /\ n \in Nat /\ \A i \in 1 .. n : s[i] = kv[ByIdxKey(i - 1)]
        /\ \A i \in 1 .. n : i - 1 \in 0 .. MaxLen /\ i - 1 < ListLen(kv) /\ s[i] \in ListKeys
    BY <1>1 DEF ListReads
  <2>2. /\ o = ListLen(kv') /\ o \in Nat /\ \A i \in 1 .. o : t[i] = kv'[ByIdxKey(i - 1)]
        /\ \A i \in 1 .. o : t[i] \in ListKeys
    BY <1>1 DEF ListReads
  <2>3. s = [i \in 1 .. n |-> s[i]] /\ t = [i \in 1 .. o |-> t[i]]
    BY DEF StoredList
  <2> HIDE DEF s, t, n, o
  <2>4. s \in Seq(ListKeys) /\ Len(s) = n /\ t \in Seq(ListKeys) /\ Len(t) = o
    <3>1. s \in [1 .. n -> ListKeys] /\ t \in [1 .. o -> ListKeys]
      BY <2>1, <2>2, <2>3
    <3>2. \A m \in Nat : \A f \in [1 .. m -> ListKeys] : f \in Seq(ListKeys) /\ Len(f) = m
      OBVIOUS
    <3> QED
      BY <2>1, <2>2, <3>1, <3>2
  <2>5. n <= o
    BY <1>1, <2>1, <2>2 DEF Continues
  <2>6. \A i \in 1 .. n : s[i] = t[i]
    <3> SUFFICES ASSUME NEW i \in 1 .. n PROVE s[i] = t[i]
      OBVIOUS
    <3>1. i \in 1 .. o
      BY <2>1, <2>2, <2>5
    <3>2. kv[ByIdxKey(i - 1)] = kv'[ByIdxKey(i - 1)]
      BY <1>1, <2>1 DEF Continues
    <3> QED
      BY <2>1, <2>2, <3>1, <3>2
  <2>7. SubSeq(s, 1, n) = SubSeq(t, 1, n)
    BY <2>1, <2>2, <2>4, <2>5, <2>6
  <2> QED
    BY <2>4, <2>5, <2>7 DEF IsPrefix, s, t
<1>2. ListReads /\ ListReads' /\ Inv /\ [Next]_vars =>
        (IsPrefix(StoredList, StoredList') \/ (backend = "memory" /\ Crash))
  BY <1>1, NextInv
<1>3. Inv => ListReads
  BY ListRead
<1> QED
  BY <1>2, <1>3, Invariance, PTL DEF Spec, ListOnlyGrows

(* Iterate and Get find through a view what was committed through it, and  *)
(* nothing from another view.                                              *)
THEOREM ViewsStaySeparate == Spec => []ViewsAreSeparate
<1>1. Inv => ViewsAreSeparate
  <2> SUFFICES ASSUME Inv PROVE ViewsAreSeparate
    OBVIOUS
  <2>1. /\ DOMAIN shadow \subseteq Addresses
        /\ DOMAIN kv = {At(x) : x \in DOMAIN shadow}
        /\ \A x \in DOMAIN shadow : kv[At(x)] = shadow[x]
    BY MapType DEF Inv, TypeInv, Puts, Mirrors
  <2>2. \A x \in DOMAIN shadow : Get(x[1], x[2]) = shadow[x]
    BY <2>1 DEF Get, At
  <2>3. ASSUME NEW p \in TreePrefixes
        PROVE  Iterate(p) = {k \in TreeKeys : <<p, k>> \in DOMAIN shadow}
    <3> DEFINE Rest(f) == SubSeq(f, Len(p) + 1, Len(f))
    <3>1. Iterate(p) = {Rest(f) : f \in {g \in DOMAIN kv : HasPrefix(g, p)}}
      BY DEF Iterate
    <3>2. \A x \in DOMAIN shadow : HasPrefix(At(x), p) <=> x[1] = p
      BY <2>1, AddressesAreSeparate
    <3>3. \A x \in DOMAIN shadow : x[1] = p => Rest(At(x)) = x[2]
      BY <2>1, AddressesAreSeparate
    <3>4. \A x \in DOMAIN shadow : x[1] = p => x[2] \in TreeKeys /\ x = <<p, x[2]>>
      BY <2>1, RootIsNoTree DEF Addresses
    <3> HIDE DEF Rest
    <3>5. ASSUME NEW f \in DOMAIN kv, HasPrefix(f, p)
          PROVE  Rest(f) \in TreeKeys /\ <<p, Rest(f)>> \in DOMAIN shadow
      <4>1. PICK x \in DOMAIN shadow : f = At(x)
        BY <2>1
      <4>2. x[1] = p
        BY <3>2, <3>5, <4>1
      <4> QED
        BY <3>3, <3>4, <4>1, <4>2
    <3>6. ASSUME NEW k \in TreeKeys, <<p, k>> \in DOMAIN shadow
          PROVE  k \in {Rest(f) : f \in {g \in DOMAIN kv : HasPrefix(g, p)}}
      <4> DEFINE x == <<p, k>>
      <4>1. x \in DOMAIN shadow /\ x[1] = p /\ x[2] = k
        BY <3>6
      <4> HIDE DEF x
      <4>2. At(x) \in DOMAIN kv /\ HasPrefix(At(x), p) /\ Rest(At(x)) = k
        BY <2>1, <3>2, <3>3, <4>1
      <4> QED
        BY <4>2
    <3> QED
      BY <3>1, <3>5, <3>6
  <2> QED
    BY <2>2, <2>3 DEF ViewsAreSeparate
<1> QED
  BY <1>1, Invariance, PTL

=============================================================================
