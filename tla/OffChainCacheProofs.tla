------------------------ MODULE OffChainCacheProofs ------------------------
(***************************************************************************)
(* What the ring of OffChainCache serves, for every length of the cache    *)
(* and every number of publications.                                       *)
(***************************************************************************)
EXTENDS OffChainCache, TLAPS, WellFoundedInduction

(* The publication, counted from the oldest, that is in the slot j.        *)
At(j) == IF j < cacheIdx THEN Len(recent) - cacheIdx + j + 1 ELSE j - cacheIdx + 1

Types ==
    /\ created \in BOOLEAN
    /\ slots \in [Idxs -> IdenStates \cup {Empty}]
    /\ cacheIdx \in Idxs
    /\ recent \in Seq(IdenStates)
    /\ Len(recent) <= CacheLen

(* Until the ring is full it is filled from slot 0 on; after that the slot *)
(* to be written next has the oldest publication.                          *)
Layout ==
    /\ Len(recent) < CacheLen => cacheIdx = Len(recent)
    /\ \A j \in Idxs :
          slots[j] = IF j < cacheIdx \/ Len(recent) = CacheLen THEN recent[At(j)] ELSE Empty

RingInv ==
    /\ Types
    /\ ~created => recent = <<>>
    /\ Layout

-----------------------------------------------------------------------------
(* A set of natural numbers has a least one: GetPublicData stops at the    *)
(* first slot that ends its search.                                        *)
LEMMA LeastNatural ==
    ASSUME NEW S \in SUBSET Nat, S # {}
    PROVE  \E x \in S : \A y \in S : x <= y
<1> DEFINE R == {ss \in Nat \X Nat : ss[1] < ss[2]}
<1>1. IsWellFoundedOn(R, Nat)
  BY NatLessThanWellFounded DEF OpToRel
<1>2. \A x, y \in Nat : y < x => <<y, x>> \in R
  OBVIOUS
<1> HIDE DEF R
<1>3. PICK x \in S : \A y \in S : ~(<<y, x>> \in R)
  BY <1>1, WFMin
<1>4. \A y \in S : ~(y < x)
  BY <1>2, <1>3
<1>5. \A y \in S : x <= y
  BY <1>4
<1> QED
  BY <1>5

(* The slot that GetPublicData(q) returns is the first with q, or the      *)
(* first that is empty.                                                    *)
LEMMA FirstStop ==
    ASSUME CacheAssumption, NEW q, Stop(q) # {}
    PROVE  \E i \in Idxs : /\ slots[i] \in {q, Empty}
                           /\ \A j \in Idxs : slots[j] \in {q, Empty} => i <= j
                           /\ GetPublicData(q) = slots[i]
<1>1. Stop(q) \in SUBSET Nat
  BY DEF Stop, Idxs, CacheAssumption
<1>2. \E i \in Stop(q) : \A j \in Stop(q) : i <= j
  BY <1>1, LeastNatural
<1> DEFINE i == CHOOSE x \in Stop(q) : \A j \in Stop(q) : x <= j
<1>3. i \in Stop(q) /\ \A j \in Stop(q) : i <= j
  BY <1>2
<1>4. GetPublicData(q) = slots[i]
  BY DEF GetPublicData
<1> HIDE DEF i
<1> QED
  BY <1>3, <1>4 DEF Stop

(* Arithmetic of the index: a number below the length is its own           *)
(* remainder, the length itself has none, and that of 255 is one less than *)
(* that of 256, or the greatest one if 256 has none.                       *)
LEMMA Remainders ==
    ASSUME NEW L \in 1 .. 255
    PROVE  /\ \A n \in 0 .. L - 1 : n % L = n
           /\ L % L = 0
           /\ 256 % L \in 0 .. L - 1
           /\ 256 % L = 0 => 255 % L = L - 1
           /\ 256 % L # 0 => 255 % L = (256 % L) - 1
<1>1. ASSUME NEW n \in 0 .. L - 1 PROVE n % L = n
  BY <1>1
<1>2. L % L = 0
  OBVIOUS
<1>3. ASSUME 256 % L = 0 PROVE 255 % L = L - 1
  <2>1. PICK n \in Int : 256 = n * L
    BY <1>3
  <2>2. 255 = (n - 1) * L + (L - 1)
    BY <2>1
  <2> QED
    BY <2>1, <2>2
<1>4. ASSUME 256 % L # 0 PROVE 255 % L = (256 % L) - 1
  <2> DEFINE n == 256 \div L
             r == 256 % L
  <2>1. n \in Int /\ r \in 0 .. L - 1 /\ 256 = n * L + r
    OBVIOUS
  <2> HIDE DEF n, r
  <2>2. r - 1 \in 0 .. L - 1 /\ 255 = n * L + (r - 1)
    BY <1>4, <2>1 DEF r
  <2> DEFINE q == 255 \div L
             m == 255 % L
  <2>3. q \in Int /\ m \in 0 .. L - 1 /\ 255 = q * L + m
    OBVIOUS
  <2> HIDE DEF q, m
  <2>4. n = q
    <3> DEFINE d == n - q
    <3>1. d \in Int /\ d * L = m - (r - 1)
      BY <2>1, <2>2, <2>3
    <3> HIDE DEF d
    <3>2. d * L < L /\ d * L > -L
      BY <2>1, <2>2, <2>3, <3>1
    <3>3. d = 0
      BY <3>1, <3>2
    <3> QED
      BY <2>1, <2>3, <3>3 DEF d
  <2>5. m = r - 1
    BY <2>1, <2>2, <2>3, <2>4
  <2> QED
    BY <2>5 DEF r, m
<1>5. 256 % L \in 0 .. L - 1
  OBVIOUS
<1> QED
  BY <1>1, <1>2, <1>3, <1>4, <1>5

(* The index stays in the ring, and wraps around at its end.               *)
LEMMA NextIdxWraps ==
    ASSUME CacheAssumption, NEW i \in Idxs
    PROVE  NextIdx(i) = IF i = CacheLen - 1 THEN 0 ELSE i + 1
<1>1. i \in 0 .. CacheLen - 1 /\ i + 1 \in 1 .. CacheLen /\ CacheLen \in 1 .. 255
  BY DEF CacheAssumption, Idxs
<1>2. Byte(i + 1) = i + 1
  BY <1>1 DEF Byte
<1>3. CASE i = CacheLen - 1
  BY <1>1, <1>2, <1>3, Remainders DEF NextIdx
<1>4. CASE i # CacheLen - 1
  <2>1. i + 1 \in 0 .. CacheLen - 1
    BY <1>1, <1>4
  <2> QED
    BY <1>1, <1>2, <1>4, <2>1, Remainders DEF NextIdx
<1> QED
  BY <1>3, <1>4

(* The byte below zero is the last slot if the length divides 256, and    *)
(* another one, as far before it as Lag says, if not.                      *)
LEMMA PrevIdxWraps ==
    ASSUME CacheAssumption, NEW i \in Idxs
    PROVE  PrevIdx(i) = IF i # 0 THEN i - 1
                        ELSE CacheLen - 1 - ((CacheLen - (256 % CacheLen)) % CacheLen)
<1>1. CacheLen \in 1 .. 255 /\ i \in 0 .. CacheLen - 1
  BY DEF CacheAssumption, Idxs
<1>2. CASE i = 0
  <2>1. i - 1 \in Int /\ (i - 1) + 256 = 255
    BY <1>1, <1>2
  <2>2. Byte(i - 1) = 255
    BY ONLY <2>1, Z3 DEF Byte
  <2>3. CASE 256 % CacheLen = 0
    <3>1. (CacheLen - (256 % CacheLen)) % CacheLen = 0
      BY <1>1, <2>3, Remainders
    <3> QED
      BY <1>1, <1>2, <2>2, <2>3, <3>1, Remainders DEF PrevIdx
  <2>4. CASE 256 % CacheLen # 0
    <3>1. CacheLen - (256 % CacheLen) \in 0 .. CacheLen - 1
      BY <1>1, <2>4, Remainders
    <3>2. (CacheLen - (256 % CacheLen)) % CacheLen = CacheLen - (256 % CacheLen)
      BY <1>1, <3>1, Remainders
    <3>3. 255 % CacheLen = (256 % CacheLen) - 1 /\ 256 % CacheLen \in 0 .. CacheLen - 1
      BY <1>1, <2>4, Remainders
    <3> QED
      BY <1>1, <1>2, <2>2, <3>2, <3>3 DEF PrevIdx
  <2> QED
    BY <2>3, <2>4
<1>3. CASE i # 0
  <2>1. i - 1 \in 0 .. CacheLen - 1 /\ Byte(i - 1) = i - 1
    BY <1>1, <1>3 DEF Byte
  <2> QED
    BY <1>1, <1>3, <2>1, Remainders DEF PrevIdx
<1> QED
  BY <1>2, <1>3

(* What the layout says of a slot that has been written, and of one that   *)
(* has not.                                                                *)
LEMMA SlotContents ==
    ASSUME CacheAssumption, RingInv
    PROVE  /\ CacheLen \in 1 .. 255 /\ cacheIdx \in 0 .. CacheLen - 1
           /\ Len(recent) \in 0 .. CacheLen
           /\ \A i \in 1 .. Len(recent) : recent[i] \in IdenStates /\ recent[i] # Empty
           /\ Len(recent) < CacheLen => cacheIdx = Len(recent)
           /\ \A j \in 0 .. CacheLen - 1 : j < cacheIdx =>
                 /\ Len(recent) - cacheIdx + j + 1 \in 1 .. Len(recent)
                 /\ slots[j] = recent[Len(recent) - cacheIdx + j + 1]
           /\ Len(recent) = CacheLen => \A j \in cacheIdx .. CacheLen - 1 :
                 /\ j - cacheIdx + 1 \in 1 .. Len(recent)
                 /\ slots[j] = recent[j - cacheIdx + 1]
           /\ Len(recent) < CacheLen => \A j \in cacheIdx .. CacheLen - 1 : slots[j] = Empty
<1>1. /\ CacheLen \in 1 .. 255 /\ cacheIdx \in 0 .. CacheLen - 1
      /\ Len(recent) \in 0 .. CacheLen
      /\ Empty \notin IdenStates
      /\ \A i \in 1 .. Len(recent) : recent[i] \in IdenStates
  BY DEF CacheAssumption, RingInv, Types, Idxs
<1>2. \A i \in 1 .. Len(recent) : recent[i] # Empty
  BY <1>1
<1>3. Len(recent) < CacheLen => cacheIdx = Len(recent)
  BY DEF RingInv, Layout
<1>4. \A j \in 0 .. CacheLen - 1 :
         slots[j] = IF j < cacheIdx \/ Len(recent) = CacheLen THEN recent[At(j)] ELSE Empty
  BY DEF RingInv, Layout, Idxs
<1>5. \A j \in 0 .. CacheLen - 1 : j < cacheIdx =>
         /\ Len(recent) - cacheIdx + j + 1 \in 1 .. Len(recent)
         /\ At(j) = Len(recent) - cacheIdx + j + 1
  BY <1>1, <1>3 DEF At
<1>6. Len(recent) = CacheLen => \A j \in cacheIdx .. CacheLen - 1 :
         /\ j \in 0 .. CacheLen - 1
         /\ j - cacheIdx + 1 \in 1 .. Len(recent)
         /\ At(j) = j - cacheIdx + 1
  BY <1>1 DEF At
<1>7. Len(recent) < CacheLen => \A j \in cacheIdx .. CacheLen - 1 :
         j \in 0 .. CacheLen - 1 /\ ~(j < cacheIdx) /\ Len(recent) # CacheLen
  BY <1>1
<1> HIDE DEF At
<1> QED
  BY <1>1, <1>2, <1>3, <1>4, <1>5, <1>6, <1>7

-----------------------------------------------------------------------------
(* Publish keeps the layout, whether the ring has room, is being filled by *)
(* this publication, or is full and loses its oldest one.                  *)
LEMMA PublishLayout ==
    ASSUME CacheAssumption, RingInv, NEW s \in IdenStates, Publish(s)
    PROVE  RingInv'
<1>0. /\ CacheLen \in 1 .. 255 /\ cacheIdx \in 0 .. CacheLen - 1 /\ cacheIdx \in Idxs
      /\ Len(recent) \in 0 .. CacheLen
      /\ recent \in Seq(IdenStates)
      /\ slots \in [Idxs -> IdenStates \cup {Empty}]
      /\ created \in BOOLEAN /\ created
  BY SlotContents DEF RingInv, Types, Publish
<1>1. cacheIdx' = IF cacheIdx = CacheLen - 1 THEN 0 ELSE cacheIdx + 1
  BY <1>0, NextIdxWraps DEF Publish
<1>2. /\ cacheIdx' \in Idxs
      /\ created' = created
      /\ slots' \in [Idxs -> IdenStates \cup {Empty}]
      /\ slots'[cacheIdx] = s
      /\ \A j \in Idxs : j # cacheIdx => slots'[j] = slots[j]
  BY <1>0, <1>1 DEF Idxs, Publish
<1>3. CASE Len(recent) < CacheLen
  <2>1. recent' = Append(recent, s)
    BY <1>0, <1>3 DEF Publish
  <2>2. /\ recent' \in Seq(IdenStates)
        /\ Len(recent') = Len(recent) + 1
        /\ \A k \in 1 .. Len(recent) : recent'[k] = recent[k]
        /\ recent'[Len(recent) + 1] = s
    BY <1>0, <2>1
  <2>3. cacheIdx = Len(recent) /\ Len(recent') = cacheIdx + 1
        /\ cacheIdx \in 0 .. CacheLen - 1 /\ CacheLen \in 1 .. 255
    BY <1>0, <1>3, <2>2, SlotContents
  <2>4. ASSUME NEW j \in Idxs
        PROVE  slots'[j] = IF j < cacheIdx' \/ Len(recent') = CacheLen THEN recent'[At(j)'] ELSE Empty
    <3>0. j \in 0 .. CacheLen - 1
      BY DEF Idxs
    <3>1. CASE j < cacheIdx
      <4>1. slots'[j] = slots[j] /\ slots[j] = recent[j + 1] /\ j + 1 \in 1 .. Len(recent)
        BY <1>0, <1>2, <2>3, <3>0, <3>1, SlotContents
      <4>2. recent'[j + 1] = slots'[j]
        BY <2>2, <4>1
      <4>3. At(j)' = j + 1
        <5>1. CASE cacheIdx = CacheLen - 1
          BY <1>1, <2>3, <3>0, <3>1, <5>1 DEF At
        <5>2. CASE cacheIdx # CacheLen - 1
          <6>1. cacheIdx' = cacheIdx + 1 /\ j < cacheIdx' /\ Len(recent') - cacheIdx' + j + 1 = j + 1
            BY <1>1, <2>3, <3>0, <3>1, <5>2
          <6> QED
            BY <6>1 DEF At
        <5> QED
          BY <5>1, <5>2
      <4>4. j < cacheIdx' \/ Len(recent') = CacheLen
        BY <1>0, <1>1, <2>2, <2>3, <3>0, <3>1
      <4> QED
        BY <4>2, <4>3, <4>4
    <3>2. CASE j = cacheIdx
      <4>1. At(j)' = j + 1
        <5>1. CASE cacheIdx = CacheLen - 1
          BY <1>1, <2>3, <3>0, <3>2, <5>1 DEF At
        <5>2. CASE cacheIdx # CacheLen - 1
          <6>1. cacheIdx' = cacheIdx + 1 /\ j < cacheIdx' /\ Len(recent') - cacheIdx' + j + 1 = j + 1
            BY <1>1, <2>3, <3>0, <3>2, <5>2
          <6> QED
            BY <6>1 DEF At
        <5> QED
          BY <5>1, <5>2
      <4>2. j < cacheIdx' \/ Len(recent') = CacheLen
        BY <1>1, <2>3, <3>2
      <4> QED
        BY <1>2, <2>2, <2>3, <3>2, <4>1, <4>2
    <3>3. CASE j > cacheIdx
      <4>1. slots'[j] = Empty
        BY <1>0, <1>2, <1>3, <3>0, <3>3, SlotContents
      <4>2. ~(j < cacheIdx') /\ Len(recent') # CacheLen
        BY <1>0, <1>1, <2>2, <2>3, <3>0, <3>3
      <4> QED
        BY <4>1, <4>2
    <3> QED
      BY <1>0, <3>0, <3>1, <3>2, <3>3
  <2>5. Len(recent') <= CacheLen /\ (Len(recent') < CacheLen => cacheIdx' = Len(recent'))
    BY <1>0, <1>1, <1>3, <2>2, <2>3
  <2> QED
    BY <1>0, <1>2, <2>2, <2>4, <2>5 DEF RingInv, Types, Layout
<1>4. CASE Len(recent) = CacheLen
  <2>1. recent' = Append(Tail(recent), s)
    BY <1>4 DEF Publish
  <2>2. /\ recent' \in Seq(IdenStates)
        /\ Len(recent') = Len(recent)
        /\ \A k \in 1 .. Len(recent) - 1 : recent'[k] = recent[k + 1]
        /\ recent'[Len(recent)] = s
    BY <1>0, <1>4, <2>1
  <2>3. ASSUME NEW j \in Idxs
        PROVE  slots'[j] = recent'[At(j)']
    <3>0. j \in 0 .. CacheLen - 1
      BY DEF Idxs
    <3>1. CASE j < cacheIdx
      <4>1. slots'[j] = slots[j] /\ slots[j] = recent[CacheLen - cacheIdx + j + 1]
        BY <1>0, <1>2, <1>4, <3>0, <3>1, SlotContents
      <4>2. At(j)' = CacheLen - cacheIdx + j
        BY <1>0, <1>1, <1>4, <2>2, <3>0, <3>1 DEF At
      <4>3. CacheLen - cacheIdx + j \in 1 .. Len(recent) - 1
        BY <1>0, <1>4, <3>0, <3>1
      <4> QED
        BY <2>2, <4>1, <4>2, <4>3
    <3>2. CASE j = cacheIdx
      <4>1. At(j)' = Len(recent)
        BY <1>0, <1>1, <1>4, <2>2, <3>0, <3>2 DEF At
      <4> QED
        BY <1>2, <2>2, <3>2, <4>1
    <3>3. CASE j > cacheIdx
      <4>1. slots'[j] = slots[j] /\ slots[j] = recent[j - cacheIdx + 1]
        BY <1>0, <1>2, <1>4, <3>0, <3>3, SlotContents
      <4>2. At(j)' = j - cacheIdx
        BY <1>0, <1>1, <1>4, <2>2, <3>0, <3>3 DEF At
      <4>3. j - cacheIdx \in 1 .. Len(recent) - 1
        BY <1>0, <1>4, <3>0, <3>3
      <4> QED
        BY <2>2, <4>1, <4>2, <4>3
    <3> QED
      BY <1>0, <3>0, <3>1, <3>2, <3>3
  <2>4. Len(recent') = CacheLen
    BY <1>4, <2>2
  <2> QED
    BY <1>0, <1>2, <2>2, <2>3, <2>4 DEF RingInv, Types, Layout
<1> QED
  BY <1>0, <1>3, <1>4

(* The ring keeps its layout in every behaviour.                           *)
THEOREM RingInvariance == Spec => []RingInv
<1>1. Init => RingInv
  BY CacheAssumption DEF CacheAssumption, Init, RingInv, Types, Layout, At, Idxs
<1>2. RingInv /\ [Next]_vars => RingInv'
  <2> SUFFICES ASSUME RingInv, [Next]_vars PROVE RingInv'
    OBVIOUS
  <2>1. CASE New
    <3>1. cacheIdx = 0
      BY <2>1, CacheAssumption DEF CacheAssumption, New, RingInv, Types, Layout
    <3> QED
      BY <2>1, <3>1 DEF New, RingInv, Types, Layout, At
  <2>2. ASSUME NEW s \in IdenStates, Publish(s) PROVE RingInv'
    BY <2>2, CacheAssumption, PublishLayout
  <2>3. CASE UNCHANGED vars
    BY <2>3 DEF vars, RingInv, Types, Layout, At
  <2> QED
    BY <2>1, <2>2, <2>3 DEF Next
<1> QED
  BY <1>1, <1>2, PTL DEF Spec

(* GetPublicData of a state serves it exactly as long as it is among the   *)
(* last CacheLen publications, for every CacheLen.                         *)
THEOREM RecentServed == Spec => []RecentIsServed
<1>1. RingInv => RecentIsServed
  <2> DEFINE Recent == 1 .. Len(recent)
  <2> SUFFICES ASSUME RingInv, NEW s \in IdenStates
               PROVE  GetPublicData(s) = IF \E i \in Recent : recent[i] = s THEN s
                          ELSE IF Len(recent) < CacheLen THEN Empty ELSE NotFound
    BY DEF RecentIsServed, RingInv, Types
  <2>0. /\ CacheLen \in 1 .. 255 /\ cacheIdx \in 0 .. CacheLen - 1
        /\ Len(recent) \in 0 .. CacheLen
        /\ Len(recent) < CacheLen => cacheIdx = Len(recent)
        /\ Idxs = 0 .. CacheLen - 1
    BY CacheAssumption, SlotContents DEF Idxs
  <2>1. \A i \in Recent : \E j \in Idxs :
           slots[j] = recent[i] /\ (Len(recent) < CacheLen => j < cacheIdx)
    <3> SUFFICES ASSUME NEW i \in Recent
                 PROVE  \E j \in Idxs : slots[j] = recent[i] /\ (Len(recent) < CacheLen => j < cacheIdx)
      OBVIOUS
    <3>1. CASE i > Len(recent) - cacheIdx
      <4> DEFINE j == i - 1 - Len(recent) + cacheIdx
      <4>1. j \in 0 .. CacheLen - 1 /\ j < cacheIdx /\ Len(recent) - cacheIdx + j + 1 = i
        BY <2>0, <3>1
      <4>2. slots[j] = recent[i]
        BY <4>1, CacheAssumption, SlotContents
      <4> HIDE DEF j
      <4> QED
        BY <2>0, <4>1, <4>2
    <3>2. CASE i <= Len(recent) - cacheIdx
      <4> DEFINE j == i - 1 + cacheIdx
      <4>1. Len(recent) = CacheLen
        BY <2>0, <3>2
      <4>2. j \in cacheIdx .. CacheLen - 1 /\ j \in 0 .. CacheLen - 1 /\ j - cacheIdx + 1 = i
        BY <2>0, <3>2
      <4>3. slots[j] = recent[i]
        BY <4>1, <4>2, CacheAssumption, SlotContents
      <4> HIDE DEF j
      <4> QED
        BY <2>0, <4>1, <4>2, <4>3
    <3> QED
      BY <2>0, <3>1, <3>2
  <2>2. \A j \in Idxs : /\ (j < cacheIdx \/ Len(recent) = CacheLen) =>
                             slots[j] # Empty /\ \E i \in Recent : recent[i] = slots[j]
                        /\ ~(j < cacheIdx \/ Len(recent) = CacheLen) => slots[j] = Empty
    <3> SUFFICES ASSUME NEW j \in Idxs
                 PROVE  /\ (j < cacheIdx \/ Len(recent) = CacheLen) =>
                             slots[j] # Empty /\ \E i \in Recent : recent[i] = slots[j]
                        /\ ~(j < cacheIdx \/ Len(recent) = CacheLen) => slots[j] = Empty
      OBVIOUS
    <3>1. CASE j < cacheIdx
      <4> DEFINE i == Len(recent) - cacheIdx + j + 1
      <4>1. i \in Recent /\ slots[j] = recent[i] /\ recent[i] # Empty
        BY <2>0, <3>1, CacheAssumption, SlotContents
      <4> HIDE DEF i
      <4> QED
        BY <3>1, <4>1
    <3>2. CASE ~(j < cacheIdx) /\ Len(recent) = CacheLen
      <4>1. j \in cacheIdx .. CacheLen - 1
        BY <2>0, <3>2
      <4> QED
        BY <2>0, <3>2, <4>1, CacheAssumption, SlotContents
    <3>3. CASE ~(j < cacheIdx) /\ Len(recent) # CacheLen
      <4>1. j \in cacheIdx .. CacheLen - 1 /\ Len(recent) < CacheLen
        BY <2>0, <3>3
      <4> QED
        BY <3>3, <4>1, CacheAssumption, SlotContents
    <3> QED
      BY <3>1, <3>2, <3>3
  <2>4. CASE \E i \in Recent : recent[i] = s
    <3>1. PICK j \in Idxs : slots[j] = s /\ (Len(recent) < CacheLen => j < cacheIdx)
      BY <2>1, <2>4
    <3>2. Stop(s) # {}
      BY <3>1 DEF Stop
    <3>3. PICK i \in Idxs : /\ slots[i] \in {s, Empty}
                            /\ \A k \in Idxs : slots[k] \in {s, Empty} => i <= k
                            /\ GetPublicData(s) = slots[i]
      BY <3>2, CacheAssumption, FirstStop
    <3>4. slots[i] # Empty
      BY <2>0, <2>2, <3>1, <3>3
    <3> QED
      BY <2>4, <3>3, <3>4
  <2>5. CASE ~(\E i \in Recent : recent[i] = s) /\ Len(recent) < CacheLen
    <3>1. slots[cacheIdx] = Empty /\ cacheIdx \in Idxs
      BY <2>0, <2>5 DEF RingInv, Layout, Types
    <3>2. Stop(s) # {}
      BY <3>1 DEF Stop
    <3>3. PICK i \in Idxs : slots[i] \in {s, Empty} /\ GetPublicData(s) = slots[i]
      BY <3>2, CacheAssumption, FirstStop
    <3> QED
      <4>1. slots[i] # s
        BY <2>0, <2>2, <2>5, <3>3, CacheAssumption DEF CacheAssumption
      <4> QED
        BY <2>5, <3>3, <4>1
  <2>6. CASE ~(\E i \in Recent : recent[i] = s) /\ Len(recent) = CacheLen
    <3>1. ASSUME NEW j \in Idxs PROVE slots[j] # Empty /\ slots[j] # s
      BY <2>2, <2>6
    <3>2. Stop(s) = {}
      BY <3>1 DEF Stop
    <3> QED
      BY <2>0, <2>6, <3>2 DEF GetPublicData
  <2> QED
    BY <2>0, <2>4, <2>5, <2>6
<1> QED
  BY <1>1, RingInvariance, PTL

(* GetPublicData without a state serves the last publication, and in the   *)
(* moment after the index has wrapped around the one that is Lag before    *)
(* it, for every CacheLen; that is the last one too if the length divides  *)
(* 256: prevCacheIdx computes in a byte.                                   *)
THEOREM LastServed == Spec => []LastIsServed
<1>1. RingInv => LastIsServed
  <2> SUFFICES ASSUME RingInv, recent # <<>> PROVE GetLast = recent[Len(recent) - Lag]
    BY DEF LastIsServed
  <2>0. /\ CacheLen \in 1 .. 255 /\ cacheIdx \in 0 .. CacheLen - 1
        /\ Len(recent) \in 1 .. CacheLen
    BY CacheAssumption, SlotContents DEF RingInv, Types
  <2>1. CASE cacheIdx = 0
    <3> DEFINE lag == (CacheLen - (256 % CacheLen)) % CacheLen
    <3>1. lag \in 0 .. CacheLen - 1
      BY <2>0
    <3>2. Lag = lag /\ PrevIdx(cacheIdx) = CacheLen - 1 - lag
      BY <2>0, <2>1, CacheAssumption, PrevIdxWraps DEF Idxs, Lag
    <3> HIDE DEF lag
    <3>3. Len(recent) = CacheLen /\ CacheLen - 1 - lag \in cacheIdx .. CacheLen - 1
      BY <2>0, <2>1, <3>1, CacheAssumption, SlotContents
    <3>4. slots[CacheLen - 1 - lag] = recent[CacheLen - 1 - lag - cacheIdx + 1]
      BY <3>3, CacheAssumption, SlotContents
    <3>5. CacheLen - 1 - lag - cacheIdx + 1 = Len(recent) - lag
      BY <2>0, <2>1, <3>1, <3>3
    <3> QED
      BY <3>2, <3>4, <3>5 DEF GetLast
  <2>2. CASE cacheIdx # 0
    <3>1. cacheIdx - 1 \in 0 .. CacheLen - 1 /\ cacheIdx - 1 < cacheIdx
      BY <2>0, <2>2
    <3>2. slots[cacheIdx - 1] = recent[Len(recent) - cacheIdx + (cacheIdx - 1) + 1]
      BY <3>1, CacheAssumption, SlotContents
    <3>3. PrevIdx(cacheIdx) = cacheIdx - 1 /\ Lag = 0
      BY <2>0, <2>2, CacheAssumption, PrevIdxWraps DEF Idxs, Lag
    <3>4. Len(recent) - cacheIdx + (cacheIdx - 1) + 1 = Len(recent) - 0
      BY <2>0
    <3> QED
      BY <3>2, <3>3, <3>4 DEF GetLast
  <2> QED
    BY <2>1, <2>2
<1> QED
  BY <1>1, RingInvariance, PTL

=============================================================================
