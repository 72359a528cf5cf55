--------------------------- MODULE KeyStoreProofs ---------------------------
(***************************************************************************)
(* What a KeyStore promises, for every number of stores, keys, passwords,  *)
(* calls and faults.                                                       *)
(***************************************************************************)
EXTENDS KeyStore, FiniteSetTheorems, TLAPS

Caches == UNION {[K -> {"key", "zero"}] : K \in SUBSET Keys}

TypeOK ==
    /\ locked \in [Stores -> BOOLEAN]
    /\ pc \in [Stores -> Running \cup {"absent", "trying", "reading"}]
    /\ final \in [Stores -> BOOLEAN]
    /\ encryptedKeys \in [Stores -> KeyMaps \cup {Nil}]
    /\ cache \in [Stores -> Caches]
    /\ writing \in [Stores -> (Keys \X Passwords) \cup {Nil}]
    /\ file \in KeyMaps \cup {Torn}
    /\ due \in [Keys -> SUBSET Passwords]
    /\ cut \in BOOLEAN /\ shared \in BOOLEAN

(* Nothing of an earlier object is left in s.                              *)
Fresh(s) ==
    /\ encryptedKeys[s] = Nil /\ cache[s] = Empty /\ writing[s] = Nil
    /\ ~final[s]

CacheIs(s, v) == \A k \in DOMAIN cache[s] : cache[s][k] = v

StoreInv(s) ==
    /\ pc[s] \in {"absent", "trying", "reading"} \/ encryptedKeys[s] = Nil => Fresh(s)
    /\ pc[s] \in {"open", "closed"} => encryptedKeys[s] # Nil
    /\ pc[s] = "open" => CacheIs(s, "key")
    /\ final[s] => pc[s] \in {"unlocking", "removing"} /\ CacheIs(s, "zero")
    /\ locked[s] => pc[s] \in {"reading", "open", "unlocking"}
    /\ writing[s] # Nil => locked[s] /\ KeyDue(writing[s][1], encryptedKeys[s], {writing[s][2]})

(* While one store at most has the lock, what is due is in the file, or    *)
(* the file is truncated by the store that has it in memory.               *)
OneLocked == \A s, t \in Stores : locked[s] /\ locked[t] => s = t

Owner(s) == locked[s] /\ encryptedKeys[s] # Nil

CutByOwner == cut => \E s \in Stores : Owner(s)

WritingCuts == \A s \in Stores : writing[s] # Nil => cut

FileHasDue ==
    ~cut => \A k \in Keys : due[k] # {} => file # Torn /\ KeyDue(k, file, due[k])

OwnerHasDue ==
    \A s \in Stores : Owner(s) =>
        \A k \in Keys : due[k] # {} =>
            \/ KeyDue(k, encryptedKeys[s], due[k])
            \/ writing[s] # Nil /\ writing[s][1] = k

FileInv == OneLocked /\ CutByOwner /\ WritingCuts /\ FileHasDue /\ OwnerHasDue

Inv == TypeOK /\ (\A s \in Stores : StoreInv(s)) /\ (shared \/ FileInv)

-----------------------------------------------------------------------------
LEMMA EmptyMaps == Empty \in KeyMaps /\ Empty \in Caches /\ DOMAIN Empty = {}
<1>1. DOMAIN Empty = {} /\ Empty = [k \in {} |-> Nil]
  BY DEF Empty
<1>2. Empty \in [{} -> Passwords] /\ Empty \in [{} -> {"key", "zero"}]
  BY <1>1
<1>3. {} \in SUBSET Keys
  OBVIOUS
<1> QED
  BY <1>1, <1>2, <1>3 DEF KeyMaps, Caches

(* Assignment to an element of a map.                                      *)
LEMMA AssignedMap ==
    ASSUME NEW m \in KeyMaps, NEW k \in Keys, NEW p \in Passwords
    PROVE  Assign(m, k, p) \in KeyMaps
<1>1. PICK K \in SUBSET Keys : m \in [K -> Passwords]
  BY DEF KeyMaps
<1>2. Assign(m, k, p) \in [K \cup {k} -> Passwords]
  BY <1>1 DEF Assign
<1>3. K \cup {k} \in SUBSET Keys
  OBVIOUS
<1> QED
  BY <1>2, <1>3 DEF KeyMaps

LEMMA AssignedCache ==
    ASSUME NEW m \in Caches, NEW k \in Keys, NEW v \in {"key", "zero"}
    PROVE  Assign(m, k, v) \in Caches
<1>1. PICK K \in SUBSET Keys : m \in [K -> {"key", "zero"}]
  BY DEF Caches
<1>2. Assign(m, k, v) \in [K \cup {k} -> {"key", "zero"}]
  BY <1>1 DEF Assign
<1>3. K \cup {k} \in SUBSET Keys
  OBVIOUS
<1> QED
  BY <1>2, <1>3 DEF Caches

LEMMA ClearedCache ==
    ASSUME NEW s, cache[s] \in Caches
    PROVE  Cleared(s) \in Caches
<1>1. PICK K \in SUBSET Keys : cache[s] \in [K -> {"key", "zero"}]
  BY DEF Caches
<1>2. Cleared(s) \in [K -> {"key", "zero"}]
  BY <1>1 DEF Cleared
<1> QED
  BY <1>2 DEF Caches

LEMMA Sentinels == Torn # Nil /\ Torn \notin KeyMaps /\ Nil \notin KeyMaps /\ Nil \notin Keys \X Passwords
BY KeyStoreAssumption DEF KeyStoreAssumption

LEMMA InitInv == Init => Inv
<1> SUFFICES ASSUME Init
             PROVE  Inv
  OBVIOUS
<1>1. TypeOK
  BY EmptyMaps DEF Init, L!Init, TypeOK, Nothing
<1>2. \A s \in Stores : StoreInv(s)
  BY EmptyMaps DEF Init, L!Init, StoreInv, Fresh
<1>3. FileInv
  BY DEF Init, L!Init, FileInv, OneLocked, CutByOwner, WritingCuts, FileHasDue, OwnerHasDue,
     Owner, Nothing
<1> QED
  BY <1>1, <1>2, <1>3 DEF Inv

(* A store that a step does not touch is as it was.                        *)
LEMMA OtherStore ==
    ASSUME NEW t \in Stores, StoreInv(t),
           pc'[t] = pc[t], locked'[t] = locked[t], final'[t] = final[t],
           encryptedKeys'[t] = encryptedKeys[t], cache'[t] = cache[t], writing'[t] = writing[t]
    PROVE  StoreInv(t)'
BY DEF StoreInv, Fresh, CacheIs

(* What is due depends on the lock, the file and the maps alone.           *)
LEMMA FileUntouched ==
    ASSUME shared \/ FileInv,
           UNCHANGED <<locked, file, encryptedKeys, writing, due, cut, shared>>
    PROVE  (shared \/ FileInv)'
BY DEF FileInv, OneLocked, CutByOwner, WritingCuts, FileHasDue, OwnerHasDue, Owner


-----------------------------------------------------------------------------
(* Opening a store.                                                        *)

LEMMA OpenLockFileInv ==
    ASSUME Inv, NEW s \in Stores, OpenLockFile(s)
    PROVE  Inv'
<1>1. TypeOK /\ (\A t \in Stores : StoreInv(t)) /\ (shared \/ FileInv)
  BY DEF Inv
<1>2. /\ UNCHANGED <<locked, file, encryptedKeys, cache, final, writing, due, cut, shared>>
      /\ pc[s] = "absent" /\ pc' = [pc EXCEPT ![s] = "trying"]
  BY DEF OpenLockFile, L!Open, keyVars, history
<1>3. TypeOK'
  BY <1>1, <1>2 DEF TypeOK, Running
<1>4. \A t \in Stores : StoreInv(t)'
  <2>1. \A t \in Stores : t # s => StoreInv(t)'
    BY <1>1, <1>2, OtherStore DEF TypeOK
  <2>2. StoreInv(s)'
    BY <1>1, <1>2 DEF TypeOK, StoreInv, Fresh, CacheIs
  <2> QED
    BY <2>1, <2>2
<1> QED
  BY <1>1, <1>2, <1>3, <1>4, FileUntouched DEF Inv

LEMMA FlockInv ==
    ASSUME Inv, NEW s \in Stores, Flock(s)
    PROVE  Inv'
<1>1. TypeOK /\ (\A t \in Stores : StoreInv(t)) /\ (shared \/ FileInv)
  BY DEF Inv
<1>2. /\ UNCHANGED <<file, encryptedKeys, cache, final, writing, due, cut>>
      /\ pc[s] = "trying"
  BY DEF Flock, keyVars
<1>3. CASE /\ L!Lock(s)
           /\ pc' = [pc EXCEPT ![s] = "reading"]
           /\ shared' = (shared \/ L!OtherLocked(s))
  <2>1. locked' = [locked EXCEPT ![s] = TRUE]
    BY <1>3 DEF L!Lock
  <2>2. TypeOK'
    BY <1>1, <1>2, <1>3, <2>1 DEF TypeOK, Running, L!OtherLocked
  <2>3. \A t \in Stores : StoreInv(t)'
    <3>1. \A t \in Stores : t # s => StoreInv(t)'
      BY <1>1, <1>2, <1>3, <2>1, OtherStore DEF TypeOK
    <3>2. StoreInv(s)'
      BY <1>1, <1>2, <1>3, <2>1 DEF TypeOK, StoreInv, Fresh, CacheIs
    <3> QED
      BY <3>1, <3>2
  <2>4. ASSUME ~shared'
        PROVE  FileInv'
    <3>1. ~shared /\ \A t \in Stores : t # s => ~locked[t]
      BY <1>3, <2>4 DEF L!OtherLocked
    <3>2. ~locked[s] /\ encryptedKeys[s] = Nil
      BY <1>1, <1>2 DEF StoreInv, Fresh
    <3>3. FileInv /\ ~cut
      BY <1>1, <3>1, <3>2 DEF FileInv, CutByOwner, Owner
    <3>4. \A t \in Stores : ~Owner(t)'
      BY <1>1, <1>2, <2>1, <3>1, <3>2 DEF TypeOK, Owner
    <3>5. OneLocked'
      BY <1>1, <2>1, <3>1 DEF TypeOK, OneLocked
    <3> QED
      BY <1>2, <3>3, <3>4, <3>5 DEF FileInv, CutByOwner, WritingCuts, FileHasDue, OwnerHasDue
  <2> QED
    BY <2>2, <2>3, <2>4 DEF Inv
<1>4. CASE /\ L!Refused(s)
           /\ pc' = [pc EXCEPT ![s] = "absent"]
           /\ UNCHANGED shared
  <2>1. locked' = locked
    BY <1>4 DEF L!Refused
  <2>2. TypeOK'
    BY <1>1, <1>2, <1>4, <2>1 DEF TypeOK, Running
  <2>3. \A t \in Stores : StoreInv(t)'
    <3>1. \A t \in Stores : t # s => StoreInv(t)'
      BY <1>1, <1>2, <1>4, <2>1, OtherStore DEF TypeOK
    <3>2. StoreInv(s)'
      BY <1>1, <1>2, <1>4, <2>1 DEF TypeOK, StoreInv, Fresh, CacheIs
    <3> QED
      BY <3>1, <3>2
  <2> QED
    BY <1>1, <1>2, <1>4, <2>1, <2>2, <2>3, FileUntouched DEF Inv
<1> QED
  BY <1>3, <1>4 DEF Flock

LEMMA ReadKeysInv ==
    ASSUME Inv, NEW s \in Stores, ReadKeys(s)
    PROVE  Inv'
<1>1. TypeOK /\ (\A t \in Stores : StoreInv(t)) /\ (shared \/ FileInv)
  BY DEF Inv
<1>2. /\ UNCHANGED <<locked, file, cache, final, writing, due, cut, shared>>
      /\ pc[s] = "reading"
      /\ Fresh(s)
  BY <1>1 DEF ReadKeys, lockVars, history, StoreInv
<1>3. CASE /\ file # Torn
           /\ encryptedKeys' = [encryptedKeys EXCEPT ![s] = file]
           /\ pc' = [pc EXCEPT ![s] = "open"]
  <2>1. file \in KeyMaps /\ file # Nil
    BY <1>1, <1>3, Sentinels DEF TypeOK
  <2>2. TypeOK'
    BY <1>1, <1>2, <1>3, <2>1 DEF TypeOK, Running
  <2>3. StoreInv(s)'
    BY <1>1, <1>2, <1>3, <2>1, EmptyMaps DEF TypeOK, StoreInv, Fresh, CacheIs
  <2>4. \A t \in Stores : t # s => StoreInv(t)'
    BY <1>1, <1>2, <1>3, OtherStore DEF TypeOK
  <2>5. ASSUME ~shared, FileInv
        PROVE  FileInv'
    <3>1. OneLocked' /\ WritingCuts' /\ FileHasDue'
      BY <1>2, <2>5 DEF FileInv, OneLocked, WritingCuts, FileHasDue
    <3>2. \A t \in Stores : Owner(t) => Owner(t)'
      BY <1>1, <1>2, <1>3, <2>1 DEF TypeOK, Owner
    <3>3. CutByOwner'
      BY <1>2, <2>5, <3>2 DEF FileInv, CutByOwner
    <3>4. ASSUME NEW t \in Stores, Owner(t)'
          PROVE  \A k \in Keys : due'[k] # {} =>
                    \/ KeyDue(k, encryptedKeys'[t], due'[k])
                    \/ writing'[t] # Nil /\ writing'[t][1] = k
      <4>1. CASE t # s
        BY <1>1, <1>2, <1>3, <2>5, <3>4, <4>1 DEF TypeOK, FileInv, OwnerHasDue, Owner
      <4>2. CASE t = s
        <5>1. locked[s] /\ ~Owner(s)
          BY <1>2, <3>4, <4>2 DEF Owner, Fresh
        <5>2. ~cut
          BY <2>5, <5>1 DEF FileInv, CutByOwner, OneLocked, Owner
        <5>3. encryptedKeys'[t] = file
          BY <1>1, <1>3, <4>2 DEF TypeOK
        <5> QED
          BY <1>2, <2>5, <5>2, <5>3 DEF FileInv, FileHasDue
      <4> QED
        BY <4>1, <4>2
    <3>5. OwnerHasDue'
      BY <3>4 DEF OwnerHasDue
    <3> QED
      BY <3>1, <3>3, <3>5 DEF FileInv
  <2> QED
    BY <1>1, <1>2, <2>2, <2>3, <2>4, <2>5 DEF Inv
<1>4. CASE pc' = [pc EXCEPT ![s] = "unlocking"] /\ UNCHANGED encryptedKeys
  <2>1. TypeOK'
    BY <1>1, <1>2, <1>4 DEF TypeOK, Running
  <2>2. \A t \in Stores : StoreInv(t)'
    <3>1. \A t \in Stores : t # s => StoreInv(t)'
      BY <1>1, <1>2, <1>4, OtherStore DEF TypeOK
    <3>2. StoreInv(s)'
      BY <1>1, <1>2, <1>4 DEF TypeOK, StoreInv, Fresh, CacheIs
    <3> QED
      BY <3>1, <3>2
  <2> QED
    BY <1>1, <1>2, <1>4, <2>1, <2>2, FileUntouched DEF Inv
<1> QED
  BY <1>3, <1>4 DEF ReadKeys, IsJSON, KeysRead

-----------------------------------------------------------------------------
(* Closing it.                                                             *)

LEMMA CloseInv ==
    ASSUME Inv, NEW s \in Stores, ~final[s], Close(s),
           UNCHANGED <<locked, file, encryptedKeys, writing, due, cut, shared>>,
           \/ UNCHANGED final
           \/ final' = [final EXCEPT ![s] = TRUE]
    PROVE  Inv'
<1>1. TypeOK /\ (\A t \in Stores : StoreInv(t)) /\ (shared \/ FileInv)
  BY DEF Inv
<1>2. /\ pc[s] \in {"open", "closed"} /\ pc' = [pc EXCEPT ![s] = "unlocking"]
      /\ cache' = [cache EXCEPT ![s] = Cleared(s)]
  BY DEF Close
<1>3. Cleared(s) \in Caches
  BY <1>1, ClearedCache DEF TypeOK
<1>4. TypeOK'
  BY <1>1, <1>2, <1>3 DEF TypeOK, Running
<1>5. StoreInv(s)'
  <2>1. cache'[s] = [k \in DOMAIN cache[s] |-> "zero"]
    BY <1>1, <1>2 DEF TypeOK, Cleared
  <2>2. CacheIs(s, "zero")'
    BY <2>1 DEF CacheIs
  <2>3. pc'[s] = "unlocking"
    BY <1>1, <1>2 DEF TypeOK
  <2>4. encryptedKeys[s] = Nil => cache'[s] = Empty /\ ~final'[s]
    <3> SUFFICES ASSUME encryptedKeys[s] = Nil
                 PROVE  FALSE
      OBVIOUS
    <3> QED
      BY <1>1, <1>2 DEF StoreInv
  <2> QED
    BY <1>1, <1>2, <2>2, <2>3, <2>4 DEF TypeOK, StoreInv, Fresh
<1>6. \A t \in Stores : t # s => StoreInv(t)'
  BY <1>1, <1>2, OtherStore DEF TypeOK
<1> QED
  BY <1>1, <1>4, <1>5, <1>6, FileUntouched DEF Inv


(* A store that gives up the lock leaves the file as it should be, unless  *)
(* it leaves it truncated: then nothing is due any more.                   *)
LEMMA ReleaseFile ==
    ASSUME TypeOK, \A t \in Stores : StoreInv(t), FileInv, NEW s \in Stores, Release(s),
           \A t \in Stores : t # s => /\ encryptedKeys'[t] = encryptedKeys[t]
                                      /\ writing'[t] = writing[t],
           writing'[s] = Nil, file' = file \/ writing[s] # Nil
    PROVE  FileInv'
<1>1. /\ locked' = [locked EXCEPT ![s] = FALSE]
      /\ due' = IF locked[s] /\ cut THEN Nothing ELSE due
      /\ cut' = (cut /\ ~locked[s])
  BY DEF Release, L!Unlock
<1>2. ~locked'[s] /\ \A t \in Stores : t # s => locked'[t] = locked[t]
  BY <1>1 DEF TypeOK
<1>3. OneLocked'
  BY <1>2 DEF FileInv, OneLocked
<1>4. \A t \in Stores : Owner(t)' <=> t # s /\ Owner(t)
  BY <1>2 DEF Owner
<1>5. CutByOwner'
  BY <1>1, <1>4 DEF FileInv, CutByOwner, Owner
<1>6. WritingCuts'
  BY <1>1 DEF FileInv, WritingCuts, OneLocked, StoreInv
<1>7. FileHasDue'
  <2>1. CASE cut /\ locked[s]
    <3>1. \A k \in Keys : due'[k] = {}
      BY <1>1, <2>1 DEF Nothing
    <3> QED
      BY <3>1 DEF FileHasDue
  <2>2. CASE ~cut
    BY <1>1, <2>2 DEF FileInv, FileHasDue, WritingCuts
  <2> QED
    BY <1>1, <2>1, <2>2 DEF FileHasDue
<1>8. OwnerHasDue'
  <2> SUFFICES ASSUME NEW t \in Stores, Owner(t)', NEW k \in Keys, due'[k] # {}
               PROVE  \/ KeyDue(k, encryptedKeys'[t], due'[k])
                      \/ writing'[t] # Nil /\ writing'[t][1] = k
    BY DEF OwnerHasDue
  <2>1. due'[k] = due[k]
    BY <1>1 DEF Nothing
  <2> QED
    BY <1>4, <2>1 DEF FileInv, OwnerHasDue
<1> QED
  BY <1>3, <1>5, <1>6, <1>7, <1>8 DEF FileInv

LEMMA ReleaseType ==
    ASSUME TypeOK, NEW s \in Stores, Release(s)
    PROVE  /\ locked' \in [Stores -> BOOLEAN] /\ locked'[s] = FALSE
           /\ \A t \in Stores : t # s => locked'[t] = locked[t]
           /\ due' \in [Keys -> SUBSET Passwords] /\ cut' \in BOOLEAN /\ shared' = shared
<1>1. locked' = [locked EXCEPT ![s] = FALSE]
  BY DEF Release, L!Unlock
<1>2. Nothing \in [Keys -> SUBSET Passwords]
  BY DEF Nothing
<1>3. due' \in [Keys -> SUBSET Passwords]
  BY <1>2 DEF TypeOK, Release
<1>4. cut' \in BOOLEAN /\ shared' = shared
  BY DEF TypeOK, Release
<1> QED
  BY <1>1, <1>3, <1>4 DEF TypeOK

LEMMA UnlockInv ==
    ASSUME Inv, NEW s \in Stores, Unlock(s)
    PROVE  Inv'
<1>1. TypeOK /\ (\A t \in Stores : StoreInv(t)) /\ (shared \/ FileInv)
  BY DEF Inv
<1>2. /\ UNCHANGED <<file, encryptedKeys, cache, final, writing>>
      /\ pc[s] = "unlocking" /\ pc' = [pc EXCEPT ![s] = "removing"]
      /\ writing[s] = Nil /\ Release(s)
  BY DEF Unlock, keyVars
<1>3. TypeOK'
  BY <1>1, <1>2, ReleaseType DEF TypeOK, Running
<1>4. \A t \in Stores : t # s => StoreInv(t)'
  BY <1>1, <1>2, ReleaseType, OtherStore DEF TypeOK
<1>5. StoreInv(s)'
  BY <1>1, <1>2, ReleaseType DEF TypeOK, StoreInv, Fresh, CacheIs
<1>6. FileInv => FileInv'
  BY <1>1, <1>2, ReleaseFile
<1> QED
  BY <1>1, <1>2, <1>3, <1>4, <1>5, <1>6, ReleaseType DEF Inv

LEMMA ForgetStore ==
    ASSUME TypeOK, NEW s \in Stores, Forget(s)
    PROVE  /\ Fresh(s)'
           /\ \A t \in Stores : t # s => /\ encryptedKeys'[t] = encryptedKeys[t]
                                         /\ cache'[t] = cache[t] /\ final'[t] = final[t]
                                         /\ writing'[t] = writing[t]
           /\ encryptedKeys' \in [Stores -> KeyMaps \cup {Nil}]
           /\ cache' \in [Stores -> Caches]
           /\ final' \in [Stores -> BOOLEAN]
           /\ writing' \in [Stores -> (Keys \X Passwords) \cup {Nil}]
BY EmptyMaps DEF TypeOK, Forget, Fresh

LEMMA CrashInv ==
    ASSUME Inv, NEW s \in Stores, Crash(s)
    PROVE  Inv'
<1>1. TypeOK /\ (\A t \in Stores : StoreInv(t)) /\ (shared \/ FileInv)
  BY DEF Inv
<1>2. /\ pc' = [pc EXCEPT ![s] = "absent"]
      /\ Release(s) /\ Forget(s)
      /\ file' \in {file, Empty, Torn} /\ (writing[s] = Nil => file' = file)
  BY DEF Crash
<1>3. TypeOK'
  BY <1>1, <1>2, ReleaseType, ForgetStore, EmptyMaps DEF TypeOK, Running
<1>4. \A t \in Stores : t # s => StoreInv(t)'
  BY <1>1, <1>2, ReleaseType, ForgetStore, OtherStore DEF TypeOK
<1>5. StoreInv(s)'
  <2>1. Fresh(s)' /\ ~locked'[s] /\ pc'[s] = "absent"
    BY <1>1, <1>2, ReleaseType, ForgetStore DEF TypeOK
  <2> QED
    BY <2>1 DEF StoreInv, Fresh
<1>6. FileInv => FileInv'
  BY <1>1, <1>2, ReleaseFile, ForgetStore DEF Fresh
<1> QED
  BY <1>1, <1>2, <1>3, <1>4, <1>5, <1>6, ReleaseType DEF Inv

LEMMA RemoveLockFileInv ==
    ASSUME Inv, NEW s \in Stores, RemoveLockFile(s)
    PROVE  Inv'
<1>1. TypeOK /\ (\A t \in Stores : StoreInv(t)) /\ (shared \/ FileInv)
  BY DEF Inv
<1>2. UNCHANGED <<locked, file, due, cut, shared>> /\ pc[s] = "removing"
  BY DEF RemoveLockFile, L!Remove, history
<1>3. ~locked[s] /\ writing[s] = Nil
  BY <1>1, <1>2 DEF StoreInv
<1>4. CASE pc' = [pc EXCEPT ![s] = "absent"] /\ Forget(s)
  <2>1. TypeOK'
    BY <1>1, <1>2, <1>4, ForgetStore DEF TypeOK, Running
  <2>2. \A t \in Stores : t # s => StoreInv(t)'
    BY <1>1, <1>2, <1>4, ForgetStore, OtherStore DEF TypeOK
  <2>3. StoreInv(s)'
    BY <1>1, <1>2, <1>3, <1>4, ForgetStore DEF TypeOK, StoreInv, Fresh
  <2>4. ASSUME FileInv
        PROVE  FileInv'
    <3>1. /\ \A t \in Stores : Owner(t)' <=> Owner(t)
          /\ \A t \in Stores : Owner(t) => /\ encryptedKeys'[t] = encryptedKeys[t]
                                           /\ writing'[t] = writing[t]
          /\ \A t \in Stores : writing'[t] = writing[t]
      BY <1>1, <1>2, <1>3, <1>4, ForgetStore DEF Owner, Fresh
    <3> QED
      BY <1>2, <2>4, <3>1 DEF FileInv, OneLocked, CutByOwner, WritingCuts, FileHasDue, OwnerHasDue
  <2> QED
    BY <1>1, <1>2, <2>1, <2>2, <2>3, <2>4 DEF Inv
<1>5. CASE /\ ~final[s]
           /\ pc' = [pc EXCEPT ![s] = IF encryptedKeys[s] = Nil THEN "absent" ELSE "closed"]
           /\ UNCHANGED <<keyVars, final, writing>>
  <2>1. UNCHANGED <<encryptedKeys, cache, final, writing>>
    BY <1>5 DEF keyVars
  <2>2. TypeOK'
    BY <1>1, <1>2, <1>5, <2>1 DEF TypeOK, Running
  <2>3. \A t \in Stores : t # s => StoreInv(t)'
    BY <1>1, <1>2, <1>5, <2>1, OtherStore DEF TypeOK
  <2>4. StoreInv(s)'
    <3>1. CASE encryptedKeys[s] = Nil
      BY <1>1, <1>2, <1>3, <1>5, <2>1, <3>1 DEF TypeOK, StoreInv, Fresh
    <3>2. CASE encryptedKeys[s] # Nil
      BY <1>1, <1>2, <1>3, <1>5, <2>1, <3>2 DEF TypeOK, StoreInv, Fresh
    <3> QED
      BY <3>1, <3>2
  <2> QED
    BY <1>1, <1>2, <2>1, <2>2, <2>3, <2>4, FileUntouched DEF Inv
<1> QED
  BY <1>4, <1>5 DEF RemoveLockFile

-----------------------------------------------------------------------------
(* Using it.                                                               *)

LEMMA ImportKeyInv ==
    ASSUME Inv, NEW s \in Stores, NEW k \in Keys, NEW p \in Passwords, ImportKey(s, k, p)
    PROVE  Inv'
<1> DEFINE m == Assign(encryptedKeys[s], k, p)
<1>1. TypeOK /\ (\A t \in Stores : StoreInv(t)) /\ (shared \/ FileInv)
  BY DEF Inv
<1>2. /\ UNCHANGED <<locked, cache, pc, final, shared>>
      /\ pc[s] \in Running /\ encryptedKeys[s] # Nil /\ ~final[s] /\ writing[s] = Nil
      /\ encryptedKeys' = [encryptedKeys EXCEPT ![s] = m]
  BY DEF ImportKey, Call, EncryptData, lockVars
<1>3. encryptedKeys[s] \in KeyMaps
  BY <1>1, <1>2 DEF TypeOK
<1>4. m \in KeyMaps /\ m # Nil
  BY <1>3, AssignedMap, Sentinels
<1>5. /\ DOMAIN m = DOMAIN encryptedKeys[s] \cup {k} /\ m[k] = p
      /\ \A j \in DOMAIN encryptedKeys[s] \ {k} : m[j] = encryptedKeys[s][j]
  BY DEF Assign
<1> HIDE DEF m
<1>6. /\ encryptedKeys'[s] = m
      /\ \A t \in Stores : t # s => encryptedKeys'[t] = encryptedKeys[t]
      /\ encryptedKeys' \in [Stores -> KeyMaps \cup {Nil}]
  BY <1>1, <1>2, <1>4 DEF TypeOK
<1>7. \A t \in Stores : Owner(t)' <=> Owner(t)
  BY <1>2, <1>4, <1>6 DEF Owner
<1>8. KeyDue(k, m, {p}) /\ \A P : p \in P => KeyDue(k, m, P)
  BY <1>5 DEF KeyDue
<1>9. \A P : \A j \in Keys : j # k /\ KeyDue(j, encryptedKeys[s], P) => KeyDue(j, m, P)
  BY <1>5 DEF KeyDue
<1>10. CASE /\ locked[s]
            /\ writing' = [writing EXCEPT ![s] = <<k, p>>]
            /\ file' = Empty /\ cut' = TRUE /\ due' = due
  <2>1. /\ writing'[s] = <<k, p>> /\ <<k, p>> # Nil /\ writing'[s][1] = k /\ writing'[s][2] = p
        /\ \A t \in Stores : t # s => writing'[t] = writing[t]
        /\ writing' \in [Stores -> (Keys \X Passwords) \cup {Nil}]
    BY <1>1, <1>10, Sentinels DEF TypeOK
  <2>2. TypeOK'
    BY <1>1, <1>2, <1>6, <1>10, <2>1, EmptyMaps DEF TypeOK
  <2>3. \A t \in Stores : t # s => StoreInv(t)'
    BY <1>1, <1>2, <1>6, <2>1, OtherStore
  <2>4. StoreInv(s)'
    BY <1>1, <1>2, <1>4, <1>6, <1>8, <1>10, <2>1 DEF StoreInv, Running, CacheIs, Fresh
  <2>5. ASSUME FileInv
        PROVE  FileInv'
    <3>1. OneLocked'
      BY <1>2, <2>5 DEF FileInv, OneLocked
    <3>2. CutByOwner' /\ WritingCuts' /\ FileHasDue'
      BY <1>2, <1>7, <1>10 DEF CutByOwner, WritingCuts, FileHasDue, Owner
    <3>3. ASSUME NEW t \in Stores, Owner(t)', NEW j \in Keys, due'[j] # {}
          PROVE  \/ KeyDue(j, encryptedKeys'[t], due'[j])
                 \/ writing'[t] # Nil /\ writing'[t][1] = j
      <4>1. /\ Owner(t) /\ due'[j] = due[j]
            /\ \/ KeyDue(j, encryptedKeys[t], due[j])
               \/ writing[t] # Nil /\ writing[t][1] = j
        BY <1>7, <1>10, <2>5, <3>3 DEF FileInv, OwnerHasDue
      <4>2. CASE t # s
        BY <1>6, <2>1, <4>1, <4>2
      <4>3. CASE t = s
        BY <1>2, <1>6, <1>9, <2>1, <4>1, <4>3
      <4> QED
        BY <4>2, <4>3
    <3> QED
      BY <3>1, <3>2, <3>3 DEF FileInv, OwnerHasDue
  <2> QED
    BY <1>1, <1>2, <2>2, <2>3, <2>4, <2>5 DEF Inv
<1>11. CASE /\ UNCHANGED <<writing, file, cut>>
            /\ \/ due' = Tried(k, p)
               \/ ~locked[s] /\ due' = due
  <2>1. /\ due' \in [Keys -> SUBSET Passwords]
        /\ \A j \in Keys : j # k => due'[j] = due[j]
        /\ locked[s] => due'[k] = IF due[k] = {} THEN {} ELSE due[k] \cup {p}
        /\ \A j \in Keys : due[j] \subseteq due'[j] /\ (due'[j] # {} => due[j] # {})
    <3>1. due \in [Keys -> SUBSET Passwords]
      BY <1>1 DEF TypeOK
    <3>2. CASE due' = Tried(k, p)
      <4>1. due' = [due EXCEPT ![k] = IF @ = {} THEN {} ELSE @ \cup {p}]
        BY <3>2 DEF Tried
      <4>2. /\ due' \in [Keys -> SUBSET Passwords]
            /\ \A j \in Keys : j # k => due'[j] = due[j]
            /\ due'[k] = IF due[k] = {} THEN {} ELSE due[k] \cup {p}
        BY <3>1, <4>1
      <4> QED
        BY <4>2
    <3>3. CASE ~locked[s] /\ due' = due
      BY <3>1, <3>3
    <3> QED
      BY <1>11, <3>2, <3>3
  <2>2. TypeOK'
    BY <1>1, <1>2, <1>6, <1>11, <2>1 DEF TypeOK
  <2>3. \A t \in Stores : t # s => StoreInv(t)'
    BY <1>1, <1>2, <1>6, <1>11, OtherStore
  <2>4. StoreInv(s)'
    BY <1>1, <1>2, <1>4, <1>6, <1>11 DEF StoreInv, Running, CacheIs, Fresh
  <2>5. ASSUME FileInv
        PROVE  FileInv'
    <3>1. OneLocked' /\ WritingCuts' /\ CutByOwner'
      BY <1>2, <1>7, <1>11, <2>5 DEF FileInv, OneLocked, WritingCuts, CutByOwner
    <3>2. FileHasDue'
      BY <1>11, <2>1, <2>5 DEF FileInv, FileHasDue, KeyDue
    <3>3. ASSUME NEW t \in Stores, Owner(t)', NEW j \in Keys, due'[j] # {}
          PROVE  \/ KeyDue(j, encryptedKeys'[t], due'[j])
                 \/ writing'[t] # Nil /\ writing'[t][1] = j
      <4>1. /\ Owner(t) /\ due[j] # {} /\ due[j] \subseteq due'[j]
            /\ \/ KeyDue(j, encryptedKeys[t], due[j])
               \/ writing[t] # Nil /\ writing[t][1] = j
        BY <1>7, <2>1, <2>5, <3>3 DEF FileInv, OwnerHasDue
      <4>2. CASE t # s
        BY <1>6, <1>11, <4>1, <4>2 DEF KeyDue
      <4>3. CASE t = s /\ j = k
        BY <1>6, <1>8, <2>1, <4>1, <4>3 DEF Owner
      <4>4. CASE t = s /\ j # k
        BY <1>2, <1>6, <1>9, <2>1, <4>1, <4>4
      <4> QED
        BY <4>2, <4>3, <4>4
    <3> QED
      BY <3>1, <3>2, <3>3 DEF FileInv, OwnerHasDue
  <2> QED
    BY <1>1, <1>2, <2>2, <2>3, <2>4, <2>5 DEF Inv
<1> QED
  BY <1>10, <1>11 DEF ImportKey


LEMMA WriteKeysInv ==
    ASSUME Inv, NEW s \in Stores, WriteKeys(s)
    PROVE  Inv'
<1> DEFINE k == writing[s][1]
           p == writing[s][2]
<1>1. TypeOK /\ (\A t \in Stores : StoreInv(t)) /\ (shared \/ FileInv)
  BY DEF Inv
<1>2. /\ UNCHANGED <<locked, encryptedKeys, cache, pc, final, shared>>
      /\ writing[s] # Nil /\ writing' = [writing EXCEPT ![s] = Nil]
  BY DEF WriteKeys, keyVars, lockVars
<1>3. k \in Keys /\ p \in Passwords
  BY <1>1, <1>2 DEF TypeOK
<1>4. locked[s] /\ KeyDue(k, encryptedKeys[s], {p}) /\ encryptedKeys[s] # Nil
  BY <1>1, <1>2 DEF StoreInv, Fresh
<1>5. encryptedKeys[s] \in KeyMaps /\ encryptedKeys[s] # Torn
  BY <1>1, <1>4, Sentinels DEF TypeOK
<1>6. /\ writing'[s] = Nil /\ \A t \in Stores : t # s => writing'[t] = writing[t]
      /\ writing' \in [Stores -> (Keys \X Passwords) \cup {Nil}]
  BY <1>1, <1>2 DEF TypeOK
<1> HIDE DEF k, p
<1>7. \A t \in Stores : StoreInv(t)'
  <2>1. \A t \in Stores : t # s => StoreInv(t)'
    BY <1>1, <1>2, <1>6, OtherStore
  <2>2. StoreInv(s)'
    BY <1>1, <1>2, <1>4, <1>6 DEF StoreInv, Fresh, CacheIs
  <2> QED
    BY <2>1, <2>2
<1>8. \A P : p \in P => KeyDue(k, encryptedKeys[s], P)
  BY <1>4 DEF KeyDue
<1>9. FileInv => /\ \A t \in Stores : Owner(t)' <=> t = s
                 /\ \A j \in Keys : j # k /\ due[j] # {} => KeyDue(j, encryptedKeys[s], due[j])
  BY <1>2, <1>4 DEF FileInv, OneLocked, OwnerHasDue, Owner, k
<1>10. ASSUME FileInv, due' \in [Keys -> SUBSET Passwords],
              \A j \in Keys : j # k => due'[j] = due[j],
              due'[k] # {} => p \in due'[k],
              \/ cut' = cut
              \/ ~cut' /\ file' = encryptedKeys[s]
       PROVE  FileInv'
  <2>1. \A j \in Keys : due'[j] # {} => KeyDue(j, encryptedKeys[s], due'[j])
    BY <1>8, <1>9, <1>10
  <2>2. OneLocked' /\ OwnerHasDue'
    BY <1>2, <1>9, <1>10, <2>1 DEF FileInv, OneLocked, OwnerHasDue
  <2>3. cut /\ CutByOwner'
    BY <1>2, <1>9, <1>10 DEF FileInv, WritingCuts, CutByOwner
  <2>4. WritingCuts'
    BY <1>1, <1>4, <1>6, <1>10 DEF FileInv, WritingCuts, OneLocked, StoreInv
  <2>5. FileHasDue'
    BY <1>5, <1>10, <2>1, <2>3 DEF FileHasDue
  <2> QED
    BY <2>2, <2>3, <2>4, <2>5 DEF FileInv
<1>11. CASE /\ file' = encryptedKeys[s] /\ cut' = FALSE
            /\ due' = [due EXCEPT ![k] = {p}]
  <2>1. /\ due' \in [Keys -> SUBSET Passwords] /\ due'[k] = {p}
        /\ \A j \in Keys : j # k => due'[j] = due[j]
    BY <1>1, <1>3, <1>11 DEF TypeOK
  <2>2. TypeOK'
    BY <1>1, <1>2, <1>5, <1>6, <1>11, <2>1 DEF TypeOK
  <2> QED
    BY <1>1, <1>2, <1>7, <1>10, <1>11, <2>1, <2>2 DEF Inv
<1>12. CASE file' \in {Empty, Torn} /\ due' = Tried(k, p) /\ cut' = cut
  <2>1. /\ due' \in [Keys -> SUBSET Passwords] /\ (due'[k] # {} => p \in due'[k])
        /\ \A j \in Keys : j # k => due'[j] = due[j]
    BY <1>1, <1>3, <1>12 DEF TypeOK, Tried
  <2>2. TypeOK'
    BY <1>1, <1>2, <1>6, <1>12, <2>1, EmptyMaps DEF TypeOK
  <2>3. FileInv => FileInv'
    BY <1>10, <1>12, <2>1
  <2> QED
    BY <1>1, <1>2, <1>7, <2>2, <2>3 DEF Inv
<1> QED
  BY <1>11, <1>12 DEF WriteKeys, Written, k, p

LEMMA UnlockKeyInv ==
    ASSUME Inv, NEW s \in Stores, NEW k \in Keys, NEW p \in Passwords, UnlockKey(s, k, p)
    PROVE  Inv'
<1> DEFINE c == Assign(cache[s], k, "key")
<1>1. TypeOK /\ (\A t \in Stores : StoreInv(t)) /\ (shared \/ FileInv)
  BY DEF Inv
<1>2. /\ UNCHANGED <<locked, file, encryptedKeys, pc, final, writing, due, cut, shared>>
      /\ pc[s] \in Running /\ encryptedKeys[s] # Nil /\ ~final[s]
      /\ cache' = [cache EXCEPT ![s] = c]
  BY DEF UnlockKey, Call, Decrypts, lockVars, history
<1>3. c \in Caches
  BY <1>1, AssignedCache DEF TypeOK
<1>4. CacheIs(s, "key") => \A j \in DOMAIN c : c[j] = "key"
  BY DEF CacheIs, Assign
<1> HIDE DEF c
<1>5. TypeOK'
  BY <1>1, <1>2, <1>3 DEF TypeOK
<1>6. \A t \in Stores : t # s => StoreInv(t)'
  BY <1>1, <1>2, OtherStore DEF TypeOK
<1>7. StoreInv(s)'
  <2>1. cache'[s] = c
    BY <1>1, <1>2 DEF TypeOK
  <2>2. CacheIs(s, "key") => CacheIs(s, "key")'
    BY <1>4, <2>1 DEF CacheIs
  <2> QED
    BY <1>1, <1>2, <2>2 DEF StoreInv, Running, Fresh
<1> QED
  BY <1>1, <1>2, <1>5, <1>6, <1>7, FileUntouched DEF Inv

LEMMA SignElemInv ==
    ASSUME Inv, NEW s \in Stores, NEW k \in Keys, SignElem(s, k)
    PROVE  Inv'
<1>1. TypeOK /\ (\A t \in Stores : StoreInv(t)) /\ (shared \/ FileInv)
  BY DEF Inv
<1>2. /\ UNCHANGED <<locked, file, encryptedKeys, cache, pc, final, writing, due, cut, shared>>
      /\ pc[s] \in Running /\ encryptedKeys[s] # Nil /\ k \in DOMAIN cache[s]
  BY DEF SignElem, Call, lockVars, keyVars, history
<1>3. TypeOK'
  BY <1>1, <1>2 DEF TypeOK
<1>4. \A t \in Stores : StoreInv(t)'
  BY <1>1, <1>2, OtherStore
<1> QED
  BY <1>1, <1>2, <1>3, <1>4, FileUntouched DEF Inv

-----------------------------------------------------------------------------
LEMMA NextInv == Inv /\ [Next]_vars => Inv'
<1> SUFFICES ASSUME Inv, [Next]_vars
             PROVE  Inv'
  OBVIOUS
<1>1. CASE UNCHANGED vars
  <2>1. TypeOK'
    BY <1>1 DEF vars, Inv, TypeOK
  <2> QED
    BY <1>1, <2>1, OtherStore, FileUntouched DEF vars, Inv
<1>2. ASSUME NEW s \in Stores, UserClose(s) \/ Finalize(s)
      PROVE  Inv'
  BY <1>2, CloseInv DEF UserClose, Finalize, lockVars, history
<1> QED
  BY <1>1, <1>2, OpenLockFileInv, FlockInv, ReadKeysInv, UnlockInv, RemoveLockFileInv,
     ImportKeyInv, WriteKeysInv, UnlockKeyInv, SignElemInv, CrashInv DEF Next

(* Locks, caches, maps and the file relate as Inv says.                    *)
THEOREM Invariance == Spec => []Inv
<1> QED
  BY InitInv, NextInv, PTL DEF Spec

(* What ImportKey acknowledged is in the file or with the store that is    *)
(* writing it, through crashes, failed writes and reopened stores.         *)
THEOREM KeysAreKept == Spec => []KeysKept
<1>1. Inv => KeysKept
  <2> SUFFICES ASSUME TypeOK, \A s \in Stores : StoreInv(s), FileInv, NEW k \in Keys, due[k] # {}
               PROVE  \/ ~cut /\ file # Torn /\ KeyDue(k, file, due[k])
                      \/ cut /\ \E s \in Stores :
                            /\ locked[s]
                            /\ encryptedKeys[s] # Nil
                            /\ \/ KeyDue(k, encryptedKeys[s], due[k])
                               \/ writing[s] # Nil /\ KeyDue(k, encryptedKeys[s], {writing[s][2]})
    BY DEF Inv, KeysKept
  <2>1. CASE ~cut
    BY <2>1 DEF FileInv, FileHasDue
  <2>2. CASE cut
    <3>1. PICK s \in Stores : Owner(s)
      BY <2>2 DEF FileInv, CutByOwner
    <3>2. \/ KeyDue(k, encryptedKeys[s], due[k])
          \/ writing[s] # Nil /\ writing[s][1] = k
      BY <3>1 DEF FileInv, OwnerHasDue
    <3>3. writing[s] # Nil => KeyDue(writing[s][1], encryptedKeys[s], {writing[s][2]})
      BY DEF StoreInv
    <3> QED
      BY <2>2, <3>1, <3>2, <3>3 DEF Owner
  <2> QED
    BY <2>1, <2>2
<1> QED
  BY Invariance, <1>1, PTL

(* Until an Unlock removes path.lock while another store has it open, every*)
(* store that has a lock file open has the one with the name.              *)
NameIsLocked ==
    \A s \in Stores :
        /\ fh[s] \in {L!NoFile, lockFile}
        /\ locked[s] \/ pc[s] = "trying" => fh[s] # L!NoFile

LockInv ==
    /\ fh = [s \in Stores |-> fh[s]]
    /\ orphaned \in BOOLEAN
    /\ shared => orphaned
    /\ orphaned \/ NameIsLocked

(* There is a number for a new file when no store has one open.            *)
LEMMA NewFileExists ==
    ASSUME lockFile = L!NoFile, \A s \in Stores : fh[s] = L!NoFile
    PROVE  L!NewFile # L!NoFile
<1>1. Cardinality(Stores) \in Nat
  BY KeyStoreAssumption, FS_CardinalityType DEF KeyStoreAssumption
<1>0. L!Cardinality(Stores) = Cardinality(Stores)
  BY DEF L!Cardinality, Cardinality
<1> DEFINE F == L!Files \ ({L!NoFile, lockFile} \cup {fh[s] : s \in Stores})
<1>2. F = 1 .. Cardinality(Stores) + 1
  BY <1>0, <1>1 DEF L!Files, L!NoFile
<1>3. 1 \in F /\ \A x \in F : 1 <= x
  BY <1>1, <1>2
<1>4. L!NewFile = L!Min(F)
  BY DEF L!NewFile
<1> HIDE DEF F
<1>5. L!Min(F) \in F
  BY <1>3 DEF L!Min
<1> QED
  BY <1>2, <1>4, <1>5, <1>1 DEF L!NoFile

LEMMA OpenLocks ==
    ASSUME LockInv, NEW s \in Stores, OpenLockFile(s), Inv
    PROVE  LockInv'
<1>1. /\ UNCHANGED <<locked, shared, orphaned>>
      /\ pc' = [pc EXCEPT ![s] = "trying"]
      /\ lockFile' = IF fh[s] = L!NoFile /\ lockFile = L!NoFile THEN L!NewFile ELSE lockFile
      /\ fh' = IF fh[s] = L!NoFile THEN [fh EXCEPT ![s] = lockFile'] ELSE fh
      /\ pc \in [Stores -> Running \cup {"absent", "trying", "reading"}]
  BY DEF OpenLockFile, L!Open, history, Inv, TypeOK
<1>2. fh' = [t \in Stores |-> fh'[t]] /\ \A t \in Stores : t # s => fh'[t] = fh[t] /\ pc'[t] = pc[t]
  BY <1>1 DEF LockInv
<1>3. ASSUME ~orphaned
      PROVE  NameIsLocked'
  <2>1. NameIsLocked
    BY <1>3 DEF LockInv
  <2>2. CASE fh[s] = L!NoFile /\ lockFile = L!NoFile
    <3>1. \A t \in Stores : fh[t] = L!NoFile /\ ~locked[t] /\ pc[t] # "trying"
      BY <2>1, <2>2 DEF NameIsLocked
    <3>2. lockFile' # L!NoFile
      BY <1>1, <2>2, <3>1, NewFileExists
    <3>3. fh'[s] = lockFile'
      BY <1>1, <2>2 DEF LockInv
    <3> QED
      BY <1>1, <1>2, <3>1, <3>2, <3>3 DEF NameIsLocked
  <2>3. CASE ~(fh[s] = L!NoFile /\ lockFile = L!NoFile)
    <3>1. lockFile' = lockFile /\ fh'[s] = lockFile /\ lockFile # L!NoFile
      BY <1>1, <2>1, <2>3 DEF LockInv, NameIsLocked
    <3> QED
      BY <1>1, <1>2, <2>1, <3>1 DEF NameIsLocked
  <2> QED
    BY <2>2, <2>3
<1> QED
  BY <1>1, <1>2, <1>3 DEF LockInv

LEMMA FlockLocks ==
    ASSUME LockInv, NEW s \in Stores, Flock(s), Inv
    PROVE  LockInv'
<1>1. /\ pc[s] = "trying" /\ UNCHANGED <<lockFile, orphaned>>
      /\ pc \in [Stores -> Running \cup {"absent", "trying", "reading"}]
      /\ locked \in [Stores -> BOOLEAN]
  BY DEF Flock, L!Lock, L!Refused, Inv, TypeOK
<1>2. CASE /\ L!Lock(s)
           /\ pc' = [pc EXCEPT ![s] = "reading"]
           /\ shared' = (shared \/ L!OtherLocked(s))
  <2>1. L!Free(s) /\ locked' = [locked EXCEPT ![s] = TRUE] /\ fh' = fh
    BY <1>2 DEF L!Lock
  <2>2. L!OtherLocked(s) => orphaned
    BY <1>1, <2>1 DEF L!OtherLocked, L!Free, LockInv, NameIsLocked
  <2>3. NameIsLocked => NameIsLocked'
    BY <1>1, <1>2, <2>1 DEF NameIsLocked
  <2> QED
    BY <1>1, <1>2, <2>1, <2>2, <2>3 DEF LockInv
<1>3. CASE /\ L!Refused(s)
           /\ pc' = [pc EXCEPT ![s] = "absent"]
           /\ UNCHANGED shared
  <2>1. locked' = locked /\ fh' \in {fh, [fh EXCEPT ![s] = L!NoFile]}
    BY <1>3 DEF L!Refused
  <2>2. fh' = [t \in Stores |-> fh'[t]] /\ \A t \in Stores : t # s => fh'[t] = fh[t]
    BY <2>1 DEF LockInv
  <2>3. fh'[s] \in {fh[s], L!NoFile}
    BY <2>1 DEF LockInv
  <2>4. ~locked[s]
    BY <1>1 DEF Inv, StoreInv
  <2>5. NameIsLocked => NameIsLocked'
    BY <1>1, <1>3, <2>1, <2>2, <2>3, <2>4 DEF NameIsLocked
  <2> QED
    BY <1>1, <1>3, <2>2, <2>5 DEF LockInv
<1> QED
  BY <1>2, <1>3 DEF Flock

LEMMA ReleaseLocks ==
    ASSUME LockInv, NEW s \in Stores, Release(s), Inv, NEW c \in {"removing", "absent"},
           pc' = [pc EXCEPT ![s] = c]
    PROVE  LockInv'
<1>1. /\ fh' = [fh EXCEPT ![s] = L!NoFile]
      /\ locked' = [locked EXCEPT ![s] = FALSE]
      /\ UNCHANGED <<lockFile, shared, orphaned>>
      /\ pc \in [Stores -> Running \cup {"absent", "trying", "reading"}]
      /\ locked \in [Stores -> BOOLEAN]
  BY DEF Release, L!Unlock, Inv, TypeOK
<1>2. fh' = [t \in Stores |-> fh'[t]] /\ fh'[s] = L!NoFile
      /\ \A t \in Stores : t # s => fh'[t] = fh[t]
  BY <1>1 DEF LockInv
<1>3. NameIsLocked => NameIsLocked'
  BY <1>1, <1>2 DEF NameIsLocked
<1> QED
  BY <1>1, <1>2, <1>3 DEF LockInv

LEMMA RemoveLocks ==
    ASSUME LockInv, NEW s \in Stores, RemoveLockFile(s), Inv
    PROVE  LockInv'
<1>1. /\ lockFile' = L!NoFile /\ UNCHANGED <<fh, locked, shared>>
      /\ orphaned' = (orphaned \/ \E t \in Stores : fh[t] = lockFile /\ lockFile # L!NoFile)
      /\ \E c \in {"absent", "closed"} : pc' = [pc EXCEPT ![s] = c]
      /\ pc \in [Stores -> Running \cup {"absent", "trying", "reading"}]
  BY DEF RemoveLockFile, L!Remove, Inv, TypeOK
<1>2. ~orphaned' /\ NameIsLocked => NameIsLocked'
  BY <1>1 DEF NameIsLocked
<1> QED
  BY <1>1, <1>2 DEF LockInv

(* The other steps have nothing to do with path.lock.                      *)
LEMMA OthersLock ==
    ASSUME LockInv, UNCHANGED <<lockVars, shared, orphaned>>,
           \A s \in Stores : pc'[s] = "trying" => pc[s] = "trying"
    PROVE  LockInv'
BY DEF LockInv, NameIsLocked, lockVars

(* Two stores have the storage at the same time only after an Unlock has   *)
(* removed path.lock while another store had it open, for every number of  *)
(* stores, crashes and refused attempts.                                   *)
THEOREM LockExcludes == Spec => []SharedOnlyIfOrphaned
<1>1. Init => LockInv
  BY DEF Init, L!Init, LockInv, NameIsLocked
<1>2. LockInv /\ Inv /\ [Next]_vars => LockInv'
  <2> SUFFICES ASSUME LockInv, Inv, [Next]_vars
               PROVE  LockInv'
    OBVIOUS
  <2>0. pc \in [Stores -> Running \cup {"absent", "trying", "reading"}]
    BY DEF Inv, TypeOK
  <2>1. CASE UNCHANGED vars
    BY <2>1, OthersLock DEF vars, lockVars
  <2>2. ASSUME NEW s \in Stores, ReadKeys(s)
        PROVE  LockInv'
    <3>1. UNCHANGED <<lockVars, shared, orphaned>>
      BY <2>2 DEF ReadKeys, history
    <3>2. \E c \in {"open", "unlocking"} : pc' = [pc EXCEPT ![s] = c]
      BY <2>2 DEF ReadKeys
    <3> QED
      BY <2>0, <3>1, <3>2, OthersLock
  <2>3. ASSUME NEW s \in Stores, UserClose(s) \/ Finalize(s)
        PROVE  LockInv'
    <3>1. UNCHANGED <<lockVars, shared, orphaned>> /\ pc' = [pc EXCEPT ![s] = "unlocking"]
      BY <2>3 DEF UserClose, Finalize, Close, history
    <3> QED
      BY <2>0, <3>1, OthersLock
  <2>4. ASSUME NEW s \in Stores,
               \/ \E k \in Keys, p \in Passwords : ImportKey(s, k, p) \/ UnlockKey(s, k, p)
               \/ WriteKeys(s)
               \/ \E k \in Keys : SignElem(s, k)
        PROVE  LockInv'
    <3>1. UNCHANGED <<lockVars, shared, orphaned, pc>>
      BY <2>4 DEF ImportKey, WriteKeys, UnlockKey, SignElem, history
    <3> QED
      BY <3>1, OthersLock
  <2> QED
    BY <2>1, <2>2, <2>3, <2>4, OpenLocks, FlockLocks, ReleaseLocks, RemoveLocks
       DEF Next, Unlock, Crash
<1>3. LockInv => SharedOnlyIfOrphaned
  BY DEF LockInv, SharedOnlyIfOrphaned
<1> QED
  BY <1>1, <1>2, <1>3, Invariance, PTL DEF Spec

(* The finalizer leaves neither a key in memory nor a lock.                *)
THEOREM FinalizerCleans == Spec => []FinalizedIsClean
<1>1. Inv => FinalizedIsClean
  BY DEF Inv, StoreInv, CacheIs, FinalizedIsClean
<1> QED
  BY Invariance, <1>1, PTL

=============================================================================
