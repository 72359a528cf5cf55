--------------------------- MODULE OffChainCache ---------------------------
(***************************************************************************)
(* IdenPubOffChainWriteHttp of components/idenpuboffchain/writerhttp: the  *)
(* public data of the last CacheLen published states of an issuer, in a    *)
(* ring of storage slots.                                                  *)
(*                                                                         *)
(* The lock makes Publish and GetPublicData atomic, and the index and the  *)
(* six values of a slot are written in one storage transaction.  An index  *)
(* is a Go byte.  The data of a slot are the dumps of the two trees of a   *)
(* state, so a slot is modelled by the state it was published for.         *)
(***************************************************************************)
EXTENDS Integers, Sequences, FiniteSets

CONSTANTS
    IdenStates,   \* identity states
    CacheLen,     \* cfg.CacheLen
    Empty,        \* a slot that was never written (db.ErrNotFound)
    NotFound      \* ErrIdenStateNotFound

ASSUME CacheAssumption ==
    /\ CacheLen \in 1 .. 255
    /\ Empty \notin IdenStates
    /\ NotFound \notin IdenStates
    /\ Empty # NotFound

VARIABLES
    created,    \* New was called
    slots,      \* what is stored under keyIdx(_, i)
    cacheIdx,   \* the stored index: the slot to write next
    recent      \* the states of the last CacheLen publications, oldest first

vars == <<created, slots, cacheIdx, recent>>

Idxs == 0 .. CacheLen - 1
Byte(n) == n % 256

-----------------------------------------------------------------------------
(* nextCacheIdx: the index to store for the next Publish.                  *)
NextIdx_NoWrap(i) == IF Byte(i + 1) = CacheLen THEN i ELSE Byte(i + 1)
NextIdx(i) == Byte(i + 1) % CacheLen

(* prevCacheIdx: the slot of the last Publish.                             *)
PrevIdx_Current(i) == i
PrevIdx(i) == Byte(i - 1) % CacheLen

(* GetPublicData(nil)                                                      *)
GetLast == slots[PrevIdx(cacheIdx)]

(* GetPublicData(q): the slots are searched from 0, and an empty one ends  *)
(* the search with an error of the storage.                                *)
Stop(q) == {i \in Idxs : slots[i] \in {q, Empty}}
GetPublicData(q) ==
    IF Stop(q) = {} THEN NotFound
    ELSE slots[CHOOSE i \in Stop(q) : \A j \in Stop(q) : i <= j]

-----------------------------------------------------------------------------
Init ==
    /\ created = FALSE
    /\ slots = [i \in Idxs |-> Empty]
    /\ cacheIdx = 0
    /\ recent = <<>>

(* NewIdenPubOffChainWriteHttp on an empty storage.  Load changes nothing. *)
New ==
    /\ ~created
    /\ created' = TRUE
    /\ cacheIdx' = 0
    /\ UNCHANGED <<slots, recent>>

(* Publish.  A state may be published again, by a PublishState that is     *)
(* tried again.                                                            *)
Publish(s) ==
    /\ created
    /\ slots' = [slots EXCEPT ![cacheIdx] = s]
    /\ cacheIdx' = NextIdx(cacheIdx)
    /\ recent' = Append(IF Len(recent) = CacheLen THEN Tail(recent) ELSE recent, s)
    /\ UNCHANGED created

Next == New \/ (\E s \in IdenStates : Publish(s))

Spec == Init /\ [][Next]_vars

-----------------------------------------------------------------------------
(* GetPublicData without a state serves the last publication, but for the *)
(* moment when the index has just come around to 0: prevCacheIdx then      *)
(* computes 255 % CacheLen, which is the last slot only if the length      *)
(* divides 256.  For another length an older publication is served until   *)
(* the next one, against the comment of GetPublicData: "If the             *)
(* queryIdenState is nil, the last identity off chain public data is       *)
(* returned."  Lag counts how many publications it is behind.              *)
Lag == IF cacheIdx = 0 THEN (CacheLen - (256 % CacheLen)) % CacheLen ELSE 0
LastIsServed == recent # <<>> => GetLast = recent[Len(recent) - Lag]

(* GetPublicData of a state returns its data if the state is among the    *)
(* last CacheLen publications, also before the cache is full and after the *)
(* index has wrapped around, and otherwise never that of another state.    *)
RecentIsServed ==
    \A s \in IdenStates :
        GetPublicData(s) = IF \E i \in DOMAIN recent : recent[i] = s THEN s
                           ELSE IF Len(recent) < CacheLen THEN Empty ELSE NotFound

=============================================================================
