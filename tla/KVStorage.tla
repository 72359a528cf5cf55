----------------------------- MODULE KVStorage -----------------------------
(***************************************************************************)
(* db: the key-value storage under the issuer, as a memory or a LevelDB    *)
(* storage, with views under prefixes, transactions that collect puts in a *)
(* cache until they commit, and the StorageList kept in it.                *)
(*                                                                         *)
(* The users are those of the issuer.  Its own transactions, under its     *)
(* lock, keep the list of states and a register in the unprefixed view;    *)
(* the trees have transactions of their own, through views with a prefix,  *)
(* that begin and end while one of the issuer's is open.                   *)
(***************************************************************************)
EXTENDS Integers, SequencesExt

CONSTANTS
    TreePrefixes,  \* the prefixes of the trees' views
    TreeKeys,      \* the keys, without prefix, the trees use
    TreeValues,    \* and what they put there
    ListKeys,      \* identity states, the keys of the list
    NotFound,      \* ErrNotFound
    TreeTxs,       \* transactions of the trees
    Own,           \* the issuer's transaction
    MaxLen,        \* bound on the length of the list
    MaxFaults      \* bound on failed commits and crashes

Root == <<>>       \* the prefix of the issuer's view
Txs == TreeTxs \cup {Own}

(* Keys of StorageValue and StorageList, and of one register that is       *)
(* stored in the same transaction, as the pending state is.                *)
LenKey == <<"len">>
ListKey(k) == <<"list", k>>
ByIdxKey(i) == <<"byidx", i>>
RegisterKey == <<"register">>

OwnKeys == {LenKey, RegisterKey} \cup {ListKey(k) : k \in ListKeys}
           \cup {ByIdxKey(i) : i \in 0 .. MaxLen}

(* No view has keys under the prefix of another: "treeclaims:",            *)
(* "treeroots:" and "treerevocation:" part before they end, and none of    *)
(* the issuer's own keys begins with one of them.                          *)
ASSUME KVStorageAssumption ==
    /\ \A s \in TreePrefixes \cup TreeKeys : Len(s) \in Nat /\ s = [i \in 1 .. Len(s) |-> s[i]]
    /\ \A p, q \in TreePrefixes : p # q => ~IsPrefix(p, q)
    /\ \A p \in TreePrefixes, k \in OwnKeys : ~IsPrefix(p, k)
    /\ Own \notin TreeTxs
    /\ NotFound \notin ListKeys /\ NotFound \notin Nat
    /\ MaxLen \in Nat
    /\ MaxFaults \in Nat

VARIABLES
    backend,   \* "memory" or "leveldb"
    kv,        \* what is stored, by full key
    tx,        \* the transactions: the prefix of their view, their cache, and
               \* what was put, by view and key without prefix
    shadow,    \* what was committed, by view and key without prefix
    faults

vars == <<backend, kv, tx, shadow, faults>>

-----------------------------------------------------------------------------
(* Maps: one without keys, one with the keys K and the value v, and two    *)
(* where the entries of m go over those of n.                              *)
Empty == [x \in {} |-> NotFound]
Const(K, v) == [x \in K |-> v]
Over(m, n) == [x \in DOMAIN m \cup DOMAIN n |-> IF x \in DOMAIN m THEN m[x] ELSE n[x]]

concat_NoPrefix(p, k) == k
concat(p, k) == p \o k

(* No transaction, or one after Commit or Close.                           *)
Nil == [open |-> FALSE, prefix |-> Root, cache |-> Empty, made |-> Empty]

(* Storage.Get, and Tx.Get: what the transaction has put comes first.      *)
Get(p, k) == IF concat(p, k) \in DOMAIN kv THEN kv[concat(p, k)] ELSE NotFound

TxGet_Stored(t, k) == Get(tx[t].prefix, k)
TxGet(t, k) == IF concat(tx[t].prefix, k) \in DOMAIN tx[t].cache
               THEN tx[t].cache[concat(tx[t].prefix, k)]
               ELSE Get(tx[t].prefix, k)

(* Iterate: the keys, without prefix, of what is stored under the prefix.  *)
HasPrefix(full, p) == Len(full) >= Len(p) /\ SubSeq(full, 1, Len(p)) = p
Iterate(p) == {SubSeq(full, Len(p) + 1, Len(full)) : full \in {f \in DOMAIN kv : HasPrefix(f, p)}}

(* The entries of a map of keys and values as Put stores them, and as they *)
(* are seen through the view.                                              *)
Full(p, m) == [f \in {concat(p, k) : k \in DOMAIN m} |->
                 m[CHOOSE k \in DOMAIN m : concat(p, k) = f]]
Seen(p, m) == [x \in {p} \X DOMAIN m |-> m[x[2]]]

Put(t, m) ==
    tx' = [tx EXCEPT ![t].cache = Over(Full(tx[t].prefix, m), @),
                     ![t].made = Over(Seen(tx[t].prefix, m), @)]

-----------------------------------------------------------------------------
Init ==
    /\ backend \in {"memory", "leveldb"}
    /\ kv = Empty
    /\ tx = [t \in Txs |-> Nil]
    /\ shadow = Empty
    /\ faults = 0

Fault == faults < MaxFaults /\ faults' = faults + 1

NewTx(t, p) ==
    /\ ~tx[t].open
    /\ tx' = [tx EXCEPT ![t] = [Nil EXCEPT !.open = TRUE, !.prefix = p]]
    /\ UNCHANGED <<backend, kv, shadow, faults>>

(* StorageList.Init: the length is 0 again, whatever the list holds.       *)
ListInit == Put(Own, Const({LenKey}, 0))

(* Create makes an identity, and with it the list, in a storage where there*)
(* is none; it does not look, that is for its caller to see to.            *)
Create ==
    /\ tx[Own].open
    /\ TxGet(Own, LenKey) = NotFound
    /\ ListInit
    /\ UNCHANGED <<backend, kv, shadow, faults>>

(* StorageList.Append, and a put of the register that goes with it.        *)
(* The value under a state's key is always the same: its three roots.      *)
AppendIdx_Last(n) == IF n = 0 THEN 0 ELSE n - 1
AppendIdx(n) == n

ListAppend(k) ==
    LET n == TxGet(Own, LenKey) IN
    /\ tx[Own].open
    /\ n # NotFound
    /\ n < MaxLen
    /\ Put(Own, Over(Const({LenKey}, n + 1),
                     Const({ListKey(k), ByIdxKey(AppendIdx(n)), RegisterKey}, k)))
    /\ UNCHANGED <<backend, kv, shadow, faults>>

TreePut(t, k, v) ==
    /\ tx[t].open
    /\ Put(t, Const({k}, v))
    /\ UNCHANGED <<backend, kv, shadow, faults>>

(* Add: the puts of another transaction, of whatever view.                 *)
Add(t, u) ==
    /\ t # u
    /\ tx[t].open /\ tx[u].open
    /\ tx' = [tx EXCEPT ![t].cache = Over(tx[u].cache, @),
                        ![t].made = Over(tx[u].made, @)]
    /\ UNCHANGED <<backend, kv, shadow, faults>>

(* Commit: a loop over the cache in memory, one batch in LevelDB, which    *)
(* may fail; either way the transaction is over.                           *)
Committed(t) == Over(tx[t].cache, kv)

Commit(t) ==
    /\ tx[t].open
    /\ tx' = [tx EXCEPT ![t] = Nil]
    /\ \/ /\ kv' = Committed(t)
          /\ shadow' = Over(tx[t].made, shadow)
          /\ UNCHANGED faults
       \/ /\ backend = "leveldb"
          /\ Fault
          /\ UNCHANGED <<kv, shadow>>
    /\ UNCHANGED backend

CloseTx(t) ==
    /\ tx[t].open
    /\ tx' = [tx EXCEPT ![t] = Nil]
    /\ UNCHANGED <<backend, kv, shadow, faults>>

(* The process ends, and the memory storage with it.                       *)
Crash ==
    /\ Fault
    /\ tx' = [t \in Txs |-> Nil]
    /\ \/ backend = "leveldb" /\ UNCHANGED <<kv, shadow>>
       \/ backend = "memory" /\ kv' = Empty /\ shadow' = Empty
    /\ UNCHANGED backend

Next ==
    \/ NewTx(Own, Root)
    \/ Create
    \/ \E k \in ListKeys : ListAppend(k)
    \/ \E t \in TreeTxs, p \in TreePrefixes : NewTx(t, p)
    \/ \E t \in TreeTxs, k \in TreeKeys, v \in TreeValues : TreePut(t, k, v)
    \/ \E t, u \in TreeTxs : Add(t, u)
    \/ \E t \in Txs : Commit(t)
    \/ \E t \in Txs : CloseTx(t)
    \/ Crash

Spec == Init /\ [][Next]_vars

-----------------------------------------------------------------------------
(* Length, GetByIdx and Get, for whoever reads the list now.               *)
Length == IF Get(Root, LenKey) = NotFound THEN 0 ELSE Get(Root, LenKey)
StoredList == [i \in 1 .. Length |-> Get(Root, ByIdxKey(i - 1))]

(* Whatever crashes or fails to commit, the list is whole: each index below*)
(* its length leads to a key and the key to its value, every key has an    *)
(* index, nothing is beyond the length, and the register is that of the    *)
(* last entry (what PublishState relies on after a restart).               *)
ListIsWhole ==
    /\ \A i \in 1 .. Length :
          StoredList[i] # NotFound /\ Get(Root, ListKey(StoredList[i])) = StoredList[i]
    /\ \A k \in ListKeys :
          Get(Root, ListKey(k)) # NotFound => \E i \in 1 .. Length : StoredList[i] = k
    /\ \A i \in Length .. MaxLen : Get(Root, ByIdxKey(i)) = NotFound
    /\ Length > 0 => Get(Root, RegisterKey) = StoredList[Length]

(* The list loses and changes nothing, also when several entries are added *)
(* in one transaction, except with the memory it is in.                    *)
ListOnlyGrows == [][IsPrefix(StoredList, StoredList') \/ (backend = "memory" /\ Crash)]_vars

(* Each view is a storage of its own: Get finds through it what was        *)
(* committed through it, and Iterate through the view of a tree that and   *)
(* nothing from the other views, although transactions of all of them are  *)
(* open and added to each other.  (The view of the issuer is the whole     *)
(* storage: its Iterate meets the trees' keys too, and no caller does it.) *)
ViewsAreSeparate ==
    /\ \A x \in DOMAIN shadow : Get(x[1], x[2]) = shadow[x]
    /\ \A p \in TreePrefixes : Iterate(p) = {k \in TreeKeys : <<p, k>> \in DOMAIN shadow}

=============================================================================
