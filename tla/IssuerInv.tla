------------------------------ MODULE IssuerInv ------------------------------
(***************************************************************************)
(* The inductive invariant behind the safety theorems of Issuer: what is   *)
(* true before and after every step, of every behaviour, whatever crashes  *)
(* and whichever calls fail.                                               *)
(***************************************************************************)
EXTENDS Issuer

(* The steps of PublishState that run with the new state at hand.          *)
Publishing == {"append", "send", "record", "offchain"}

(* Where the lock can be, and what Create has left in the storage.         *)
ControlInv ==
    /\ created = "no" => /\ pc = "idle" /\ ~up
                         /\ claimsTree = {} /\ revocationsTree = {} /\ rootsTree = {}
                         /\ idenStateList = <<>>
    /\ created = "trees" => /\ pc \in {"idle", "create"} /\ ~up
                            /\ State = GenesisState
                            /\ idenStateList = <<>>
    /\ created = "yes" => /\ pc # "create"
                          /\ Len(idenStateList) >= 1
                          /\ nonceIdx >= 1
    /\ created # "yes" => /\ txs = <<>> /\ disk = ZeroRegisters
                          /\ stored = State /\ lost = NoLeaves
    /\ pc \in Publishing \cup {"issue"} => up
    /\ pc = "issue" => issuing \in Claims

(* The roots in memory are those of the storage, but for leaves that were  *)
(* lost.  A root of the roots tree that was not stored is seen by nobody:  *)
(* PublishState cannot get past it.                                        *)
StoreInv ==
    /\ stored.clr \subseteq claimsTree
    /\ stored.rer \subseteq revocationsTree
    /\ stored.ror \subseteq rootsTree
    /\ claimsTree \subseteq stored.clr \cup lost.clr
    /\ revocationsTree \subseteq stored.rer \cup lost.rer
    /\ ~RootsReadable => /\ pc \in {"idle", "issue"} /\ up
                         /\ InA(mem)
                         /\ claimsTree # FromEnd(1).clr
    /\ faults = 0 => /\ ClaimsReadable /\ RevocationsReadable /\ RootsReadable
                     /\ lost = NoLeaves

(* n was handed out before the nonces that are still to come.              *)
Used(n) == n < IF pc = "issue" THEN nonceIdx - 1 ELSE nonceIdx

(* The nonces of all claims that are in the tree, were lost or are listed  *)
(* are used, only nonces of stored claims are revoked, and the state of the*)
(* trees is well formed.                                                   *)
NonceInv ==
    /\ Reg!WellFormed(State)
    /\ \A n \in revocationsTree : \E e \in stored.clr : e.nonce = n
    /\ \A r \in rootsTree : r \subseteq stored.clr \cup lost.clr
    /\ created = "yes" => \A e \in claimsTree \cup lost.clr : Used(e.nonce)
    /\ \A i \in DOMAIN idenStateList : \A e \in idenStateList[i].clr : Used(e.nonce)

(* The list grows from the genesis state to the trees in the storage, but  *)
(* for the leaves that were lost.                                          *)
HistoryInv ==
    /\ \A i \in DOMAIN idenStateList : \A j \in 1 .. i :
           ExtendsBut(lost, idenStateList[j], idenStateList[i])
    /\ \A i \in DOMAIN idenStateList : ExtendsBut(lost, idenStateList[i], stored)

(* The lock keeps the trees as they were when PublishState read them, and  *)
(* what it publishes extends what it publishes from.                       *)
PublishInv ==
    /\ pc \in Publishing => /\ idenState = State
                            /\ ExtendsBut(lost, idenStateLast, idenState)
    /\ pc = "append" => claimsTree \in rootsTree

(* So does every transaction that was ever sent.                           *)
TxsInv ==
    \A i \in DOMAIN txs : /\ ExtendsBut(lost, txs[i].old, txs[i].new)
                          /\ Reg!WellFormed(txs[i].new)

(* The inductive invariant.                                                *)
IndInv ==
    /\ TypeOK
    /\ ControlInv
    /\ StoreInv
    /\ NonceInv
    /\ HistoryInv
    /\ RootsCoverHistory
    /\ PublishInv
    /\ TxsInv
    /\ PendingIsLastListed

=============================================================================
