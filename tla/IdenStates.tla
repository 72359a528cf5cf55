----------------------------- MODULE IdenStates -----------------------------
(***************************************************************************)
(* Identity states: what the three Merkle trees of an identity hold, and   *)
(* the state that commits to them.                                         *)
(*                                                                         *)
(* A Merkle root is a collision-free function of the set of entries of its *)
(* tree, and an identity state a collision-free hash of three roots, so a  *)
(* root is modelled by the set it commits to and a state by the record of  *)
(* its three sets.  Two states are equal exactly when their trees are.     *)
(***************************************************************************)
EXTENDS Integers, Sequences

CONSTANTS
    Claims,     \* hash-indexes (HIndex) of the claims an application may issue
    KOp,        \* hash-index of the claim that authorises the operational key
    HashZero,   \* merkletree.HashZero: "no identity state"
    MaxNonce    \* the index at which UniqueNonceGen.Next refuses (0xffffffff)

ASSUME MaxNonceAssumption == MaxNonce \in Nat

(* Revocation nonces that Next can hand out.                               *)
Nonces == 0 .. (MaxNonce - 1)

(* A claims tree entry: where it is stored, and the nonce in its value.    *)
Entries == [hi : Claims \cup {KOp}, nonce : Nonces]

(* core.IdenState(clr, rer, ror): the claims tree by its entries, the      *)
(* revocations tree by the revoked nonces, the roots tree by the claims    *)
(* tree roots it holds.                                                    *)
IdenState == [clr : SUBSET Entries, rer : SUBSET Nonces, ror : SUBSET SUBSET Entries]

ASSUME HashZeroAssumption == HashZero \notin IdenState

(* s is an earlier (or the same) version of the identity whose state is t: *)
(* nothing in the trees of s is missing from the trees of t.               *)
Extends(s, t) == /\ s.clr \subseteq t.clr
                 /\ s.rer \subseteq t.rer
                 /\ s.ror \subseteq t.ror

(* Leaves of the claims tree and of the revocations tree that went into a  *)
(* root and never into the storage.                                        *)
Leaves == [clr : SUBSET Entries, rer : SUBSET Nonces]
NoLeaves == [clr |-> {}, rer |-> {}]

(* t has all of s but leaves that were lost.                               *)
ExtendsBut(lost, s, t) == /\ s.clr \ lost.clr \subseteq t.clr
                          /\ s.rer \ lost.rer \subseteq t.rer
                          /\ s.ror \subseteq t.ror

=============================================================================
