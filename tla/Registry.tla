------------------------------ MODULE Registry ------------------------------
(***************************************************************************)
(* What an issuer promises to everyone who reads its identity states from  *)
(* the chain: a history of well-formed states that starts from its genesis *)
(* state and only ever grows.  A claim that was on chain stays on chain, a *)
(* revocation that was on chain is never undone, and a revoked nonce       *)
(* belongs to exactly one claim.  Holders and verifiers rely on this when  *)
(* they judge a claim by a state that is not the latest one.               *)
(*                                                                         *)
(* The promise is as good as the storage of the issuer: a leaf that was    *)
(* published and then lost may be missing from later states, and no other. *)
(* To an issuer that never loses one (lost = NoLeaves) ExtendsBut is       *)
(* Extends.                                                                *)
(***************************************************************************)
EXTENDS IdenStates

CONSTANT Genesis    \* the state the identity's ID is derived from

VARIABLES
    chain,          \* the states in the contract, oldest first
    lost            \* the leaves the issuer has lost

(* No two claims share a nonce or a place in the tree, only nonces of      *)
(* issued claims are revoked, and the roots are of earlier claims trees,   *)
(* which may have had leaves that were lost.                               *)
WellFormed(s) ==
    /\ \A e, f \in s.clr : (e.nonce = f.nonce \/ e.hi = f.hi) => e = f
    /\ \A n \in s.rer : \E e \in s.clr : e.nonce = n
    /\ \A r \in s.ror : r \subseteq s.clr \cup lost.clr

Latest == IF chain = <<>> THEN Genesis ELSE chain[Len(chain)]

Publish(s) == /\ s \in IdenState
              /\ WellFormed(s)
              /\ ExtendsBut(lost, Latest, s)
              /\ chain' = Append(chain, s)

(* A leaf is lost.                                                         *)
Lose == /\ lost' \in Leaves
        /\ lost.clr \subseteq lost'.clr
        /\ lost.rer \subseteq lost'.rer
        /\ UNCHANGED chain

Init == chain = <<>> /\ lost = NoLeaves

(* The state a step publishes is the one that is last after it.            *)
Next == \/ chain' # <<>> /\ Publish(chain'[Len(chain')]) /\ UNCHANGED lost
        \/ Lose

Spec == Init /\ [][Next]_<<chain, lost>>

=============================================================================
