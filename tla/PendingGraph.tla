---------------------------- MODULE PendingGraph ----------------------------
(***************************************************************************)
(* The idenStatePending state graph of issuer.go:                          *)
(*   (A) (0, false)  ->  (B) (X, false)  ->  (C) (X, true)  ->  (A)        *)
(* where X is the same state from (B) to the step that leaves (C), and     *)
(* becomes the on-chain state in that step.                                *)
(***************************************************************************)
CONSTANT HashZero

VARIABLES pending, transacted, onChain

gvars == <<pending, transacted, onChain>>

A == pending = HashZero /\ ~transacted
B == pending # HashZero /\ ~transacted
C == pending # HashZero /\ transacted

Init == A /\ onChain = HashZero

Compute == A /\ B' /\ UNCHANGED onChain

Transact == B /\ C' /\ UNCHANGED <<pending, onChain>>

Confirm == C /\ A' /\ onChain' = pending

Next == Compute \/ Transact \/ Confirm

Spec == Init /\ [][Next]_gvars

=============================================================================
