------------------------------ MODULE MCIssuer ------------------------------
(* Instances of Issuer for TLC. *)
EXTENDS IssuerInv, TLC

CONSTANTS c1, c2

NoExtraClaims == <<>>
OneExtraClaim == <<c2>>

(* Claims that are not in the genesis are interchangeable. *)
Symmetry == Permutations(Claims)
=============================================================================
