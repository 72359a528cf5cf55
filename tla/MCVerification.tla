--------------------------- MODULE MCVerification ---------------------------
(* Instances of Verification for TLC: an issuer that issues one claim, and *)
(* that may revoke it or the operational key, before or after.             *)
EXTENDS Verification

CONSTANT c1

k0 == [hi |-> KOp, nonce |-> 0]
e1 == [hi |-> c1, nonce |-> 1]

MCGenesis == [clr |-> {k0}, rer |-> {}, ror |-> {{k0}}]

RevokedKOp == [clr |-> {k0}, rer |-> {0}, ror |-> {{k0}}]
Issued(revoked) == [clr |-> {k0, e1}, rer |-> revoked, ror |-> {{k0}, {k0, e1}}]

MCPublishable == {RevokedKOp, Issued({0}), Issued({}), Issued({1})}

C1Expires == [c \in {c1} |-> 1]

(* The verifier reads nothing of the holder's but the credential it is     *)
(* called with, the holder nothing of the verifier's, and every property is*)
(* about one of them and the chain.  So it is enough to interleave each of *)
(* them with the chain: the holder waits while the verifier is at work, and*)
(* handed parts are verified before the holder has done anything.          *)
HolderAtRest == hpc = "idle" /\ held = None /\ hResult = "none"

MCNext ==
    \/ ChainStep
    \/ vpc = "idle" /\ HolderStep
    \/ VerifyHeld
    \/ VerifyZkHeld
    \/ HolderAtRest /\ VerifyHanded
    \/ VerifierStep

MCSpec == Init /\ [][MCNext]_vars
=============================================================================
