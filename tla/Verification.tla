---------------------------- MODULE Verification ----------------------------
(***************************************************************************)
(* A holder and a verifier of claims of one issuer: identity/holder and    *)
(* components/verifier over the states the issuer has on chain.            *)
(*                                                                         *)
(* Both read the chain several times in one call, and the issuer publishes *)
(* whenever it likes, so every read of the chain or of the clock is a step *)
(* of its own.  Of the issuer only its promise is used: its states on      *)
(* chain are a behaviour of Registry, with no leaf lost.  (What an issuer  *)
(* revokes and then loses, a verifier cannot know.)                        *)
(***************************************************************************)
EXTENDS IdenStates

CONSTANTS
    Genesis,      \* the issuer's genesis state
    Publishable,  \* the states the issuer may come to publish
    Expiration,   \* the expiration time of a claim, for the ones that have one
    NoRoot,       \* a root that no tree of the issuer has
    None,         \* no credential yet
    Freshness,    \* the freshness the verifier asks for
    MaxTime,      \* bound on the clock
    MaxBlock      \* bound on the number of blocks

ASSUME VerificationAssumption ==
    /\ Genesis \in IdenState
    /\ Publishable \subseteq IdenState
    /\ DOMAIN Expiration \subseteq Claims \cup {KOp}
    /\ \A c \in DOMAIN Expiration : Expiration[c] \in Nat
    /\ \A r \in SUBSET Entries : NoRoot # r
    /\ \A r \in SUBSET Nonces : NoRoot # r
    /\ Freshness \in Nat
    /\ MaxTime \in Nat
    /\ MaxBlock \in Nat

VARIABLES
    chain,     \* what the contract stores of the issuer, oldest first
    now,       \* the time
    block,     \* the number of the last block
    hpc, hExist, hData,   \* the holder's call: its step, argument and local
    held,      \* the credential of validity or the zk proof the holder made last
    hResult,   \* what the holder's last call returned
    vpc, job,  \* the verifier's call: its step and arguments
    source,    \* "held" if the holder made what is verified, else "handed"
    asked,     \* the length of chain when the verifier was called
    oldest,    \* timeOldestAccepted
    vResult    \* what the call returned

holder == <<hpc, hExist, hData, held, hResult>>
verifier == <<vpc, job, source, asked, oldest, vResult>>
vars == <<chain, now, block, holder, verifier>>

-----------------------------------------------------------------------------
(* proof.IdenStateData                                                     *)
IdenStateData == [BlockTs : Nat, BlockN : Nat, IdenState : IdenState]

(* The states alone, for the promise of an issuer that has lost no leaf.   *)
States == [i \in DOMAIN chain |-> chain[i].IdenState]
Reg == INSTANCE Registry WITH chain <- States, lost <- NoLeaves

(* The contract's getStateDataById and getStateDataByBlock, which returns  *)
(* the state that was the current one at the block q, if there is one.     *)
GetState_First == chain[1]
GetState == chain[Len(chain)]
ClosestToBlock(q) == {i \in DOMAIN chain : /\ chain[i].BlockN <= q
                                           /\ \A j \in DOMAIN chain : chain[j].BlockN <= q => j <= i}

(* GetStateByBlock: the state published at the block q, or an error.       *)
GetStateByBlock(q) ==
    {chain[i] : i \in {k \in ClosestToBlock(q) : chain[k].BlockN = q}}

(* A Merkle proof is modelled by the set in the tree it is a proof of, and *)
(* by the kind of proof that it says it is.  RootFromProof gives the root  *)
(* of that tree if x really is, or is not, in it.                          *)
RootFromProof_AnyKind(mtp, x) == mtp.root
RootFromProof(mtp, x) == IF mtp.Existence <=> x \in mtp.root THEN mtp.root ELSE NoRoot

(* core.IdenState                                                          *)
CalcIdenState(clr, rer, ror) == [clr |-> clr, rer |-> rer, ror |-> ror]

(* GenCredentialExistence: the credential of the claim e under the state   *)
(* the issuer knows to be on chain.                                        *)
CredentialExistence(e, data) ==
    [Claim |-> e, IdenStateData |-> data,
     MtpClaim |-> [Existence |-> TRUE, root |-> data.IdenState.clr],
     RevocationsTreeRoot |-> data.IdenState.rer,
     RootsTreeRoot |-> data.IdenState.ror]

(* The state of a credential is listed by the issuer, with its claims root *)
(* among its roots (RootsCoverHistory of Issuer).                          *)
IssuedCredentials ==
    {CredentialExistence(p[1], p[2]) :
        p \in {q \in Entries \X {chain[i] : i \in DOMAIN chain} :
                  /\ q[1] \in q[2].IdenState.clr
                  /\ q[2].IdenState.clr \in q[2].IdenState.ror}}

-----------------------------------------------------------------------------
Init ==
    /\ chain = <<>>
    /\ now = 0 /\ block = 0
    /\ hpc = "idle" /\ hExist = None /\ hData = None
    /\ held = None /\ hResult = "none"
    /\ vpc = "idle" /\ job = None /\ source = "none" /\ asked = 0 /\ oldest = 0
    /\ vResult = "none"

(* The issuer publishes in a new block: the contract stores at most one    *)
(* state of an identity for a block.                                       *)
Publish(s) ==
    /\ block < MaxBlock
    /\ block' = block + 1
    /\ chain' = Append(chain, [BlockTs |-> now, BlockN |-> block', IdenState |-> s])
    /\ Reg!Publish(s)
    /\ UNCHANGED <<now, holder, verifier>>

Tick == now < MaxTime /\ now' = now + 1 /\ UNCHANGED <<chain, block, holder, verifier>>

-----------------------------------------------------------------------------
(* HolderGetCredentialValidityData, up to the answer of GetState.          *)
HolderGetState ==
    /\ hpc = "idle"
    /\ \E x \in IssuedCredentials : hExist' = x
    /\ hData' = GetState
    /\ hpc' = "data"
    /\ hResult' = "none"
    /\ UNCHANGED <<chain, now, block, held, verifier>>

(* The proof inputs need the claims root of the credential in the roots    *)
(* tree of the state (HolderGetCredentialProofInputs).                     *)
CircuitAccepts(x, s) == RootFromProof(x.MtpClaim, x.Claim) \in s.ror

(* The rest: the public data of that state is asked for, and with it the   *)
(* credential of validity made or the zk proof generated.  s is the state  *)
(* of the data that comes back; there may also be no answer.               *)
NonceRevoked_Never(x, s) == FALSE
NonceRevoked(x, s) == x.Claim.nonce \in s.rer

HolderGotData(s, made, r) ==
    /\ hpc = "data"
    /\ hpc' = "idle"
    /\ hExist' = None /\ hData' = None
    /\ \/ /\ s # hData.IdenState
          /\ hResult' = "mismatch"
          /\ UNCHANGED held
       \/ /\ s = hData.IdenState
          /\ NonceRevoked(hExist, s)
          /\ hResult' = "revoked"
          /\ UNCHANGED held
       \/ /\ s = hData.IdenState
          /\ ~NonceRevoked(hExist, s)
          /\ hResult' = r
          /\ held' = made
    /\ UNCHANGED <<chain, now, block, verifier>>

HolderGetCredentialValidity(s) ==
    HolderGotData(s,
        [kind |-> "validity", CredentialExistence |-> hExist, IdenStateData |-> hData,
         MtpNotNonce |-> [Existence |-> FALSE, root |-> s.rer],
         ClaimsTreeRoot |-> s.clr, RootsTreeRoot |-> s.ror],
        "ok")

HolderGenZkProofCredential(s) ==
    /\ hpc = "data"
    /\ \/ /\ CircuitAccepts(hExist, s)
          /\ HolderGotData(s, [kind |-> "zk", Claim |-> hExist.Claim,
                               IdenState |-> hData.IdenState, BlockN |-> hData.BlockN],
                           "ok")
       \/ /\ ~CircuitAccepts(hExist, s)
          /\ HolderGotData(s, held, "rootnotfound")

HolderNoAnswer ==
    /\ hpc = "data"
    /\ hpc' = "idle"
    /\ hExist' = None /\ hData' = None
    /\ hResult' = "noanswer"
    /\ UNCHANGED <<chain, now, block, held, verifier>>

-----------------------------------------------------------------------------
(* What a verifier may be handed: a credential put together from parts     *)
(* that need not belong together, and with a wrong block or time stamp.    *)
Known == {chain[i].IdenState : i \in DOMAIN chain} \cup {Genesis}

OnChainData == {chain[i] : i \in DOMAIN chain} \cup
               {[BlockTs |-> 0, BlockN |-> 0, IdenState |-> Genesis]}

SomeData == {[d EXCEPT !.BlockN = n] : d \in OnChainData, n \in 0 .. MaxBlock} \cup
            {[d EXCEPT !.BlockTs = t] : d \in OnChainData, t \in 0 .. MaxTime}

Handed(x, d, existence, t) ==
    [kind |-> "validity", CredentialExistence |-> x, IdenStateData |-> d,
     MtpNotNonce |-> [Existence |-> existence, root |-> t.rer],
     ClaimsTreeRoot |-> t.clr, RootsTreeRoot |-> t.ror]

(* The call returns; the verifier keeps nothing from one call to the next. *)
Accept == vpc' = "done" /\ vResult' = "accepted" /\ UNCHANGED job
Refuse(r) == vpc' = "done" /\ vResult' = r /\ job' = None

VerifierReturn ==
    /\ vpc = "done"
    /\ vpc' = "idle" /\ job' = None /\ source' = "none" /\ asked' = 0 /\ oldest' = 0
    /\ vResult' = "none"
    /\ UNCHANGED <<chain, now, block, holder>>

(* time.Unix(Expiration, 0).Before(now)                                    *)
Expired(e) == e.hi \in DOMAIN Expiration /\ Expiration[e.hi] < now

(* VerifyCredentialExistence: why the credential is refused, or "ok".      *)
VerifyCredentialExistence(x) ==
    LET root == RootFromProof(x.MtpClaim, x.Claim) IN
    IF ~x.MtpClaim.Existence THEN "nonexistence"
    ELSE IF CalcIdenState(root, x.RevocationsTreeRoot, x.RootsTreeRoot) # x.IdenStateData.IdenState
         THEN "mismatch"
    ELSE IF GetStateByBlock(x.IdenStateData.BlockN) = {} THEN "notfound"
    ELSE IF x.IdenStateData \notin GetStateByBlock(x.IdenStateData.BlockN) THEN "onchain"
    ELSE "ok"

(* VerifyCredentialValidity reads the clock for the expiration ...         *)
VerifyValidityBegin(c, from) ==
    LET claim == c.CredentialExistence.Claim IN
    /\ vpc = "idle"
    /\ asked' = Len(chain)
    /\ source' = from
    /\ \/ /\ Expired(claim)
          /\ Refuse("expired")
       \/ /\ ~Expired(claim)
          /\ job' = [kind |-> "validity", Claim |-> claim,
                     IdenStateData |-> c.IdenStateData, cred |-> c]
          /\ vpc' = "exist"
          /\ UNCHANGED vResult
    /\ UNCHANGED <<chain, now, block, oldest, holder>>

(* ... and then the chain for the credential of existence.                 *)
VerifyExistence ==
    LET r == VerifyCredentialExistence(job.cred.CredentialExistence) IN
    /\ vpc = "exist"
    /\ \/ /\ r # "ok"
          /\ Refuse(r)
       \/ /\ r = "ok"
          /\ job.cred.MtpNotNonce.Existence
          /\ Refuse("existence")
       \/ /\ r = "ok"
          /\ ~job.cred.MtpNotNonce.Existence
          /\ vpc' = "fresh"
          /\ UNCHANGED <<job, vResult>>
    /\ UNCHANGED <<chain, now, block, source, asked, oldest, holder>>

(* VerifyZkProofCredential, up to the freshness; the proof itself is right.*)
VerifyZkBegin(p, blockN, from) ==
    /\ vpc = "idle"
    /\ asked' = Len(chain)
    /\ source' = from
    /\ \/ /\ GetStateByBlock(blockN) = {}
          /\ Refuse("notfound")
       \/ \E d \in GetStateByBlock(blockN) :
            \/ /\ d.IdenState # p.IdenState
               /\ Refuse("onchain")
            \/ /\ d.IdenState = p.IdenState
               /\ job' = [kind |-> "zk", Claim |-> p.Claim, IdenStateData |-> d, cred |-> None]
               /\ vpc' = "fresh"
               /\ UNCHANGED vResult
    /\ UNCHANGED <<chain, now, block, oldest, holder>>

(* What follows validateFreshness in the two calls.                        *)
AfterFreshness ==
    \/ /\ job.kind = "validity"
       /\ vpc' = "link"
       /\ UNCHANGED <<job, vResult>>
    \/ /\ job.kind = "zk"
       /\ Accept

(* validateFreshness reads the clock ...                                   *)
TooOld(ts, t) == ~(t < ts)

ReadClock ==
    /\ vpc = "fresh"
    /\ oldest' = now - Freshness
    /\ \/ /\ TooOld(job.IdenStateData.BlockTs, oldest')
          /\ vpc' = "last"
          /\ UNCHANGED <<job, vResult>>
       \/ /\ ~TooOld(job.IdenStateData.BlockTs, oldest')
          /\ AfterFreshness
    /\ UNCHANGED <<chain, now, block, source, asked, holder>>

(* ... and then, for a state that is too old, the last one on chain.       *)
ReadLast ==
    /\ vpc = "last"
    /\ \/ /\ GetState.IdenState # job.IdenStateData.IdenState
          /\ Refuse("outdated")
       \/ /\ GetState.IdenState = job.IdenStateData.IdenState
          /\ AfterFreshness
    /\ UNCHANGED <<chain, now, block, source, asked, oldest, holder>>

(* The end of VerifyCredentialValidity: the proof that the nonce is not    *)
(* revoked, and the link of state, block and time.                         *)
LinkResult_Unlinked(c) ==
    LET rer == RootFromProof(c.MtpNotNonce, c.CredentialExistence.Claim.nonce) IN
    IF CalcIdenState(c.ClaimsTreeRoot, rer, c.RootsTreeRoot) # c.IdenStateData.IdenState
    THEN "mismatch" ELSE "ok"
LinkResult(c) ==
    LET rer == RootFromProof(c.MtpNotNonce, c.CredentialExistence.Claim.nonce) IN
    IF CalcIdenState(c.ClaimsTreeRoot, rer, c.RootsTreeRoot) # c.IdenStateData.IdenState
    THEN "mismatch"
    ELSE IF GetStateByBlock(c.IdenStateData.BlockN) = {} THEN "notfound"
    ELSE IF c.IdenStateData \notin GetStateByBlock(c.IdenStateData.BlockN) THEN "onchain"
    ELSE "ok"

VerifyLink ==
    /\ vpc = "link"
    /\ \/ LinkResult(job.cred) = "ok" /\ Accept
       \/ LinkResult(job.cred) # "ok" /\ Refuse(LinkResult(job.cred))
    /\ UNCHANGED <<chain, now, block, source, asked, oldest, holder>>

-----------------------------------------------------------------------------
VerifyHanded ==
    \/ \E x \in IssuedCredentials, d \in SomeData, existence \in BOOLEAN, t \in Known :
          VerifyValidityBegin(Handed(x, d, existence, t), "handed")
    \/ \E e \in Entries, d0 \in SomeData, d \in OnChainData :
          VerifyValidityBegin(Handed(CredentialExistence(e, d0), d, FALSE, d.IdenState), "handed")

VerifyHeld ==
    /\ held # None
    /\ held.kind = "validity"
    /\ VerifyValidityBegin(held, "held")

VerifyZkHeld ==
    /\ held # None
    /\ held.kind = "zk"
    /\ \/ VerifyZkBegin(held, held.BlockN, "held")
       \/ \E blockN \in 0 .. MaxBlock : VerifyZkBegin(held, blockN, "handed")

ChainStep == (\E s \in Publishable : Publish(s)) \/ Tick

HolderStep ==
    \/ HolderGetState
    \/ \E s \in Known : HolderGetCredentialValidity(s)
    \/ \E s \in Known : HolderGenZkProofCredential(s)
    \/ HolderNoAnswer

VerifierStep == VerifyExistence \/ ReadClock \/ ReadLast \/ VerifyLink \/ VerifierReturn

Next == \/ ChainStep \/ HolderStep
        \/ VerifyHanded \/ VerifyHeld \/ VerifyZkHeld \/ VerifierStep

Spec == Init /\ [][Next]_vars

-----------------------------------------------------------------------------
(* An accepted claim was not revoked in any state that was on chain when   *)
(* the verifier was called and that is older than the freshness it asks    *)
(* for, although the two reads of the chain see different chains and the   *)
(* freshness is judged before the time stamp is linked to the state.       *)
AcceptedIsFresh ==
    vResult = "accepted" =>
        \A i \in 1 .. asked :
            chain[i].BlockTs <= oldest => job.Claim.nonce \notin chain[i].IdenState.rer

(* An accepted claim, its nonce included, was issued: it is in a claims    *)
(* tree that the issuer has on chain.                                      *)
AcceptedIsIssued ==
    vResult = "accepted" =>
        \E i \in DOMAIN chain : job.Claim \in chain[i].IdenState.clr

(* What a holder made from an issued credential is never refused as        *)
(* inconsistent, however far the chain has moved on: it can only be too    *)
(* old or expired.                                                         *)
HeldIsConsistent ==
    source = "held" => vResult \in {"none", "accepted", "outdated", "expired"}

(* HolderGetCredentialProofInputs finds the claims root of an existence    *)
(* credential in the roots tree of every later state (ErrRootNotFound).    *)
RootAlwaysFound == hResult # "rootnotfound"

=============================================================================
