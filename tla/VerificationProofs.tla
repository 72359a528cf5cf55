------------------------- MODULE VerificationProofs -------------------------
(***************************************************************************)
(* What a verifier's acceptance means, for every issuer that keeps the     *)
(* promise of Registry, every freshness, and every interleaving of the     *)
(* verifier's reads with the chain.  Nothing is assumed of the parts of a  *)
(* credential that is handed to the verifier.                              *)
(***************************************************************************)
EXTENDS Verification, TLAPS

Idxs == 1 .. Len(chain)

(* The chain: blocks and times go up, and each state extends the ones      *)
(* before it.                                                              *)
ChainInv ==
    /\ chain \in Seq(IdenStateData)
    /\ now \in Nat /\ block \in Nat
    /\ \A i \in Idxs : chain[i].BlockN <= block /\ chain[i].BlockTs <= now
    /\ \A i, j \in Idxs : i < j =>
          /\ chain[i].BlockN < chain[j].BlockN
          /\ chain[i].BlockTs <= chain[j].BlockTs
          /\ Extends(chain[i].IdenState, chain[j].IdenState)

(* The holder's credentials and the verifier's job, as they relate to what *)
(* is on chain.  They are stated of a chain ch, so that they can be stated *)
(* of the chain before a step and after it.                                *)

(* x is an existence credential of e that was issued under the i-th state, *)
(* and d the j-th state, which was read after it.                          *)
Collected(ch, x, d, e, i, j) ==
    /\ i <= j
    /\ e \in ch[i].IdenState.clr
    /\ ch[i].IdenState.clr \in ch[i].IdenState.ror
    /\ x = CredentialExistence(e, ch[i])
    /\ d = ch[j]

Collecting(ch, x, d) ==
    \E e \in Entries, i, j \in 1 .. Len(ch) : Collected(ch, x, d, e, i, j)

(* What the holder makes of it, if the nonce is not revoked there.         *)
Validity(e, d, f) ==
    [kind |-> "validity", CredentialExistence |-> CredentialExistence(e, d), IdenStateData |-> f,
     MtpNotNonce |-> [Existence |-> FALSE, root |-> f.IdenState.rer],
     ClaimsTreeRoot |-> f.IdenState.clr, RootsTreeRoot |-> f.IdenState.ror]

MadeValidity(ch, c) ==
    \E e \in Entries, i, j \in 1 .. Len(ch) :
        /\ e \in ch[i].IdenState.clr
        /\ e.nonce \notin ch[j].IdenState.rer
        /\ c = Validity(e, ch[i], ch[j])

ZkProof(e, d) == [kind |-> "zk", Claim |-> e, IdenState |-> d.IdenState, BlockN |-> d.BlockN]

MadeZk(ch, p) ==
    \E e \in Entries, j \in 1 .. Len(ch) :
        /\ e \in ch[j].IdenState.clr
        /\ e.nonce \notin ch[j].IdenState.rer
        /\ p = ZkProof(e, ch[j])

(* The claim of the job is on chain, ...                                   *)
ClaimOnChain(ch, jb) == \E i \in 1 .. Len(ch) : jb.Claim \in ch[i].IdenState.clr

(* ... the state is one of the chain, in which the nonce is not revoked,   *)
DataOnChain(ch, jb) == \E k \in 1 .. Len(ch) : /\ jb.IdenStateData = ch[k]
                                               /\ jb.Claim.nonce \notin ch[k].IdenState.rer

(* ... and it is fresh, or no state the verifier could have seen when it   *)
(* was called has revoked more.                                            *)
FreshEnough(ch, jb, n, t) ==
    \/ t < jb.IdenStateData.BlockTs
    \/ \A i \in 1 .. n : ch[i].IdenState.rer \subseteq jb.IdenStateData.IdenState.rer

(* The job of VerifyCredentialValidity, from its beginning on.             *)
ValidityJob(ch, jb, from) ==
    /\ jb.kind = "validity"
    /\ jb.Claim = jb.cred.CredentialExistence.Claim
    /\ jb.IdenStateData = jb.cred.IdenStateData
    /\ from = "held" => MadeValidity(ch, jb.cred)

JobInv(ch, jb, from) ==
    /\ ClaimOnChain(ch, jb)
    /\ \/ ValidityJob(ch, jb, from) /\ ~jb.cred.MtpNotNonce.Existence
       \/ /\ jb.kind = "zk"
          /\ DataOnChain(ch, jb)

HolderInv ==
    /\ hpc = "data" => Collecting(chain, hExist, hData)
    /\ held = None \/ MadeValidity(chain, held) \/ MadeZk(chain, held)
    /\ RootAlwaysFound

VerifierInv ==
    /\ asked \in 0 .. Len(chain) /\ oldest \in Int
    /\ vpc \in {"idle", "exist", "fresh", "last", "link", "done"}
    /\ vpc # "done" => vResult = "none"
    /\ vpc = "exist" => ValidityJob(chain, job, source)
    /\ vpc \in {"fresh", "last", "link"} => JobInv(chain, job, source)
    /\ vpc = "link" => job.kind = "validity" /\ FreshEnough(chain, job, asked, oldest)
    /\ vResult = "accepted" => /\ ClaimOnChain(chain, job)
                               /\ DataOnChain(chain, job)
                               /\ FreshEnough(chain, job, asked, oldest)
    /\ HeldIsConsistent

Inv == ChainInv /\ HolderInv /\ VerifierInv

-----------------------------------------------------------------------------
(* Facts about the constants and the operators.                            *)

(* The root of a valid proof is that of the tree; the one of an invalid    *)
(* proof is no root of the issuer's.                                       *)
LEMMA ProofRoots ==
    ASSUME NEW mtp, NEW x
    PROVE  /\ mtp.Existence /\ RootFromProof(mtp, x) \in SUBSET Entries => x \in RootFromProof(mtp, x)
           /\ ~mtp.Existence /\ RootFromProof(mtp, x) \in SUBSET Nonces => x \notin RootFromProof(mtp, x)
BY VerificationAssumption DEF VerificationAssumption, RootFromProof

LEMMA StateType ==
    ASSUME ChainInv, NEW i \in Idxs
    PROVE  /\ chain[i] \in IdenStateData
           /\ chain[i].IdenState \in IdenState
           /\ chain[i].IdenState.clr \in SUBSET Entries
           /\ chain[i].IdenState.rer \in SUBSET Nonces
           /\ chain[i].BlockTs \in Nat /\ chain[i].BlockN \in Nat
<1>1. chain[i] \in IdenStateData
  BY DEF ChainInv, Idxs
<1> QED
  BY <1>1 DEF IdenStateData, IdenState

(* Nothing that an earlier state holds is missing from a later one.        *)
LEMMA LaterExtends ==
    ASSUME ChainInv, NEW i \in Idxs, NEW j \in Idxs, i <= j
    PROVE  Extends(chain[i].IdenState, chain[j].IdenState)
<1>1. i \in Int /\ j \in Int
  BY DEF Idxs
<1>2. CASE i = j
  BY <1>2 DEF Extends
<1>3. CASE i < j
  BY <1>3 DEF ChainInv
<1> QED
  BY <1>1, <1>2, <1>3

(* GetStateByBlock finds the state that was published at that block, and   *)
(* nothing else.                                                           *)
LEMMA ByBlock ==
    ASSUME ChainInv
    PROVE  /\ \A q : \A d \in GetStateByBlock(q) : \E k \in Idxs : d = chain[k]
           /\ \A k \in Idxs : GetStateByBlock(chain[k].BlockN) = {chain[k]}
<1>1. DOMAIN chain = Idxs
  BY DEF ChainInv, Idxs
<1>2. \A q : \A d \in GetStateByBlock(q) : \E k \in Idxs : d = chain[k]
  BY <1>1 DEF GetStateByBlock, ClosestToBlock
<1>3. ASSUME NEW k \in Idxs
      PROVE  ClosestToBlock(chain[k].BlockN) = {k}
  <2>1. \A j \in Idxs : chain[j].BlockN <= chain[k].BlockN => j <= k
    <3> SUFFICES ASSUME NEW j \in Idxs, chain[j].BlockN <= chain[k].BlockN, ~(j <= k)
                 PROVE  FALSE
      OBVIOUS
    <3>1. k < j
      BY DEF Idxs
    <3>2. chain[k].BlockN < chain[j].BlockN
      BY <1>3, <3>1 DEF ChainInv
    <3> QED
      BY <1>3, <3>2, StateType
  <2>2. chain[k].BlockN <= chain[k].BlockN
    BY <1>3, StateType
  <2>3. \A i, j \in Idxs : i <= j /\ j <= i => i = j
    BY DEF Idxs
  <2> QED
    BY <1>1, <1>3, <2>1, <2>2, <2>3 DEF ClosestToBlock
<1>4. ASSUME NEW k \in Idxs
      PROVE  GetStateByBlock(chain[k].BlockN) = {chain[k]}
  BY <1>3, <1>4 DEF GetStateByBlock
<1> QED
  BY <1>2, <1>4

(* What the verifier concludes from an existence credential.               *)
LEMMA ExistenceVerified ==
    ASSUME ChainInv, NEW x, VerifyCredentialExistence(x) = "ok"
    PROVE  \E k \in Idxs : x.Claim \in chain[k].IdenState.clr
<1> DEFINE root == RootFromProof(x.MtpClaim, x.Claim)
<1>1. /\ x.MtpClaim.Existence
      /\ CalcIdenState(root, x.RevocationsTreeRoot, x.RootsTreeRoot) = x.IdenStateData.IdenState
      /\ x.IdenStateData \in GetStateByBlock(x.IdenStateData.BlockN)
  BY DEF VerifyCredentialExistence
<1>2. PICK k \in Idxs : x.IdenStateData = chain[k]
  BY <1>1, ByBlock
<1>3. root = chain[k].IdenState.clr
  BY <1>1, <1>2 DEF CalcIdenState
<1> QED
  BY <1>1, <1>3, StateType, ProofRoots

(* What it concludes from the link of state, block and time.               *)
LEMMA LinkVerified ==
    ASSUME ChainInv, NEW c, ~c.MtpNotNonce.Existence, LinkResult(c) = "ok"
    PROVE  \E k \in Idxs : /\ c.IdenStateData = chain[k]
                           /\ c.CredentialExistence.Claim.nonce \notin chain[k].IdenState.rer
<1> DEFINE rer == RootFromProof(c.MtpNotNonce, c.CredentialExistence.Claim.nonce)
<1>1. /\ CalcIdenState(c.ClaimsTreeRoot, rer, c.RootsTreeRoot) = c.IdenStateData.IdenState
      /\ c.IdenStateData \in GetStateByBlock(c.IdenStateData.BlockN)
  BY DEF LinkResult
<1>2. PICK k \in Idxs : c.IdenStateData = chain[k]
  BY <1>1, ByBlock
<1>3. rer = chain[k].IdenState.rer
  BY <1>1, <1>2 DEF CalcIdenState
<1> QED
  BY <1>2, <1>3, StateType, ProofRoots

(* What the holder made passes both.                                       *)
LEMMA MadeVerifies ==
    ASSUME ChainInv, NEW c, MadeValidity(chain, c)
    PROVE  /\ VerifyCredentialExistence(c.CredentialExistence) = "ok"
           /\ ~c.MtpNotNonce.Existence
           /\ LinkResult(c) = "ok"
<1>1. PICK e \in Entries, i \in Idxs, j \in Idxs :
         /\ e \in chain[i].IdenState.clr
         /\ e.nonce \notin chain[j].IdenState.rer
         /\ c = Validity(e, chain[i], chain[j])
  BY DEF MadeValidity, Idxs
<1> DEFINE x == CredentialExistence(e, chain[i])
<1>2. /\ x.Claim = e /\ x.IdenStateData = chain[i]
      /\ x.MtpClaim = [Existence |-> TRUE, root |-> chain[i].IdenState.clr]
      /\ x.RevocationsTreeRoot = chain[i].IdenState.rer
      /\ x.RootsTreeRoot = chain[i].IdenState.ror
  BY DEF CredentialExistence
<1>3. /\ c.CredentialExistence = x /\ c.IdenStateData = chain[j]
      /\ c.MtpNotNonce = [Existence |-> FALSE, root |-> chain[j].IdenState.rer]
      /\ c.ClaimsTreeRoot = chain[j].IdenState.clr
      /\ c.RootsTreeRoot = chain[j].IdenState.ror
  BY <1>1 DEF Validity
<1> HIDE DEF x
<1>4. \A k \in Idxs : CalcIdenState(chain[k].IdenState.clr, chain[k].IdenState.rer,
                                    chain[k].IdenState.ror) = chain[k].IdenState
  <2> SUFFICES ASSUME NEW k \in Idxs
               PROVE  CalcIdenState(chain[k].IdenState.clr, chain[k].IdenState.rer,
                                    chain[k].IdenState.ror) = chain[k].IdenState
    OBVIOUS
  <2>1. chain[k].IdenState \in IdenState
    BY StateType
  <2> QED
    BY <2>1 DEF CalcIdenState, IdenState
<1>5. RootFromProof(x.MtpClaim, x.Claim) = chain[i].IdenState.clr
  BY <1>1, <1>2 DEF RootFromProof
<1>6. RootFromProof(c.MtpNotNonce, x.Claim.nonce) = chain[j].IdenState.rer
  BY <1>1, <1>2, <1>3 DEF RootFromProof
<1>7. /\ GetStateByBlock(chain[i].BlockN) = {chain[i]}
      /\ GetStateByBlock(chain[j].BlockN) = {chain[j]}
  BY ByBlock
<1>8. VerifyCredentialExistence(x) = "ok"
  BY <1>2, <1>4, <1>5, <1>7 DEF VerifyCredentialExistence
<1>9. LinkResult(c) = "ok"
  BY <1>3, <1>4, <1>6, <1>7 DEF LinkResult
<1> QED
  BY <1>3, <1>8, <1>9


-----------------------------------------------------------------------------
(* The chain only grows, and what was related to it stays so.              *)

Grown(ch, ch2) == /\ Len(ch) \in Nat /\ Len(ch2) \in Nat
                  /\ Len(ch) <= Len(ch2)
                  /\ \A i \in 1 .. Len(ch) : ch2[i] = ch[i]

LEMMA IndexKept ==
    ASSUME NEW ch, NEW ch2, Grown(ch, ch2)
    PROVE  \A i \in 1 .. Len(ch) : i \in 1 .. Len(ch2) /\ ch2[i] = ch[i]
BY DEF Grown

LEMMA HolderKept ==
    ASSUME NEW ch, NEW ch2, Grown(ch, ch2)
    PROVE  /\ \A x, d : Collecting(ch, x, d) => Collecting(ch2, x, d)
           /\ \A c : MadeValidity(ch, c) => MadeValidity(ch2, c)
           /\ \A p : MadeZk(ch, p) => MadeZk(ch2, p)
<1>1. \A x, d : Collecting(ch, x, d) => Collecting(ch2, x, d)
  <2> SUFFICES ASSUME NEW x, NEW d, Collecting(ch, x, d)
               PROVE  Collecting(ch2, x, d)
    OBVIOUS
  <2>1. PICK e \in Entries, i \in 1 .. Len(ch), j \in 1 .. Len(ch) : Collected(ch, x, d, e, i, j)
    BY DEF Collecting
  <2>2. Collected(ch2, x, d, e, i, j)
    BY <2>1, IndexKept DEF Collected
  <2> QED
    BY <2>2, IndexKept DEF Collecting
<1>2. \A c : MadeValidity(ch, c) => MadeValidity(ch2, c)
  <2> SUFFICES ASSUME NEW c, MadeValidity(ch, c)
               PROVE  MadeValidity(ch2, c)
    OBVIOUS
  <2>1. PICK e \in Entries, i \in 1 .. Len(ch), j \in 1 .. Len(ch) :
           /\ e \in ch[i].IdenState.clr
           /\ e.nonce \notin ch[j].IdenState.rer
           /\ c = Validity(e, ch[i], ch[j])
    BY DEF MadeValidity
  <2>2. i \in 1 .. Len(ch2) /\ j \in 1 .. Len(ch2) /\ ch2[i] = ch[i] /\ ch2[j] = ch[j]
    BY IndexKept
  <2>3. /\ e \in ch2[i].IdenState.clr
        /\ e.nonce \notin ch2[j].IdenState.rer
        /\ c = Validity(e, ch2[i], ch2[j])
    BY <2>1, <2>2
  <2> QED
    BY <2>2, <2>3 DEF MadeValidity
<1>3. \A p : MadeZk(ch, p) => MadeZk(ch2, p)
  <2> SUFFICES ASSUME NEW p, MadeZk(ch, p)
               PROVE  MadeZk(ch2, p)
    OBVIOUS
  <2>1. PICK e \in Entries, j \in 1 .. Len(ch) :
           /\ e \in ch[j].IdenState.clr
           /\ e.nonce \notin ch[j].IdenState.rer
           /\ p = ZkProof(e, ch[j])
    BY DEF MadeZk
  <2> QED
    BY <2>1, IndexKept DEF MadeZk
<1> QED
  BY <1>1, <1>2, <1>3

LEMMA JobKept ==
    ASSUME NEW ch, NEW ch2, Grown(ch, ch2), NEW jb
    PROVE  /\ ClaimOnChain(ch, jb) => ClaimOnChain(ch2, jb)
           /\ DataOnChain(ch, jb) => DataOnChain(ch2, jb)
           /\ \A from : ValidityJob(ch, jb, from) => ValidityJob(ch2, jb, from)
           /\ \A from : JobInv(ch, jb, from) => JobInv(ch2, jb, from)
           /\ \A t : \A n \in 0 .. Len(ch) : FreshEnough(ch, jb, n, t) => FreshEnough(ch2, jb, n, t)
<1>1. ClaimOnChain(ch, jb) => ClaimOnChain(ch2, jb)
  BY IndexKept DEF ClaimOnChain
<1>2. DataOnChain(ch, jb) => DataOnChain(ch2, jb)
  BY IndexKept DEF DataOnChain
<1>3. MadeValidity(ch, jb.cred) => MadeValidity(ch2, jb.cred)
  BY HolderKept
<1>4. \A from : ValidityJob(ch, jb, from) => ValidityJob(ch2, jb, from)
  BY <1>1, <1>2, <1>3 DEF ValidityJob
<1>5. \A from : JobInv(ch, jb, from) => JobInv(ch2, jb, from)
  BY <1>1, <1>2, <1>3, <1>4 DEF JobInv
<1>6. ASSUME NEW n \in 0 .. Len(ch), NEW t, FreshEnough(ch, jb, n, t)
      PROVE  FreshEnough(ch2, jb, n, t)
  <2>1. \A i \in 1 .. n : i \in 1 .. Len(ch)
    BY DEF Grown
  <2> QED
    BY <1>6, <2>1, IndexKept DEF FreshEnough
<1> QED
  BY <1>1, <1>2, <1>4, <1>5, <1>6


-----------------------------------------------------------------------------
(* The invariant holds initially and every step keeps it.                  *)

LEMMA InitInv == Init => Inv
BY DEF Init, Inv, ChainInv, HolderInv, VerifierInv, Idxs, RootAlwaysFound, HeldIsConsistent

(* The latest state that the issuer extends is the last one on chain.      *)
LEMMA LatestState ==
    ASSUME ChainInv, Len(chain) # 0
    PROVE  Reg!Latest = chain[Len(chain)].IdenState
<1>1. Len(chain) \in Nat /\ DOMAIN chain = 1 .. Len(chain)
  BY DEF ChainInv
<1>2. States = [i \in 1 .. Len(chain) |-> chain[i].IdenState]
  BY <1>1 DEF States
<1>3. \A i \in 1 .. Len(chain) : chain[i].IdenState \in IdenState
  BY StateType DEF Idxs
<1>4. States \in Seq(IdenState) /\ Len(States) = Len(chain)
  BY ONLY <1>1, <1>2, <1>3
<1>5. States # <<>> /\ States[Len(States)] = chain[Len(chain)].IdenState
  BY ONLY <1>1, <1>2, <1>4, Len(chain) # 0
<1> QED
  BY <1>5 DEF Reg!Latest

LEMMA PublishChain ==
    ASSUME ChainInv, NEW s, Publish(s)
    PROVE  ChainInv' /\ Grown(chain, chain')
<1> DEFINE d == [BlockTs |-> now, BlockN |-> block + 1, IdenState |-> s]
           n == Len(chain)
<1>1. /\ chain \in Seq(IdenStateData) /\ now \in Nat /\ block \in Nat
      /\ n \in Nat
  BY DEF ChainInv
<1>2. s \in IdenState /\ (n # 0 => Extends(chain[n].IdenState, s))
  BY LatestState DEF Publish, Reg!Publish, Reg!IdenState, Reg!Entries, Reg!Nonces, IdenState,
     Entries, Nonces, Reg!ExtendsBut, NoLeaves, Extends
<1>3. d \in IdenStateData
  BY <1>1, <1>2 DEF IdenStateData
<1>4. chain' = Append(chain, d) /\ now' = now /\ block' = block + 1
  BY DEF Publish
<1> HIDE DEF d
<1>5. /\ chain' \in Seq(IdenStateData) /\ Len(chain') = n + 1
      /\ chain'[n + 1] = d
      /\ \A i \in 1 .. n : chain'[i] = chain[i]
  BY <1>1, <1>3, <1>4
<1>6. d.BlockTs = now /\ d.BlockN = block + 1 /\ d.IdenState = s
  BY DEF d
<1>7. \A i \in 1 .. n : /\ chain[i].BlockN \in Nat /\ chain[i].BlockTs \in Nat
                        /\ chain[i].BlockN <= block /\ chain[i].BlockTs <= now
                        /\ Extends(chain[i].IdenState, s)
  <2> SUFFICES ASSUME NEW i \in 1 .. n
               PROVE  /\ chain[i].BlockN \in Nat /\ chain[i].BlockTs \in Nat
                      /\ chain[i].BlockN <= block /\ chain[i].BlockTs <= now
                      /\ Extends(chain[i].IdenState, s)
    OBVIOUS
  <2>1. n \in Idxs /\ i <= n /\ n # 0
    BY <1>1 DEF Idxs
  <2>2. Extends(chain[i].IdenState, chain[n].IdenState)
    BY <2>1, LaterExtends DEF Idxs
  <2>3. Extends(chain[i].IdenState, s)
    BY <1>2, <2>1, <2>2 DEF Extends
  <2> QED
    BY <2>3, StateType DEF ChainInv, Idxs
<1>8. \A i \in 1 .. n + 1 : i \in 1 .. n \/ i = n + 1
  BY <1>1
<1>9. \A i \in Idxs' : chain'[i].BlockN <= block' /\ chain'[i].BlockTs <= now'
  <2> SUFFICES ASSUME NEW i \in 1 .. n + 1
               PROVE  chain'[i].BlockN <= block + 1 /\ chain'[i].BlockTs <= now
    BY <1>4, <1>5 DEF Idxs
  <2>1. CASE i = n + 1
    BY <1>1, <1>5, <1>6, <2>1
  <2>2. CASE i \in 1 .. n
    BY <1>1, <1>5, <1>7, <2>2
  <2> QED
    BY <1>8, <2>1, <2>2
<1>10. ASSUME NEW i \in Idxs', NEW j \in Idxs', i < j
       PROVE  /\ chain'[i].BlockN < chain'[j].BlockN
              /\ chain'[i].BlockTs <= chain'[j].BlockTs
              /\ Extends(chain'[i].IdenState, chain'[j].IdenState)
  <2>1. i \in 1 .. n
    BY <1>1, <1>5, <1>10 DEF Idxs
  <2>2. CASE j = n + 1
    <3>1. chain'[i] = chain[i] /\ chain'[j] = d
      BY <1>5, <2>1, <2>2
    <3>2. /\ chain[i].BlockN \in Nat /\ chain[i].BlockN <= block /\ chain[i].BlockTs <= now
          /\ Extends(chain[i].IdenState, s)
      BY <1>7, <2>1
    <3> QED
      BY <1>1, <1>6, <3>1, <3>2
  <2>3. CASE j \in 1 .. n
    BY <1>5, <1>10, <2>1, <2>3 DEF ChainInv, Idxs
  <2>4. j \in 1 .. n + 1
    BY <1>5 DEF Idxs
  <2> QED
    BY <1>8, <2>2, <2>3, <2>4
<1>11. ChainInv'
  <2>1. now' \in Nat /\ block' \in Nat
    BY <1>1, <1>4
  <2>2. \A i, j \in Idxs' : i < j =>
           /\ chain'[i].BlockN < chain'[j].BlockN
           /\ chain'[i].BlockTs <= chain'[j].BlockTs
           /\ Extends(chain'[i].IdenState, chain'[j].IdenState)
    BY <1>10
  <2> HIDE DEF n
  <2> QED
    BY <1>5, <1>9, <2>1, <2>2 DEF ChainInv
<1>12. Grown(chain, chain')
  BY <1>1, <1>5 DEF Grown
<1> QED
  BY <1>11, <1>12

LEMMA ChainKept ==
    ASSUME ChainInv, chain' = chain, block' = block, now' = now \/ now' = now + 1
    PROVE  ChainInv' /\ Grown(chain, chain')
<1>1. now \in Nat /\ Len(chain) \in Nat
  BY DEF ChainInv
<1>2. now' \in Nat /\ now <= now'
  BY <1>1
<1>3. \A i \in Idxs : chain[i].BlockTs <= now'
  <2> SUFFICES ASSUME NEW i \in Idxs
               PROVE  chain[i].BlockTs <= now'
    OBVIOUS
  <2>1. chain[i].BlockTs \in Nat /\ chain[i].BlockTs <= now
    BY StateType DEF ChainInv
  <2> QED
    BY <1>1, <1>2, <2>1
<1>4. ChainInv'
  BY <1>2, <1>3 DEF ChainInv, Idxs
<1> QED
  BY <1>1, <1>4 DEF Grown

(* A step of the chain leaves the holder and the verifier with what they   *)
(* had, and it still means the same.                                       *)
LEMMA ChainStepInv == Inv /\ ChainStep => Inv'
<1> SUFFICES ASSUME Inv, ChainStep
             PROVE  Inv'
  OBVIOUS
<1>1. ChainInv /\ HolderInv /\ VerifierInv
  BY DEF Inv
<1>2. UNCHANGED <<holder, verifier>>
  BY DEF ChainStep, Publish, Tick
<1>3. ChainInv' /\ Grown(chain, chain')
  BY <1>1, PublishChain, ChainKept DEF ChainStep, Tick
<1>4. HolderInv'
  BY <1>1, <1>2, <1>3, HolderKept DEF HolderInv, holder, RootAlwaysFound
<1>5. VerifierInv'
  <2>1. asked' \in 0 .. Len(chain')
    BY <1>1, <1>2, <1>3 DEF VerifierInv, Grown, verifier
  <2> QED
    BY <1>1, <1>2, <1>3, <2>1, JobKept DEF VerifierInv, HeldIsConsistent, verifier
<1> QED
  BY <1>3, <1>4, <1>5 DEF Inv


(* A step of the holder's leaves the verifier alone, and one of the        *)
(* verifier's the holder.                                                  *)
LEMMA VerifierKept ==
    ASSUME VerifierInv, UNCHANGED <<chain, verifier>>
    PROVE  VerifierInv'
BY DEF VerifierInv, HeldIsConsistent, verifier

LEMMA HolderUnchanged ==
    ASSUME HolderInv, UNCHANGED <<chain, holder>>
    PROVE  HolderInv'
BY DEF HolderInv, RootAlwaysFound, holder

LEMMA HolderGetStateInv == ChainInv /\ HolderInv /\ HolderGetState => HolderInv'
<1> SUFFICES ASSUME ChainInv, HolderInv, HolderGetState
             PROVE  HolderInv'
  OBVIOUS
<1>1. Len(chain) \in Nat /\ DOMAIN chain = Idxs
  BY DEF ChainInv, Idxs
<1>2. PICK p \in Entries \X {chain[i] : i \in Idxs} :
         /\ p[1] \in p[2].IdenState.clr
         /\ p[2].IdenState.clr \in p[2].IdenState.ror
         /\ hExist' = CredentialExistence(p[1], p[2])
  BY <1>1 DEF HolderGetState, IssuedCredentials
<1>3. PICK i \in Idxs : p[2] = chain[i]
  BY <1>2
<1>4. p[1] \in Entries
  BY <1>2
<1>5. Len(chain) \in 1 .. Len(chain) /\ i \in 1 .. Len(chain) /\ i <= Len(chain)
  BY <1>1, <1>3 DEF Idxs
<1>6. /\ hData' = chain[Len(chain)] /\ chain' = chain /\ held' = held
      /\ hResult' = "none"
  BY DEF HolderGetState, GetState
<1>7. Collected(chain, hExist', hData', p[1], i, Len(chain))
  BY <1>2, <1>3, <1>5, <1>6 DEF Collected
<1>8. Collecting(chain, hExist', hData')
  BY <1>4, <1>5, <1>7 DEF Collecting
<1> QED
  BY <1>6, <1>8 DEF HolderInv, RootAlwaysFound

(* The claims root of a collected credential is among the roots of the     *)
(* state that was read after it.                                           *)
LEMMA CircuitAlwaysAccepts ==
    ASSUME ChainInv, NEW x, NEW d, Collecting(chain, x, d)
    PROVE  CircuitAccepts(x, d.IdenState)
<1>1. PICK e \in Entries, i \in Idxs, j \in Idxs : Collected(chain, x, d, e, i, j)
  BY DEF Collecting, Idxs
<1>2. /\ x.Claim = e
      /\ x.MtpClaim = [Existence |-> TRUE, root |-> chain[i].IdenState.clr]
  BY <1>1 DEF Collected, CredentialExistence
<1>3. RootFromProof(x.MtpClaim, x.Claim) = chain[i].IdenState.clr
  BY <1>1, <1>2 DEF RootFromProof, Collected
<1>4. chain[i].IdenState.ror \subseteq chain[j].IdenState.ror
  BY <1>1, LaterExtends DEF Collected, Extends
<1> QED
  BY <1>1, <1>3, <1>4 DEF CircuitAccepts, Collected

LEMMA HolderGotDataInv ==
    ASSUME ChainInv, HolderInv, NEW s, NEW made, NEW r, HolderGotData(s, made, r),
           \/ held = made
           \/ (s = hData.IdenState /\ hExist.Claim.nonce \notin s.rer) =>
                 (MadeValidity(chain, made) \/ MadeZk(chain, made)),
           s = hData.IdenState => r # "rootnotfound"
    PROVE  HolderInv'
BY DEF HolderGotData, HolderInv, RootAlwaysFound, NonceRevoked

LEMMA HolderStepInv == ChainInv /\ HolderInv /\ HolderStep => HolderInv'
<1> SUFFICES ASSUME ChainInv, HolderInv, HolderStep
             PROVE  HolderInv'
  OBVIOUS
<1>1. CASE HolderGetState
  BY <1>1, HolderGetStateInv
<1>2. ASSUME NEW s, HolderGetCredentialValidity(s)
      PROVE  HolderInv'
  <2> DEFINE made == [kind |-> "validity", CredentialExistence |-> hExist, IdenStateData |-> hData,
                      MtpNotNonce |-> [Existence |-> FALSE, root |-> s.rer],
                      ClaimsTreeRoot |-> s.clr, RootsTreeRoot |-> s.ror]
  <2>1. HolderGotData(s, made, "ok") /\ hpc = "data"
    BY <1>2 DEF HolderGetCredentialValidity, HolderGotData
  <2>2. ASSUME s = hData.IdenState, hExist.Claim.nonce \notin s.rer
        PROVE  MadeValidity(chain, made)
    <3>1. PICK e \in Entries, i \in 1 .. Len(chain), j \in 1 .. Len(chain) :
             Collected(chain, hExist, hData, e, i, j)
      BY <2>1 DEF HolderInv, Collecting
    <3>2. hExist.Claim = e
      BY <3>1 DEF Collected, CredentialExistence
    <3>3. made = Validity(e, chain[i], chain[j])
      BY <2>2, <3>1 DEF Validity, Collected
    <3> QED
      BY <2>2, <3>1, <3>2, <3>3 DEF MadeValidity, Collected
  <2> HIDE DEF made
  <2> QED
    BY <2>1, <2>2, HolderGotDataInv
<1>3. ASSUME NEW s, HolderGenZkProofCredential(s)
      PROVE  HolderInv'
  <2> DEFINE made == [kind |-> "zk", Claim |-> hExist.Claim,
                      IdenState |-> hData.IdenState, BlockN |-> hData.BlockN]
  <2>1. /\ hpc = "data"
        /\ \/ HolderGotData(s, made, "ok")
           \/ /\ ~CircuitAccepts(hExist, s)
              /\ HolderGotData(s, held, "rootnotfound")
    BY <1>3 DEF HolderGenZkProofCredential
  <2>2. Collecting(chain, hExist, hData)
    BY <2>1 DEF HolderInv
  <2>3. ASSUME s = hData.IdenState, hExist.Claim.nonce \notin s.rer
        PROVE  MadeZk(chain, made)
    <3>1. PICK e \in Entries, i \in Idxs, j \in Idxs : Collected(chain, hExist, hData, e, i, j)
      BY <2>2 DEF Collecting, Idxs
    <3>2. hExist.Claim = e
      BY <3>1 DEF Collected, CredentialExistence
    <3>3. made = ZkProof(e, chain[j])
      BY <3>1, <3>2 DEF ZkProof, Collected
    <3>4. e \in chain[j].IdenState.clr
      BY <3>1, LaterExtends DEF Extends, Collected
    <3>5. e.nonce \notin chain[j].IdenState.rer
      BY <2>3, <3>1, <3>2 DEF Collected
    <3> QED
      BY <3>3, <3>4, <3>5 DEF MadeZk, Idxs
  <2> HIDE DEF made
  <2>4. CASE HolderGotData(s, made, "ok")
    BY <2>3, <2>4, HolderGotDataInv
  <2>5. CASE ~CircuitAccepts(hExist, s) /\ HolderGotData(s, held, "rootnotfound")
    <3>1. s # hData.IdenState
      BY <2>2, <2>5, CircuitAlwaysAccepts
    <3> QED
      BY <2>5, <3>1, HolderGotDataInv
  <2> QED
    BY <2>1, <2>4, <2>5
<1>4. CASE HolderNoAnswer
  BY <1>4 DEF HolderNoAnswer, HolderInv, RootAlwaysFound
<1> QED
  BY <1>1, <1>2, <1>3, <1>4 DEF HolderStep


-----------------------------------------------------------------------------
(* The verifier's calls begin.                                             *)

LEMMA VerifyValidityBeginInv ==
    ASSUME ChainInv, VerifierInv, NEW c, NEW from, VerifyValidityBegin(c, from),
           from = "held" => MadeValidity(chain, c)
    PROVE  VerifierInv'
<1> DEFINE jb == [kind |-> "validity", Claim |-> c.CredentialExistence.Claim,
                  IdenStateData |-> c.IdenStateData, cred |-> c]
<1>1. /\ chain' = chain /\ asked' = Len(chain) /\ source' = from /\ oldest' = oldest
      /\ vpc = "idle"
  BY DEF VerifyValidityBegin
<1>2. asked' \in 0 .. Len(chain') /\ oldest' \in Int
  BY <1>1 DEF ChainInv, VerifierInv
<1>3. CASE Refuse("expired")
  BY <1>1, <1>2, <1>3 DEF Refuse, VerifierInv, HeldIsConsistent
<1>4. CASE job' = jb /\ vpc' = "exist" /\ UNCHANGED vResult
  <2>1. ValidityJob(chain, jb, from)
    BY DEF ValidityJob
  <2>2. vResult' = "none"
    BY <1>1, <1>4 DEF VerifierInv
  <2> HIDE DEF jb
  <2> QED
    BY <1>1, <1>2, <1>4, <2>1, <2>2 DEF VerifierInv, HeldIsConsistent
<1> QED
  BY <1>3, <1>4 DEF VerifyValidityBegin

LEMMA VerifyZkBeginInv ==
    ASSUME ChainInv, VerifierInv, NEW p, NEW blockN, NEW from, VerifyZkBegin(p, blockN, from),
           MadeZk(chain, p), from = "held" => blockN = p.BlockN
    PROVE  VerifierInv'
<1>1. /\ chain' = chain /\ asked' = Len(chain) /\ source' = from /\ oldest' = oldest
      /\ vpc = "idle"
  BY DEF VerifyZkBegin
<1>2. asked' \in 0 .. Len(chain') /\ oldest' \in Int
  BY <1>1 DEF ChainInv, VerifierInv
<1>3. PICK e \in Entries, j \in Idxs :
         /\ e \in chain[j].IdenState.clr
         /\ e.nonce \notin chain[j].IdenState.rer
         /\ p.Claim = e /\ p.IdenState = chain[j].IdenState /\ p.BlockN = chain[j].BlockN
  BY DEF MadeZk, ZkProof, Idxs
<1>4. from = "held" => GetStateByBlock(blockN) = {chain[j]}
  BY <1>3, ByBlock
<1>5. ASSUME NEW r, Refuse(r), r # "accepted", from # "held"
      PROVE  VerifierInv'
  BY <1>1, <1>2, <1>5 DEF Refuse, VerifierInv, HeldIsConsistent
<1>6. ASSUME NEW d \in GetStateByBlock(blockN), d.IdenState = p.IdenState,
             job' = [kind |-> "zk", Claim |-> p.Claim, IdenStateData |-> d, cred |-> None],
             vpc' = "fresh", UNCHANGED vResult
      PROVE  VerifierInv'
  <2> DEFINE jb == [kind |-> "zk", Claim |-> p.Claim, IdenStateData |-> d, cred |-> None]
  <2>1. PICK k \in Idxs : d = chain[k]
    BY <1>6, ByBlock
  <2>2. jb.kind = "zk" /\ jb.Claim = e /\ jb.IdenStateData = chain[k]
    BY <1>3, <2>1
  <2>3. job' = jb
    BY <1>6
  <2> HIDE DEF jb
  <2>4. chain[k].IdenState = chain[j].IdenState
    BY <1>3, <1>6, <2>1
  <2>5. JobInv(chain, jb, from)
    BY <1>3, <2>2, <2>4 DEF JobInv, ClaimOnChain, DataOnChain, Idxs
  <2>6. vResult' = "none"
    BY <1>1, <1>6 DEF VerifierInv
  <2> QED
    BY <1>1, <1>2, <1>6, <2>3, <2>5, <2>6 DEF VerifierInv, HeldIsConsistent
<1>7. CASE GetStateByBlock(blockN) = {} /\ Refuse("notfound")
  BY <1>4, <1>5, <1>7
<1>8. ASSUME NEW d \in GetStateByBlock(blockN), d.IdenState # p.IdenState, Refuse("onchain")
      PROVE  VerifierInv'
  BY <1>3, <1>4, <1>5, <1>8
<1> QED
  BY <1>6, <1>7, <1>8 DEF VerifyZkBegin

-----------------------------------------------------------------------------
(* The verifier's steps.                                                   *)

LEMMA VerifyExistenceInv == ChainInv /\ VerifierInv /\ VerifyExistence => VerifierInv'
<1> SUFFICES ASSUME ChainInv, VerifierInv, VerifyExistence
             PROVE  VerifierInv'
  OBVIOUS
<1> DEFINE x == job.cred.CredentialExistence
           r == VerifyCredentialExistence(x)
<1>1. /\ UNCHANGED <<chain, source, asked, oldest>> /\ vpc = "exist"
      /\ ValidityJob(chain, job, source) /\ vResult = "none"
      /\ asked \in 0 .. Len(chain) /\ oldest \in Int
  BY DEF VerifyExistence, VerifierInv
<1>2. r # "accepted"
  BY DEF VerifyCredentialExistence
<1>3. source = "held" => r = "ok" /\ ~job.cred.MtpNotNonce.Existence
  BY <1>1, MadeVerifies DEF ValidityJob
<1>4. \/ r # "ok" /\ Refuse(r)
      \/ job.cred.MtpNotNonce.Existence /\ Refuse("existence")
      \/ /\ r = "ok" /\ ~job.cred.MtpNotNonce.Existence
         /\ vpc' = "fresh" /\ UNCHANGED <<job, vResult>>
  BY DEF VerifyExistence
<1>5. r = "ok" => ClaimOnChain(chain, job)
  BY <1>1, ExistenceVerified DEF ClaimOnChain, ValidityJob, Idxs
<1> HIDE DEF r, x
<1>6. CASE r # "ok" /\ Refuse(r)
  BY <1>1, <1>2, <1>3, <1>6 DEF Refuse, VerifierInv, HeldIsConsistent
<1>7. CASE job.cred.MtpNotNonce.Existence /\ Refuse("existence")
  BY <1>1, <1>3, <1>7 DEF Refuse, VerifierInv, HeldIsConsistent
<1>8. CASE /\ r = "ok" /\ ~job.cred.MtpNotNonce.Existence
           /\ vpc' = "fresh" /\ UNCHANGED <<job, vResult>>
  <2>1. JobInv(chain, job, source)
    BY <1>1, <1>5, <1>8 DEF JobInv
  <2> QED
    BY <1>1, <1>8, <2>1 DEF VerifierInv, HeldIsConsistent
<1> QED
  BY <1>4, <1>6, <1>7, <1>8

LEMMA AfterFreshnessInv ==
    ASSUME ChainInv, VerifierInv, vpc \in {"fresh", "last"}, AfterFreshness,
           UNCHANGED <<chain, source, asked>>, oldest' \in Int,
           FreshEnough(chain, job, asked, oldest')
    PROVE  VerifierInv'
<1>1. /\ JobInv(chain, job, source) /\ vResult = "none"
      /\ asked' \in 0 .. Len(chain')
  BY DEF VerifierInv
<1>2. ClaimOnChain(chain, job)
  BY <1>1 DEF JobInv
<1>3. CASE job.kind = "validity" /\ vpc' = "link" /\ UNCHANGED <<job, vResult>>
  BY <1>1, <1>3 DEF VerifierInv, HeldIsConsistent
<1>4. CASE job.kind = "zk" /\ Accept
  <2>1. DataOnChain(chain, job)
    BY <1>1, <1>4 DEF JobInv, ValidityJob
  <2> QED
    BY <1>1, <1>2, <1>4, <2>1 DEF VerifierInv, HeldIsConsistent, Accept
<1> QED
  BY <1>3, <1>4 DEF AfterFreshness

LEMMA ReadClockInv == ChainInv /\ VerifierInv /\ ReadClock => VerifierInv'
<1> SUFFICES ASSUME ChainInv, VerifierInv, ReadClock
             PROVE  VerifierInv'
  OBVIOUS
<1>1. /\ UNCHANGED <<chain, source, asked>> /\ vpc = "fresh" /\ oldest' = now - Freshness
      /\ JobInv(chain, job, source) /\ vResult = "none"
  BY DEF ReadClock, VerifierInv
<1>2. oldest' \in Int
  BY <1>1, VerificationAssumption DEF VerificationAssumption, ChainInv
<1>3. CASE vpc' = "last" /\ UNCHANGED <<job, vResult>>
  BY <1>1, <1>2, <1>3 DEF VerifierInv, HeldIsConsistent
<1>4. CASE ~TooOld(job.IdenStateData.BlockTs, oldest') /\ AfterFreshness
  <2>1. FreshEnough(chain, job, asked, oldest')
    BY <1>4 DEF TooOld, FreshEnough
  <2> QED
    BY <1>1, <1>2, <1>4, <2>1, AfterFreshnessInv
<1> QED
  BY <1>3, <1>4 DEF ReadClock

LEMMA ReadLastInv == ChainInv /\ VerifierInv /\ ReadLast => VerifierInv'
<1> SUFFICES ASSUME ChainInv, VerifierInv, ReadLast
             PROVE  VerifierInv'
  OBVIOUS
<1>1. /\ UNCHANGED <<chain, source, asked>> /\ vpc = "last" /\ oldest' = oldest
      /\ asked \in 0 .. Len(chain) /\ oldest \in Int
      /\ JobInv(chain, job, source)
  BY DEF ReadLast, VerifierInv
<1>2. CASE Refuse("outdated")
  BY <1>1, <1>2 DEF Refuse, VerifierInv, HeldIsConsistent
<1>3. CASE GetState.IdenState = job.IdenStateData.IdenState /\ AfterFreshness
  <2>1. Len(chain) \in Nat
    BY DEF ChainInv
  <2>2. \A i \in 1 .. asked : i \in Idxs /\ Len(chain) \in Idxs /\ i <= Len(chain)
    BY <1>1, <2>1 DEF Idxs
  <2>3. \A i \in 1 .. asked : chain[i].IdenState.rer \subseteq chain[Len(chain)].IdenState.rer
    BY <2>2, LaterExtends DEF Extends
  <2>4. FreshEnough(chain, job, asked, oldest')
    BY <1>3, <2>3 DEF FreshEnough, GetState
  <2> QED
    BY <1>1, <1>3, <2>4, AfterFreshnessInv
<1> QED
  BY <1>2, <1>3 DEF ReadLast

LEMMA VerifyLinkInv == ChainInv /\ VerifierInv /\ VerifyLink => VerifierInv'
<1> SUFFICES ASSUME ChainInv, VerifierInv, VerifyLink
             PROVE  VerifierInv'
  OBVIOUS
<1>1. /\ UNCHANGED <<chain, source, asked, oldest>> /\ vpc = "link"
      /\ JobInv(chain, job, source) /\ job.kind = "validity"
      /\ FreshEnough(chain, job, asked, oldest)
  BY DEF VerifyLink, VerifierInv
<1>2. /\ ClaimOnChain(chain, job)
      /\ job.Claim = job.cred.CredentialExistence.Claim
      /\ job.IdenStateData = job.cred.IdenStateData
      /\ ~job.cred.MtpNotNonce.Existence
      /\ source = "held" => MadeValidity(chain, job.cred)
  BY <1>1 DEF JobInv, ValidityJob
<1>3. CASE LinkResult(job.cred) = "ok" /\ Accept
  <2>1. DataOnChain(chain, job)
    BY <1>2, <1>3, LinkVerified DEF DataOnChain, Idxs
  <2> QED
    BY <1>1, <1>2, <1>3, <2>1 DEF VerifierInv, HeldIsConsistent, Accept
<1>4. CASE LinkResult(job.cred) # "ok" /\ Refuse(LinkResult(job.cred))
  <2>1. source # "held"
    BY <1>2, <1>4, MadeVerifies
  <2>2. LinkResult(job.cred) # "accepted"
    BY DEF LinkResult
  <2> QED
    BY <1>1, <1>4, <2>1, <2>2 DEF Refuse, VerifierInv, HeldIsConsistent
<1> QED
  BY <1>3, <1>4 DEF VerifyLink

LEMMA VerifierReturnInv == ChainInv /\ VerifierReturn => VerifierInv'
BY DEF ChainInv, VerifierReturn, VerifierInv, HeldIsConsistent

-----------------------------------------------------------------------------
LEMMA NextInv == Inv /\ [Next]_vars => Inv'
<1> SUFFICES ASSUME Inv, [Next]_vars
             PROVE  Inv'
  OBVIOUS
<1>1. ChainInv /\ HolderInv /\ VerifierInv
  BY DEF Inv
<1>2. CASE ChainStep
  BY <1>2, ChainStepInv
<1>3. CASE HolderStep
  <2>1. UNCHANGED <<chain, now, block, verifier>>
    BY <1>3 DEF HolderStep, HolderGetState, HolderGetCredentialValidity,
       HolderGenZkProofCredential, HolderGotData, HolderNoAnswer
  <2> QED
    BY <1>1, <1>3, <2>1, ChainKept, HolderStepInv, VerifierKept DEF Inv
<1>4. ASSUME UNCHANGED <<chain, now, block, holder>>, VerifierInv'
      PROVE  Inv'
  BY <1>1, <1>4, ChainKept, HolderUnchanged DEF Inv
<1>5. CASE VerifyHanded
  <2>1. PICK c : VerifyValidityBegin(c, "handed")
    BY <1>5 DEF VerifyHanded
  <2>2. UNCHANGED <<chain, now, block, holder>>
    BY <2>1 DEF VerifyValidityBegin
  <2> QED
    BY <1>1, <1>4, <2>1, <2>2, VerifyValidityBeginInv
<1>6. CASE VerifyHeld
  <2>1. /\ VerifyValidityBegin(held, "held")
        /\ UNCHANGED <<chain, now, block, holder>>
    BY <1>6 DEF VerifyHeld, VerifyValidityBegin
  <2>2. MadeValidity(chain, held)
    BY <1>1, <1>6 DEF VerifyHeld, HolderInv, MadeZk, ZkProof
  <2> QED
    BY <1>1, <1>4, <2>1, <2>2, VerifyValidityBeginInv
<1>7. CASE VerifyZkHeld
  <2>1. PICK blockN, from : /\ VerifyZkBegin(held, blockN, from)
                            /\ from = "held" => blockN = held.BlockN
    BY <1>7 DEF VerifyZkHeld
  <2>2. UNCHANGED <<chain, now, block, holder>>
    BY <2>1 DEF VerifyZkBegin
  <2>3. MadeZk(chain, held)
    BY <1>1, <1>7 DEF VerifyZkHeld, HolderInv, MadeValidity, Validity
  <2> QED
    BY <1>1, <1>4, <2>1, <2>2, <2>3, VerifyZkBeginInv
<1>8. CASE VerifierStep
  <2>1. UNCHANGED <<chain, now, block, holder>>
    BY <1>8 DEF VerifierStep, VerifyExistence, ReadClock, ReadLast, VerifyLink, VerifierReturn
  <2>2. VerifierInv'
    BY <1>1, <1>8, VerifyExistenceInv, ReadClockInv, ReadLastInv, VerifyLinkInv, VerifierReturnInv DEF VerifierStep
  <2> QED
    BY <1>4, <2>1, <2>2
<1>9. CASE UNCHANGED vars
  <2>1. UNCHANGED <<chain, now, block, holder, verifier>>
    BY <1>9 DEF vars
  <2> QED
    BY <1>1, <1>4, <2>1, VerifierKept
<1> QED
  BY <1>2, <1>3, <1>5, <1>6, <1>7, <1>8, <1>9 DEF Next

(* The reachable states relate the chain, the holder's credentials and the *)
(* verifier's job as Inv says.                                             *)
THEOREM Invariance == Spec => []Inv
<1> QED
  BY InitInv, NextInv, PTL DEF Spec

(* Whatever parts a verifier is handed, and however the chain moves while  *)
(* it verifies them, a claim that VerifyCredentialValidity or              *)
(* VerifyZkProofCredential accepts was not revoked in any state that was   *)
(* on chain at the call and is older than the freshness asked for.         *)
THEOREM AcceptsOnlyFresh == Spec => []AcceptedIsFresh
<1>1. Inv => AcceptedIsFresh
  <2> SUFFICES ASSUME ChainInv, VerifierInv, vResult = "accepted",
                      NEW i \in 1 .. asked, chain[i].BlockTs <= oldest
               PROVE  job.Claim.nonce \notin chain[i].IdenState.rer
    BY DEF Inv, AcceptedIsFresh
  <2>1. /\ DataOnChain(chain, job) /\ FreshEnough(chain, job, asked, oldest)
        /\ asked \in 0 .. Len(chain) /\ oldest \in Int /\ Len(chain) \in Nat
    BY DEF VerifierInv, ChainInv
  <2>2. PICK k \in Idxs : /\ job.IdenStateData = chain[k]
                          /\ job.Claim.nonce \notin chain[k].IdenState.rer
    BY <2>1 DEF DataOnChain, Idxs
  <2>3. i \in Idxs
    BY <2>1 DEF Idxs
  <2>4. CASE oldest < chain[k].BlockTs
    <3>1. ~(k < i)
      <4> SUFFICES ASSUME k < i
                   PROVE  FALSE
        OBVIOUS
      <4>1. chain[k].BlockTs <= chain[i].BlockTs
        BY <2>3 DEF ChainInv
      <4>2. chain[k].BlockTs \in Nat /\ chain[i].BlockTs \in Nat
        BY <2>3, StateType
      <4> QED
        BY <2>1, <2>4, <4>1, <4>2
    <3>2. i <= k
      BY <2>3, <3>1 DEF Idxs
    <3> QED
      BY <2>2, <2>3, <3>2, LaterExtends DEF Extends
  <2>5. CASE \A m \in 1 .. asked : chain[m].IdenState.rer \subseteq chain[k].IdenState.rer
    BY <2>2, <2>5
  <2> QED
    BY <2>1, <2>2, <2>4, <2>5 DEF FreshEnough
<1> QED
  BY Invariance, <1>1, PTL

(* An accepted claim is in a claims tree that the issuer has on chain.     *)
THEOREM AcceptsOnlyIssued == Spec => []AcceptedIsIssued
<1>1. Inv => AcceptedIsIssued
  BY DEF Inv, VerifierInv, ChainInv, ClaimOnChain, AcceptedIsIssued
<1> QED
  BY Invariance, <1>1, PTL

(* What a holder made is refused only as expired or as outdated.           *)
THEOREM HolderIsConsistent == Spec => []HeldIsConsistent
<1>1. Inv => HeldIsConsistent
  BY DEF Inv, VerifierInv
<1> QED
  BY Invariance, <1>1, PTL

(* The proof inputs never fail with ErrRootNotFound.                       *)
THEOREM HolderFindsRoot == Spec => []RootAlwaysFound
<1>1. Inv => RootAlwaysFound
  BY DEF Inv, HolderInv
<1> QED
  BY Invariance, <1>1, PTL

=============================================================================
