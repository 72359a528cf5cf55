---------------------------- MODULE IssuerProofs ----------------------------
(***************************************************************************)
(* Proofs, for every set of claims, every nonce limit, every number of     *)
(* confirmations and every number of crashes and failed calls, of the      *)
(* safety properties of Issuer.                                            *)
(***************************************************************************)
EXTENDS IssuerInv, TLAPS

USE DEF Nonces

-----------------------------------------------------------------------------
(* The constants.                                                          *)

(* The entries Create stores are entries, with nonces below the first one  *)
(* that IssueClaim hands out, and no two share an index or a nonce.        *)
LEMMA GenesisEntriesFacts ==
    /\ GenesisEntries \subseteq Entries
    /\ \A e \in GenesisEntries : e.nonce < 1 + Len(ExtraGenesisClaims)
    /\ \A e, f \in GenesisEntries : (e.nonce = f.nonce \/ e.hi = f.hi) => e = f
    /\ Len(ExtraGenesisClaims) \in Nat
    /\ MaxNonce \in Nat /\ 0 \in Nonces /\ 1 + Len(ExtraGenesisClaims) \in 0 .. MaxNonce
<1>1. /\ ExtraGenesisClaims \in Seq(Claims)
      /\ Len(ExtraGenesisClaims) \in Nat
      /\ DOMAIN ExtraGenesisClaims = 1 .. Len(ExtraGenesisClaims)
      /\ MaxNonce \in Nat
      /\ Len(ExtraGenesisClaims) < MaxNonce
  BY GenesisAssumption, MaxNonceAssumption
<1>2. \A i \in DOMAIN ExtraGenesisClaims :
         /\ ExtraGenesisClaims[i] \in Claims
         /\ i \in Nonces /\ i > 0 /\ i < 1 + Len(ExtraGenesisClaims)
  BY <1>1
<1>3. GenesisEntries \subseteq Entries
  BY <1>1, <1>2 DEF GenesisEntries, Entries
<1>4. \A e \in GenesisEntries : e.nonce < 1 + Len(ExtraGenesisClaims)
  BY <1>1, <1>2 DEF GenesisEntries
<1>5. \A e, f \in GenesisEntries : (e.nonce = f.nonce \/ e.hi = f.hi) => e = f
  BY <1>1, <1>2, GenesisAssumption DEF GenesisEntries
<1> QED
  BY <1>1, <1>3, <1>4, <1>5

(* The genesis state is a well-formed identity state.                      *)
LEMMA GenesisFacts ==
    /\ GenesisState \in IdenState
    /\ Reg!WellFormed(GenesisState)
    /\ GenesisState.clr = GenesisEntries
    /\ GenesisState.clr \in GenesisState.ror
BY GenesisEntriesFacts DEF GenesisState, IdenState, Reg!WellFormed

(* The registers Create stores have the right type.                        *)
LEMMA ZeroRegistersType == ZeroRegisters \in Registers
BY DEF ZeroRegisters, Registers, MaybeState

(* The state of the trees is an identity state.                            *)
LEMMA StateType ==
    ASSUME TypeOK PROVE State \in IdenState
BY DEF TypeOK, State, StateWith, IdenState

(* A state has all of itself and of what it extends but for lost leaves,   *)
(* whatever else is lost.                                                  *)
LEMMA ExtendsButFacts ==
    /\ \A l, s : ExtendsBut(l, s, s)
    /\ \A l, s, t, u : ExtendsBut(l, s, t) /\ Extends(t, u) => ExtendsBut(l, s, u)
    /\ \A l, m, s, t :
          ExtendsBut(l, s, t) /\ l.clr \subseteq m.clr /\ l.rer \subseteq m.rer =>
              ExtendsBut(m, s, t)
BY DEF Extends, ExtendsBut

(* The setters keep the type of the registers.                             *)
LEMMA RegistersType ==
    ASSUME TypeOK, NEW r \in Registers, NEW b \in BOOLEAN
    PROVE  /\ Adopt(r) \in Registers
           /\ SetPending(r, b) \in Registers
           /\ RecordTx(r) \in Registers
<1>1. ContractState \in MaybeState
  BY DEF TypeOK, ContractState, MaybeState
<1>2. Adopt(r) \in Registers
  BY <1>1 DEF Adopt, Registers, MaybeState
<1>3. SetPending(r, b) \in Registers /\ SetPending(r, TRUE) \in Registers
  BY DEF TypeOK, SetPending, Registers, MaybeState
<1>4. Len(txs) \in Nat
  BY DEF TypeOK
<1>5. RecordTx(r) \in Registers
  BY <1>3, <1>4 DEF RecordTx, Registers
<1> QED
  BY <1>2, <1>3, <1>5

(* What the issuer sends is a transaction.                                 *)
LEMMA NewTransactionType ==
    ASSUME TypeOK PROVE NewTransaction \in Transactions
BY ParamAssumption DEF TypeOK, NewTransaction, Transactions

(* The contract and the chain keep the type of a transaction.              *)
LEMMA TransactionsType ==
    ASSUME NEW tx \in Transactions, NEW st \in {"sent", "ok", "failed"}
    PROVE  /\ [tx EXCEPT !.status = st] \in Transactions
           /\ [tx EXCEPT !.status = st].old = tx.old
           /\ [tx EXCEPT !.status = st].new = tx.new
           /\ Confirmed(tx) \in Transactions
           /\ Confirmed(tx).old = tx.old
           /\ Confirmed(tx).new = tx.new
BY ParamAssumption DEF Transactions, Confirmed

(* A state of the list, counted from its end.                              *)
LEMMA FromEndType ==
    ASSUME TypeOK, NEW n \in Nat, 1 <= n, n <= Len(idenStateList)
    PROVE  /\ FromEnd(n) \in IdenState
           /\ Len(idenStateList) + 1 - n \in DOMAIN idenStateList
BY DEF TypeOK, FromEnd

(* What Sync returns without taking over a state.                          *)
LEMMA SyncOutcomeType ==
    ASSUME NEW r PROVE SyncOutcome(r) \in Results \cup {"adopt"}
BY DEF SyncOutcome, Results

(* One more fault is within the bound.                                     *)
LEMMA FaultsType ==
    ASSUME TypeOK, UNCHANGED faults \/ Fault 
    PROVE  faults' \in 0 .. MaxFaults /\ (faults' = 0 => faults = 0)
BY ParamAssumption DEF TypeOK, Fault

(* What Append does to a sequence.                                         *)
LEMMA AppendFacts ==
    ASSUME NEW S, NEW s \in Seq(S), NEW x \in S
    PROVE  /\ Append(s, x) \in Seq(S)
           /\ Len(s) \in Nat
           /\ Len(Append(s, x)) = Len(s) + 1
OBVIOUS

(* A method runs only on an identity that was created.                     *)
LEMMA MethodsNeedCreate ==
    ASSUME IndInv, up \/ pc \in Publishing \cup {"issue"}
    PROVE  created = "yes" /\ Len(idenStateList) \in Nat /\ Len(idenStateList) >= 1
BY DEF IndInv, TypeOK, ControlInv, Publishing

(* The entries of the states of the list and of what was lost have nonces. *)
LEMMA ListedEntries ==
    ASSUME TypeOK
    PROVE  /\ \A e \in Entries : e.nonce \in Nat
           /\ lost.clr \subseteq Entries
           /\ \A i \in DOMAIN idenStateList : idenStateList[i].clr \subseteq Entries
<1>1. \A e \in Entries : e.nonce \in Nat
  BY MaxNonceAssumption DEF Entries
<1>2. lost.clr \subseteq Entries
  BY DEF TypeOK, Leaves
<1>3. \A i \in DOMAIN idenStateList : idenStateList[i] \in IdenState
  BY DEF TypeOK
<1>4. \A s \in IdenState : s.clr \subseteq Entries
  BY DEF IdenState
<1> QED
  BY <1>1, <1>2, <1>3, <1>4

(* PublishState goes on only from roots that have their nodes.             *)
LEMMA PublishingReads ==
    ASSUME IndInv, pc \in Publishing \/ ~InA(mem) \/ ~up
    PROVE  rootsTree = stored.ror
BY DEF IndInv, StoreInv, RootsReadable, Publishing

(* A step that leaves the trees and the list alone.                        *)
LEMMA TreesKept ==
    ASSUME IndInv, UNCHANGED <<trees, idenStateList, created>>, pc' = "issue" <=> pc = "issue"
    PROVE  /\ UNCHANGED State
           /\ NonceInv' /\ HistoryInv' /\ RootsCoverHistory'
           /\ UNCHANGED txs => TxsInv'
<1> USE DEF IndInv, trees
<1>1. UNCHANGED State
  BY DEF State, StateWith
<1>2. \A n : Used(n)' <=> Used(n)
  BY DEF Used
<1>3. NonceInv'
  BY <1>1, <1>2 DEF NonceInv, Reg!WellFormed
<1>4. HistoryInv' /\ RootsCoverHistory'
  BY DEF HistoryInv, RootsCoverHistory
<1>5. UNCHANGED txs => TxsInv'
  BY DEF TxsInv, Reg!WellFormed
<1> QED
  BY <1>1, <1>3, <1>4, <1>5

(* The same, when no root without nodes is in the way.                     *)
LEMMA StoreKept ==
    ASSUME IndInv, UNCHANGED <<trees, idenStateList>>, faults' = 0 => faults = 0,
           \/ rootsTree = stored.ror
           \/ UNCHANGED mem /\ up' /\ pc' \in {"idle", "issue"}
    PROVE  StoreInv'
<1>1. UNCHANGED State /\ UNCHANGED FromEnd(1)
  BY DEF trees, State, StateWith, FromEnd
<1> QED
  BY <1>1 DEF IndInv, StoreInv, ClaimsReadable, RevocationsReadable, RootsReadable, trees, InA

-----------------------------------------------------------------------------
(* Init establishes the inductive invariant.                               *)
LEMMA InitIndInv == Init => IndInv
<1> SUFFICES ASSUME Init PROVE IndInv
  OBVIOUS
<1> USE DEF Init
<1>1. TypeOK
  <2>1. idenStateList \in Seq(IdenState) /\ txs \in Seq(Transactions) /\ chain \in Seq(IdenState)
    OBVIOUS
  <2>2. nonceIdx \in 0 .. MaxNonce /\ faults \in 0 .. MaxFaults
    BY MaxNonceAssumption, ParamAssumption
  <2>3. revNonce \in [Claims -> Nonces]
    BY GenesisEntriesFacts
  <2>4. stored \in IdenState /\ lost \in Leaves
    BY DEF IdenState, Leaves, NoLeaves
  <2> QED
    BY <2>1, <2>2, <2>3, <2>4, GenesisFacts, ZeroRegistersType, Zenon DEF TypeOK, Results
<1>2. ControlInv
  BY DEF ControlInv, Publishing, State, StateWith
<1>3. NonceInv
  BY DEF NonceInv, State, StateWith, Reg!WellFormed
<1>4. HistoryInv
  BY DEF HistoryInv
<1>5. RootsCoverHistory
  BY DEF RootsCoverHistory
<1>6. PublishInv
  BY DEF PublishInv, Publishing
<1>7. TxsInv
  BY DEF TxsInv
<1>8. PendingIsLastListed
  BY DEF PendingIsLastListed, ZeroRegisters
<1>9. StoreInv
  BY DEF StoreInv, ClaimsReadable, RevocationsReadable, RootsReadable
<1> QED
  BY <1>1, <1>2, <1>3, <1>4, <1>5, <1>6, <1>7, <1>8, <1>9 DEF IndInv

-----------------------------------------------------------------------------
(* Every step preserves it: one lemma for each action.                     *)

(* Create fills the empty trees with the genesis entries.                  *)
LEMMA CreateTreesIndInv == ASSUME IndInv, CreateTrees PROVE IndInv'
<1> USE DEF IndInv, CreateTrees, locals, env
<1>0. claimsTree' = GenesisEntries /\ rootsTree' = {GenesisEntries} /\ revocationsTree' = {}
      /\ idenStateList' = <<>> /\ stored' = GenesisState
      /\ State' = GenesisState
  BY DEF ControlInv, State, StateWith, GenesisState
<1>1. TypeOK'
  <2>1. revNonce' \in [Claims -> Nonces]
    <3>1. DOMAIN ExtraGenesisClaims \subseteq Nonces
      BY GenesisAssumption, MaxNonceAssumption
    <3> QED
      BY <3>1 DEF TypeOK
  <2> QED
    BY <2>1, <1>0, GenesisEntriesFacts, GenesisFacts, ZenonT(30) DEF TypeOK
<1>2. ControlInv'
  BY <1>0 DEF ControlInv, Publishing
<1>3. NonceInv'
  BY <1>0, GenesisEntriesFacts DEF NonceInv, Reg!WellFormed, GenesisState
<1>4. HistoryInv'
  BY <1>0 DEF HistoryInv
<1>5. RootsCoverHistory'
  BY <1>0 DEF RootsCoverHistory
<1>6. PublishInv'
  BY DEF PublishInv, Publishing
<1>7. TxsInv'
  BY DEF TxsInv, ControlInv
<1>8. PendingIsLastListed'
  BY DEF PendingIsLastListed, FromEnd
<1>9. StoreInv'
  BY <1>0 DEF StoreInv, ClaimsReadable, RevocationsReadable, RootsReadable, GenesisState,
     ControlInv, State, StateWith
<1> QED
  BY <1>1, <1>2, <1>3, <1>4, <1>5, <1>6, <1>7, <1>8, <1>9 DEF IndInv

(* Create starts the list with the genesis state.                          *)
LEMMA CreateCommitIndInv == ASSUME IndInv, CreateCommit PROVE IndInv'
<1> USE DEF IndInv, CreateCommit, Return, env
<1>0. /\ State = GenesisState
      /\ claimsTree = GenesisEntries
      /\ State' = State
      /\ idenStateList' = <<GenesisState>>
      /\ DOMAIN idenStateList' = {1}
      /\ idenStateList'[1] = GenesisState
      /\ Len(idenStateList') = 1
      /\ txs = <<>> /\ stored = GenesisState
  BY GenesisFacts DEF ControlInv, TypeOK, State, StateWith, GenesisState
<1>1. TypeOK'
  <2>1. idenStateList' \in Seq(IdenState)
    BY <1>0, GenesisFacts
  <2>2. nonceIdx' \in 0 .. MaxNonce
    BY GenesisEntriesFacts
  <2> QED
    BY <2>1, <2>2, GenesisFacts, ZeroRegistersType, Zenon DEF TypeOK, Results
<1>2. ControlInv'
  BY <1>0, GenesisEntriesFacts DEF ControlInv, Publishing, TypeOK
<1>3. NonceInv'
  <2>1. /\ claimsTree' = GenesisEntries /\ revocationsTree' = {} /\ rootsTree' = {GenesisEntries}
        /\ stored'.clr = GenesisEntries /\ lost' = lost
    BY <1>0 DEF State, StateWith, GenesisState
  <2>2. Reg!WellFormed(State)'
    BY <1>0, GenesisFacts DEF Reg!WellFormed
  <2>3. lost = NoLeaves
    BY DEF ControlInv
  <2>4. \A e \in GenesisEntries : Used(e.nonce)'
    BY GenesisEntriesFacts DEF Used
  <2> QED
    BY <1>0, <2>1, <2>2, <2>3, <2>4, GenesisFacts DEF NonceInv, NoLeaves
<1>4. HistoryInv'
  BY <1>0, ExtendsButFacts DEF HistoryInv
<1>5. RootsCoverHistory'
  BY <1>0, GenesisFacts DEF RootsCoverHistory
<1>6. PublishInv'
  BY DEF PublishInv, Publishing
<1>7. TxsInv'
  BY <1>0 DEF TxsInv
<1>8. PendingIsLastListed'
  BY DEF PendingIsLastListed, ZeroRegisters
<1>9. StoreInv'
  BY <1>0 DEF StoreInv, ClaimsReadable, RevocationsReadable, RootsReadable, GenesisState,
     State, StateWith
<1> QED
  BY <1>1, <1>2, <1>3, <1>4, <1>5, <1>6, <1>7, <1>8, <1>9 DEF IndInv

(* A second Create changes nothing.                                        *)
LEMMA CreateAgainIndInv == ASSUME IndInv, CreateAgain PROVE IndInv'
<1> USE DEF IndInv, CreateAgain, Return, trees, env
<1>1. TypeOK'
  BY GenesisFacts DEF TypeOK, Results
<1>2. ControlInv'
  BY DEF ControlInv, Publishing, State, StateWith
<1>3. NonceInv' /\ HistoryInv' /\ RootsCoverHistory'
  BY TreesKept
<1>4. StoreInv'
  BY StoreKept, PublishingReads DEF ControlInv
<1>6. PublishInv'
  BY DEF PublishInv, Publishing, State, StateWith
<1>7. TxsInv'
  BY TreesKept
<1>8. PendingIsLastListed'
  BY DEF PendingIsLastListed, FromEnd
<1> QED
  BY <1>1, <1>2, <1>3, <1>4, <1>6, <1>7, <1>8 DEF IndInv

(* Load reads the registers, and may clear the pending one.                *)
LEMMA LoadIndInv == ASSUME IndInv, Load PROVE IndInv'
<1> USE DEF IndInv, Load, Return, trees, env
<1>1. TypeOK'
  <2>1. disk' \in Registers /\ mem' \in Registers
    BY RegistersType DEF TypeOK
  <2>2. result' \in Results /\ up' \in BOOLEAN
    BY SyncOutcomeType DEF TypeOK, Results
  <2> QED
    BY <2>1, <2>2, GenesisFacts, Zenon DEF TypeOK
<1>2. ControlInv'
  BY DEF ControlInv, Publishing, State, StateWith
<1>0. pc # "issue"
  BY DEF ControlInv
<1>3. NonceInv' /\ HistoryInv' /\ RootsCoverHistory'
  BY <1>0, TreesKept
<1>4. StoreInv'
  BY StoreKept, PublishingReads
<1>6. PublishInv'
  BY DEF PublishInv, Publishing, State, StateWith
<1>7. TxsInv'
  BY <1>0, TreesKept
<1>8. PendingIsLastListed'
  BY DEF PendingIsLastListed, FromEnd, Adopt, TypeOK, Registers
<1> QED
  BY <1>1, <1>2, <1>3, <1>4, <1>6, <1>7, <1>8 DEF IndInv

(* Sync may clear the pending register, in memory or also in the storage.  *)
LEMMA SyncIdenStatePublicIndInv == ASSUME IndInv, SyncIdenStatePublic PROVE IndInv'
<1> USE DEF IndInv, SyncIdenStatePublic, Idle, Return, Fault, trees, env
<1>1. TypeOK'
  <2>1. disk' \in Registers /\ mem' \in Registers
    BY RegistersType DEF TypeOK
  <2>2. result' \in Results
    BY SyncOutcomeType DEF TypeOK, Results
  <2>9. faults' \in 0 .. MaxFaults
    BY FaultsType DEF Fault
  <2> QED
    BY <2>1, <2>2, <2>9, GenesisFacts, Zenon DEF TypeOK
<1>2. ControlInv'
  BY MethodsNeedCreate DEF ControlInv, Publishing, State, StateWith
<1>3. NonceInv' /\ HistoryInv' /\ RootsCoverHistory'
  BY TreesKept
<1>4. StoreInv'
  <2>1. rootsTree = stored.ror \/ UNCHANGED mem
    BY PublishingReads DEF SyncOutcome
  <2>2. faults' = 0 => faults = 0
    BY FaultsType DEF Fault
  <2> QED
    BY <2>1, <2>2, StoreKept
<1>6. PublishInv'
  BY DEF PublishInv, Publishing, State, StateWith
<1>7. TxsInv'
  BY TreesKept
<1>8. PendingIsLastListed'
  BY DEF PendingIsLastListed, FromEnd, Adopt, TypeOK, Registers
<1> QED
  BY <1>1, <1>2, <1>3, <1>4, <1>6, <1>7, <1>8 DEF IndInv

(* The next nonce is above all that were handed out.                       *)
LEMMA IssueClaimNonceIndInv == ASSUME NEW c \in Claims, IndInv, IssueClaimNonce(c) PROVE IndInv'
<1> USE DEF IndInv, IssueClaimNonce, Idle, Return, Goto, NextNonceIdx, env
<1>1. TypeOK'
  <2>1. nonceIdx' \in 0 .. MaxNonce
    BY MaxNonceAssumption DEF TypeOK
  <2>2. issuing' \in Claims \cup {NoClaim} /\ pc' \in {"idle", "issue"}
    OBVIOUS
  <2>3. idenStateLast' \in IdenState /\ idenState' \in IdenState
    BY GenesisFacts DEF TypeOK
  <2>4. result' \in Results
    BY DEF TypeOK, Results
  <2> QED
    BY <2>1, <2>2, <2>3, <2>4, Zenon DEF TypeOK
<1>2. ControlInv'
  BY MethodsNeedCreate DEF ControlInv, Publishing, State, StateWith, TypeOK
<1>0. nonceIdx \in Nat /\ created = "yes"
  BY MethodsNeedCreate, MaxNonceAssumption DEF TypeOK
<1>00. State' = State /\ \A n : Used(n) => Used(n)'
  BY <1>0 DEF State, StateWith, Used
<1>3. NonceInv'
  BY <1>0, <1>00 DEF NonceInv, Reg!WellFormed
<1>4. HistoryInv'
  BY DEF HistoryInv
<1>5. RootsCoverHistory'
  BY DEF RootsCoverHistory
<1>6. PublishInv'
  BY DEF PublishInv, Publishing, State, StateWith
<1>7. TxsInv'
  BY DEF TxsInv, Reg!WellFormed
<1>8. PendingIsLastListed'
  BY DEF PendingIsLastListed, FromEnd
<1>9. StoreInv'
  BY <1>00 DEF StoreInv, ClaimsReadable, RevocationsReadable, RootsReadable, InA, FromEnd
<1> QED
  BY <1>1, <1>2, <1>3, <1>4, <1>5, <1>6, <1>7, <1>8, <1>9 DEF IndInv

(* The claim gets the nonce that was just drawn.                           *)
LEMMA IssueClaimAddIndInv == ASSUME IndInv, IssueClaimAdd PROVE IndInv'
<1> USE DEF IndInv
<1> DEFINE e == [hi |-> issuing, nonce |-> nonceIdx - 1]
<1>0. /\ created = "yes" /\ up
      /\ nonceIdx \in Nat /\ nonceIdx - 1 \in Nonces /\ issuing \in Claims
      /\ e \in Entries /\ e.hi = issuing /\ e.nonce = nonceIdx - 1
  BY MethodsNeedCreate, MaxNonceAssumption DEF IssueClaimAdd, ControlInv, TypeOK, Entries
<1> HIDE DEF e
<1>1. /\ UNCHANGED <<created, up, nonceIdx, revocationsTree, rootsTree, idenStateList, disk, mem,
                     txs, chain, offChain>>
      /\ pc = "issue" /\ pc' = "idle"
      /\ revNonce' = [revNonce EXCEPT ![issuing] = nonceIdx - 1]
      /\ idenState' \in IdenState /\ idenStateLast' \in IdenState /\ issuing' = NoClaim
      /\ result' \in Results
  BY GenesisFacts DEF IssueClaimAdd, Return, env, Results
<1>2. /\ stored' \in IdenState /\ lost' \in Leaves /\ faults' \in 0 .. MaxFaults
      /\ stored'.rer = stored.rer /\ stored'.ror = stored.ror
      /\ lost'.rer = lost.rer /\ lost.clr \subseteq lost'.clr
      /\ \/ UNCHANGED <<claimsTree, stored, lost, faults>>
         \/ /\ claimsTree = stored.clr /\ IndexFree(issuing)
            /\ claimsTree' = claimsTree \cup {e}
            /\ \/ stored'.clr = claimsTree' /\ UNCHANGED <<lost, faults>>
               \/ UNCHANGED stored /\ lost'.clr = lost.clr \cup {e} /\ faults' # 0
  <2>1. CASE UNCHANGED <<claimsTree, stored, lost, faults>>
    BY <2>1 DEF TypeOK
  <2>2. CASE /\ claimsTree = stored.clr /\ IndexFree(issuing)
             /\ claimsTree' = claimsTree \cup {e}
             /\ stored' = [stored EXCEPT !.clr = claimsTree']
             /\ UNCHANGED <<lost, faults>>
    BY <2>2, <1>0 DEF TypeOK, IdenState
  <2>3. CASE /\ claimsTree = stored.clr /\ IndexFree(issuing)
             /\ claimsTree' = claimsTree \cup {e}
             /\ lost' = [lost EXCEPT !.clr = @ \cup {e}]
             /\ Fault /\ UNCHANGED stored
    <3>1. faults' \in 0 .. MaxFaults /\ faults' # 0
      BY <2>3, FaultsType DEF Fault, TypeOK
    <3> QED
      BY <2>3, <3>1, <1>0 DEF TypeOK, Leaves
  <2> QED
    BY <2>1, <2>2, <2>3 DEF IssueClaimAdd, ClaimsReadable, e
<1>3. TypeOK'
  <2>1. revNonce' \in [Claims -> Nonces]
    BY <1>0, <1>1 DEF TypeOK
  <2>2. claimsTree' \subseteq Entries
    BY <1>0, <1>2 DEF TypeOK
  <2> QED
    BY <2>1, <2>2, <1>1, <1>2, Zenon DEF TypeOK
<1>4. ControlInv'
  BY <1>0, <1>1 DEF ControlInv, Publishing
<1>5. /\ \A n \in Nat : Used(n) => n < nonceIdx - 1 /\ Used(n)'
      /\ \A n \in Nat : n = nonceIdx - 1 => Used(n)'
      /\ \A f \in Entries : f.nonce \in Nat
      /\ \A i \in DOMAIN idenStateList : idenStateList[i].clr \subseteq Entries
  <2>1. \A n \in Nat : Used(n) => n < nonceIdx - 1 /\ Used(n)'
    BY <1>0, <1>1 DEF Used
  <2>2. \A n \in Nat : n = nonceIdx - 1 => Used(n)'
    BY <1>0, <1>1 DEF Used
  <2> QED
    BY <2>1, <2>2, ListedEntries
<1>6. NonceInv'
  <2>1. \A f \in claimsTree \cup lost.clr :
           f \in Entries /\ Used(f.nonce) /\ f.nonce < nonceIdx - 1 /\ f.nonce # e.nonce
    BY <1>0, <1>5 DEF NonceInv, TypeOK, Leaves
  <2>2. claimsTree' = claimsTree \cup {e} => \A f \in claimsTree : f.hi # e.hi
    BY <1>0, <1>2, <2>1 DEF IndexFree
  <2>3. stored.clr \cup lost.clr \subseteq stored'.clr \cup lost'.clr
    BY <1>2
  <2>4. Reg!WellFormed(State)'
    <3>1. \A f, g \in claimsTree' : (f.nonce = g.nonce \/ f.hi = g.hi) => f = g
      BY <1>2, <2>1, <2>2 DEF NonceInv, Reg!WellFormed, State, StateWith
    <3>2. claimsTree \subseteq claimsTree' /\ claimsTree \cup lost.clr \subseteq claimsTree' \cup lost'.clr
      BY <1>2
    <3> QED
      BY <1>1, <3>1, <3>2 DEF NonceInv, Reg!WellFormed, State, StateWith
  <2>5. \A n \in revocationsTree' : \E f \in stored'.clr : f.nonce = n
    BY <1>1, <1>2 DEF NonceInv
  <2>6. \A f \in claimsTree' \cup lost'.clr : Used(f.nonce)'
    <3>1. \A f \in claimsTree \cup lost.clr : Used(f.nonce)'
      BY <1>5, <2>1
    <3>2. claimsTree' \cup lost'.clr \subseteq (claimsTree \cup lost.clr) \cup {e}
      BY <1>2
    <3> QED
      BY <3>1, <3>2, <1>0, <1>5
  <2>7. \A i \in DOMAIN idenStateList : \A f \in idenStateList[i].clr : Used(f.nonce)'
    BY <1>5 DEF NonceInv
  <2> QED
    BY <1>1, <2>3, <2>4, <2>5, <2>6, <2>7 DEF NonceInv
<1>7. StoreInv'
  <2>1. claimsTree' # claimsTree => claimsTree' # FromEnd(1).clr
    <3> SUFFICES ASSUME e \in FromEnd(1).clr PROVE FALSE
      BY <1>2
    <3>1. Len(idenStateList) \in DOMAIN idenStateList /\ FromEnd(1) = idenStateList[Len(idenStateList)]
      BY <1>0 DEF ControlInv, TypeOK, FromEnd
    <3>2. Used(e.nonce)
      BY <3>1 DEF NonceInv
    <3> QED
      BY <3>2, <1>0, <1>5
  <2>2. UNCHANGED FromEnd(1) /\ (InA(mem)' <=> InA(mem))
    BY <1>1 DEF FromEnd, InA
  <2> QED
    BY <1>0, <1>1, <1>2, <2>1, <2>2 DEF StoreInv, ClaimsReadable, RevocationsReadable, RootsReadable
<1>8. HistoryInv'
  <2>1. Extends(stored, stored')
    BY <1>2 DEF Extends, StoreInv
  <2> QED
    BY <1>1, <1>2, <2>1, ExtendsButFacts DEF HistoryInv
<1>9. RootsCoverHistory' /\ PublishInv' /\ PendingIsLastListed'
  BY <1>1 DEF RootsCoverHistory, PublishInv, Publishing, PendingIsLastListed, FromEnd
<1>10. TxsInv'
  BY <1>1, <1>2, ExtendsButFacts DEF TxsInv, Reg!WellFormed
<1> QED
  BY <1>3, <1>4, <1>6, <1>7, <1>8, <1>9, <1>10

(* The nonce that is revoked is one of the claims tree.                    *)
LEMMA RevokeClaimIndInv == ASSUME NEW c \in Claims \cup {KOp}, IndInv, RevokeClaim(c) PROVE IndInv'
<1> USE DEF IndInv
<1>1. /\ UNCHANGED <<created, up, nonceIdx, claimsTree, rootsTree, idenStateList, disk, mem,
                     revNonce, txs, chain, offChain>>
      /\ up /\ created = "yes" /\ pc = "idle" /\ pc' = "idle"
      /\ idenState' \in IdenState /\ idenStateLast' \in IdenState /\ issuing' = NoClaim
      /\ result' \in Results
  BY GenesisFacts, MethodsNeedCreate DEF RevokeClaim, Idle, Return, env, Results
<1>2. \/ UNCHANGED <<revocationsTree, stored, lost, faults>>
      \/ \E n \in Nonces :
           /\ revocationsTree = stored.rer
           /\ \E e \in stored.clr : e.nonce = n
           /\ revocationsTree' = revocationsTree \cup {n}
           /\ \/ /\ stored' = [stored EXCEPT !.rer = revocationsTree']
                 /\ UNCHANGED <<lost, faults>>
              \/ /\ Fault /\ UNCHANGED stored
                 /\ lost' = [lost EXCEPT !.rer = @ \cup {n}]
  <2>1. \A e \in claimsTree : e.nonce \in Nonces
    BY DEF TypeOK, Entries
  <2> QED
    BY <2>1 DEF RevokeClaim, ClaimsReadable, RevocationsReadable
<1>3. /\ stored' \in IdenState /\ lost' \in Leaves /\ faults' \in 0 .. MaxFaults
      /\ revocationsTree' \subseteq Nonces
      /\ stored'.clr = stored.clr /\ stored'.ror = stored.ror
      /\ lost'.clr = lost.clr /\ lost.rer \subseteq lost'.rer
      /\ stored.rer \subseteq stored'.rer /\ stored'.rer \subseteq revocationsTree'
      /\ revocationsTree' \subseteq stored'.rer \cup lost'.rer
      /\ faults' = 0 => faults = 0 /\ lost' = lost /\ revocationsTree' = stored'.rer
      /\ \A n \in revocationsTree' : \E e \in stored.clr : e.nonce = n
  <2>1. CASE UNCHANGED <<revocationsTree, stored, lost, faults>>
    BY <2>1 DEF TypeOK, StoreInv, RevocationsReadable, NonceInv
  <2>2. CASE ~UNCHANGED <<revocationsTree, stored, lost, faults>>
    <3>1. PICK n \in Nonces :
           /\ revocationsTree = stored.rer
           /\ \E e \in stored.clr : e.nonce = n
           /\ revocationsTree' = revocationsTree \cup {n}
           /\ \/ /\ stored' = [stored EXCEPT !.rer = revocationsTree']
                 /\ UNCHANGED <<lost, faults>>
              \/ /\ Fault /\ UNCHANGED stored
                 /\ lost' = [lost EXCEPT !.rer = @ \cup {n}]
      BY <1>2, <2>2
    <3>2. faults' \in 0 .. MaxFaults /\ (Fault => faults' # 0)
      BY <3>1, FaultsType DEF Fault, TypeOK
    <3>3. revocationsTree' \subseteq Nonces
      BY <3>1 DEF TypeOK
    <3>4. \A m \in revocationsTree' : \E e \in stored.clr : e.nonce = m
      BY <3>1 DEF NonceInv
    <3>5. CASE stored' = [stored EXCEPT !.rer = revocationsTree'] /\ UNCHANGED <<lost, faults>>
      BY <3>1, <3>2, <3>3, <3>4, <3>5 DEF TypeOK, IdenState
    <3>6. CASE Fault /\ UNCHANGED stored /\ lost' = [lost EXCEPT !.rer = @ \cup {n}]
      BY <3>1, <3>2, <3>3, <3>4, <3>6 DEF TypeOK, Leaves
    <3> QED
      BY <3>1, <3>5, <3>6
  <2> QED
    BY <2>1, <2>2
<1>4. TypeOK'
  BY <1>1, <1>3, Zenon DEF TypeOK
<1>5. ControlInv'
  BY <1>1 DEF ControlInv, Publishing
<1>6. StoreInv'
  <2>1. UNCHANGED FromEnd(1) /\ (InA(mem)' <=> InA(mem))
    BY <1>1 DEF FromEnd, InA
  <2> QED
    BY <1>1, <1>3, <2>1 DEF StoreInv, ClaimsReadable, RevocationsReadable, RootsReadable
<1>7. NonceInv'
  <2>1. \A n : Used(n)' <=> Used(n)
    BY <1>1 DEF Used
  <2>2. Reg!WellFormed(State)'
    BY <1>1, <1>3 DEF NonceInv, Reg!WellFormed, State, StateWith, StoreInv
  <2> QED
    BY <1>1, <1>3, <2>1, <2>2 DEF NonceInv
<1>8. HistoryInv'
  <2>1. Extends(stored, stored')
    BY <1>3 DEF Extends
  <2> QED
    BY <1>1, <1>3, <2>1, ExtendsButFacts DEF HistoryInv
<1>9. RootsCoverHistory' /\ PublishInv' /\ PendingIsLastListed'
  BY <1>1 DEF RootsCoverHistory, PublishInv, Publishing, PendingIsLastListed, FromEnd
<1>10. TxsInv'
  BY <1>1, <1>3, ExtendsButFacts DEF TxsInv, Reg!WellFormed
<1> QED
  BY <1>4, <1>5, <1>6, <1>7, <1>8, <1>9, <1>10

(* A PublishState that returns at once changes nothing.                    *)
LEMMA PublishStateReturnIndInv == ASSUME IndInv, PublishStateReturn PROVE IndInv'
<1> USE DEF IndInv, PublishStateReturn, Idle, Return, trees, env
<1>1. TypeOK'
  BY GenesisFacts DEF TypeOK, Results
<1>2. ControlInv'
  BY MethodsNeedCreate DEF ControlInv, Publishing, State, StateWith
<1>3. NonceInv' /\ HistoryInv' /\ RootsCoverHistory'
  BY TreesKept
<1>4. StoreInv'
  BY StoreKept
<1>6. PublishInv'
  BY DEF PublishInv, Publishing, State, StateWith
<1>7. TxsInv'
  BY TreesKept
<1>8. PendingIsLastListed'
  BY DEF PendingIsLastListed, FromEnd
<1> QED
  BY <1>1, <1>2, <1>3, <1>4, <1>6, <1>7, <1>8 DEF IndInv

(* PublishState computes the new state from the trees and the last state of*)
(* the list, after the claims root went into the roots tree.               *)
LEMMA PublishStateRootsIndInv == ASSUME IndInv, PublishStateRoots PROVE IndInv'
<1> USE DEF IndInv
<1>0. /\ created = "yes"
      /\ FromEnd(1) \in IdenState /\ FromEnd(1) = idenStateList[Len(idenStateList)]
      /\ Len(idenStateList) \in DOMAIN idenStateList
      /\ Len(idenStateList) \in 1 .. Len(idenStateList)
  BY MethodsNeedCreate, FromEndType DEF PublishStateRoots, Idle, FromEnd, TypeOK
<1>1. /\ UNCHANGED <<created, up, issuing, nonceIdx, claimsTree, revocationsTree, lost,
                     idenStateList, disk, mem, revNonce, txs, chain, offChain, result, faults>>
      /\ up /\ pc = "idle" /\ pc' = "append" /\ InA(mem)
      /\ idenStateLast' = FromEnd(1) /\ idenState' = State'
  BY DEF PublishStateRoots, Idle, Goto, env, State, StateWith
<1>2. /\ stored' \in IdenState
      /\ stored'.clr = stored.clr /\ stored'.rer = stored.rer /\ stored'.ror = rootsTree'
      /\ rootsTree \subseteq rootsTree' /\ rootsTree' \subseteq rootsTree \cup {claimsTree}
      /\ rootsTree = stored.ror
      /\ claimsTree \in rootsTree'
  <2>1. CASE claimsTree # FromEnd(1).clr
    <3>1. /\ rootsTree = stored.ror
          /\ rootsTree' = rootsTree \cup {claimsTree}
          /\ stored' = [stored EXCEPT !.ror = rootsTree']
      BY <2>1 DEF PublishStateRoots, RootsReadable
    <3>2. rootsTree' \subseteq SUBSET Entries
      BY <3>1 DEF TypeOK
    <3> QED
      BY <3>1, <3>2 DEF TypeOK, IdenState
  <2>2. CASE claimsTree = FromEnd(1).clr
    <3>1. UNCHANGED <<rootsTree, stored>>
      BY <2>2 DEF PublishStateRoots
    <3>2. rootsTree = stored.ror
      BY <2>2 DEF StoreInv, RootsReadable
    <3>3. FromEnd(1).clr \in FromEnd(1).ror
      BY <1>0 DEF RootsCoverHistory
    <3>4. FromEnd(1).ror \subseteq stored.ror
      BY <1>0 DEF HistoryInv, ExtendsBut
    <3> QED
      BY <2>2, <3>1, <3>2, <3>3, <3>4 DEF TypeOK
  <2> QED
    BY <2>1, <2>2
<1>3. TypeOK'
  <2>1. rootsTree' \subseteq SUBSET Entries
    BY <1>2 DEF TypeOK
  <2>2. idenState' \in IdenState
    BY <2>1, <1>1 DEF TypeOK, State, StateWith, IdenState
  <2> QED
    BY <2>1, <2>2, <1>0, <1>1, <1>2, Zenon DEF TypeOK
<1>4. ControlInv'
  BY <1>0, <1>1 DEF ControlInv, Publishing
<1>5. StoreInv'
  BY <1>1, <1>2 DEF StoreInv, ClaimsReadable, RevocationsReadable, RootsReadable
<1>6. NonceInv'
  <2>1. \A n : Used(n)' <=> Used(n)
    BY <1>1 DEF Used
  <2>2. \A r \in rootsTree' : r \subseteq stored.clr \cup lost.clr
    BY <1>2 DEF NonceInv, StoreInv
  <2>3. Reg!WellFormed(State)'
    BY <1>1, <1>2, <2>2 DEF NonceInv, Reg!WellFormed, State, StateWith, StoreInv
  <2> QED
    BY <1>1, <1>2, <2>1, <2>2, <2>3 DEF NonceInv
<1>7. HistoryInv'
  <2>1. Extends(stored, stored')
    BY <1>2 DEF Extends
  <2> QED
    BY <1>1, <2>1, ExtendsButFacts DEF HistoryInv
<1>8. PublishInv'
  <2>1. ExtendsBut(lost, FromEnd(1), stored)
    BY <1>0 DEF HistoryInv
  <2>2. Extends(stored, State')
    BY <1>1, <1>2 DEF Extends, StoreInv, State, StateWith
  <2>3. ExtendsBut(lost, FromEnd(1), State')
    BY <2>1, <2>2, ExtendsButFacts
  <2> QED
    BY <1>1, <1>2, <2>3 DEF PublishInv, Publishing
<1>9. RootsCoverHistory' /\ PendingIsLastListed'
  BY <1>1 DEF RootsCoverHistory, PendingIsLastListed, FromEnd
<1>10. TxsInv'
  BY <1>1 DEF TxsInv, Reg!WellFormed
<1> QED
  BY <1>3, <1>4, <1>5, <1>6, <1>7, <1>8, <1>9, <1>10

(* A root that AddLeafRootsTree did not store stops PublishState, until a  *)
(* restart.                                                                *)
LEMMA PublishStateRootsFailsIndInv == ASSUME IndInv, PublishStateRootsFails PROVE IndInv'
<1> USE DEF IndInv
<1>1. /\ UNCHANGED <<created, up, nonceIdx, claimsTree, revocationsTree, stored, lost,
                     idenStateList, disk, mem, revNonce, txs, chain, offChain>>
      /\ up /\ created = "yes" /\ pc = "idle" /\ pc' = "idle" /\ InA(mem)
      /\ claimsTree # FromEnd(1).clr
      /\ rootsTree' = rootsTree \cup {claimsTree}
      /\ Fault
      /\ idenState' \in IdenState /\ idenStateLast' \in IdenState /\ issuing' = NoClaim
      /\ result' \in Results
  BY GenesisFacts, MethodsNeedCreate DEF PublishStateRootsFails, Idle, Return, env, Results
<1>2. faults' \in 0 .. MaxFaults /\ faults' # 0
  BY <1>1, FaultsType DEF Fault, TypeOK
<1>3. TypeOK'
  <2>1. rootsTree' \subseteq SUBSET Entries
    BY <1>1 DEF TypeOK
  <2> QED
    BY <2>1, <1>1, <1>2, Zenon DEF TypeOK
<1>4. ControlInv'
  BY <1>1 DEF ControlInv, Publishing
<1>5. StoreInv'
  <2>1. UNCHANGED FromEnd(1) /\ InA(mem)'
    BY <1>1 DEF FromEnd, InA
  <2> QED
    BY <1>1, <1>2, <2>1 DEF StoreInv
<1>6. NonceInv'
  <2>1. \A n : Used(n)' <=> Used(n)
    BY <1>1 DEF Used
  <2>2. \A r \in rootsTree' : r \subseteq stored.clr \cup lost.clr
    BY <1>1 DEF NonceInv, StoreInv
  <2>3. Reg!WellFormed(State)'
    BY <1>1, <2>2 DEF NonceInv, Reg!WellFormed, State, StateWith, StoreInv
  <2> QED
    BY <1>1, <2>1, <2>2, <2>3 DEF NonceInv
<1>7. HistoryInv' /\ RootsCoverHistory' /\ PublishInv' /\ PendingIsLastListed'
  BY <1>1 DEF HistoryInv, RootsCoverHistory, PublishInv, Publishing, PendingIsLastListed, FromEnd
<1>8. TxsInv'
  BY <1>1 DEF TxsInv, Reg!WellFormed
<1> QED
  BY <1>3, <1>4, <1>5, <1>6, <1>7, <1>8

(* The new state extends every state of the list it is appended to.        *)
LEMMA PublishStateAppendIndInv == ASSUME IndInv, PublishStateAppend PROVE IndInv'
<1> USE DEF IndInv, PublishStateAppend, Return, Goto, Fault, AppendState, locals, trees, env
<1>0. Len(idenStateList') >= 1
  <2>1. Len(idenStateList) \in Nat /\ Len(idenStateList) >= 1
    BY MethodsNeedCreate DEF Publishing
  <2>2. Len(Append(idenStateList, idenState)) = Len(idenStateList) + 1
    BY AppendFacts DEF TypeOK
  <2>3. idenStateList' = idenStateList \/ idenStateList' = Append(idenStateList, idenState)
    OBVIOUS
  <2> QED
    BY <2>1, <2>2, <2>3
<1>00. /\ idenState = State /\ State' = State
       /\ rootsTree = stored.ror
       /\ Extends(stored, idenState) /\ ExtendsBut(lost, idenState, stored)
  BY PublishingReads DEF PublishInv, Publishing, State, StateWith, StoreInv, Extends, ExtendsBut
<1>1. TypeOK'
  <2>1. mem' \in Registers /\ disk' \in Registers
    BY RegistersType DEF TypeOK
  <2>2. idenStateList' \in Seq(IdenState)
    BY AppendFacts DEF TypeOK
  <2>3. result' \in Results /\ pc' \in {"idle", "send"}
    BY DEF TypeOK, Results
  <2>8. idenStateLast' \in IdenState /\ idenState' \in IdenState /\ issuing' \in Claims \cup {NoClaim}
    BY GenesisFacts DEF TypeOK
  <2>9. faults' \in 0 .. MaxFaults
    BY FaultsType DEF Fault
  <2> QED
    BY <2>1, <2>2, <2>3, <2>8, <2>9, Zenon DEF TypeOK
<1>2. ControlInv'
  BY <1>0, <1>00, MethodsNeedCreate DEF ControlInv, Publishing, State, StateWith
<1>3. NonceInv'
  <2>1. \A n : Used(n)' <=> Used(n)
    BY DEF Used
  <2>2. \A i \in DOMAIN idenStateList' :
           \/ idenStateList'[i] = idenState
           \/ i \in DOMAIN idenStateList /\ idenStateList'[i] = idenStateList[i]
    <3>1. idenStateList' = idenStateList \/ idenStateList' = Append(idenStateList, idenState)
      OBVIOUS
    <3>2. idenStateList \in Seq(IdenState)
      BY DEF TypeOK
    <3> QED
      BY <3>1, <3>2
  <2>3. created = "yes" /\ idenState.clr = claimsTree
    BY <1>00, MethodsNeedCreate DEF Publishing, State, StateWith
  <2>4. \A i \in DOMAIN idenStateList' : \A e \in idenStateList'[i].clr : Used(e.nonce)'
    BY <2>1, <2>2, <2>3 DEF NonceInv
  <2> QED
    BY <1>00, <2>1, <2>4 DEF NonceInv, Reg!WellFormed
<1>4. HistoryInv'
  <2>1. CASE UNCHANGED idenStateList
    BY <2>1, <1>00 DEF HistoryInv
  <2>2. CASE idenStateList' = Append(idenStateList, idenState)
    <3>1. \A i \in DOMAIN idenStateList : ExtendsBut(lost, idenStateList[i], idenState)
      BY <1>00, ExtendsButFacts DEF HistoryInv
    <3>2. \A i \in DOMAIN idenStateList' :
             idenStateList'[i] = IF i = Len(idenStateList) + 1 THEN idenState ELSE idenStateList[i]
      BY <2>2 DEF TypeOK
    <3>3. DOMAIN idenStateList' = 1 .. Len(idenStateList) + 1
          /\ DOMAIN idenStateList = 1 .. Len(idenStateList) /\ Len(idenStateList) \in Nat
      BY <2>2 DEF TypeOK
    <3> QED
      BY <3>1, <3>2, <3>3, <1>00, ExtendsButFacts DEF HistoryInv
  <2> QED
    BY <2>1, <2>2
<1>5. RootsCoverHistory'
  <2>1. CASE UNCHANGED idenStateList
    BY <2>1 DEF RootsCoverHistory
  <2>2. CASE idenStateList' = Append(idenStateList, idenState)
    <3>1. \A j \in DOMAIN idenStateList : idenStateList[j].clr \in idenState.ror
      BY <1>00 DEF RootsCoverHistory, HistoryInv, Extends, ExtendsBut, TypeOK
    <3>2. idenState.clr \in idenState.ror
      BY <1>00 DEF PublishInv, State, StateWith
    <3>3. \A i \in DOMAIN idenStateList' :
             idenStateList'[i] = IF i = Len(idenStateList) + 1 THEN idenState ELSE idenStateList[i]
      BY <2>2 DEF TypeOK
    <3>4. DOMAIN idenStateList' = 1 .. Len(idenStateList) + 1
          /\ DOMAIN idenStateList = 1 .. Len(idenStateList) /\ Len(idenStateList) \in Nat
      BY <2>2 DEF TypeOK
    <3> QED
      BY <3>1, <3>2, <3>3, <3>4 DEF RootsCoverHistory
  <2> QED
    BY <2>1, <2>2
<1>6. PublishInv'
  BY DEF PublishInv, Publishing, State, StateWith
<1>7. TxsInv'
  BY DEF TxsInv, Reg!WellFormed
<1>8. PendingIsLastListed'
  <2>1. CASE UNCHANGED <<idenStateList, disk>>
    BY <2>1 DEF PendingIsLastListed, FromEnd
  <2>2. CASE /\ idenStateList' = Append(idenStateList, idenState)
             /\ disk' = SetPending(disk, FALSE)
    <3>1. disk'.pending = idenState
      BY <2>2 DEF SetPending, TypeOK, Registers
    <3>2. /\ Len(idenStateList') >= 2
          /\ idenStateList'[Len(idenStateList')] = idenState
          /\ Len(idenStateList') + 1 - 1 = Len(idenStateList')
      BY <2>2, MethodsNeedCreate DEF TypeOK, Publishing
    <3> QED
      BY <3>1, <3>2 DEF PendingIsLastListed, FromEnd
  <2> QED
    BY <2>1, <2>2
<1>9. StoreInv'
  <2>1. faults' = 0 => faults = 0
    BY FaultsType DEF Fault
  <2> QED
    BY <2>1, <1>00 DEF StoreInv, ClaimsReadable, RevocationsReadable, RootsReadable
<1> QED
  BY <1>1, <1>2, <1>3, <1>4, <1>5, <1>6, <1>7, <1>8, <1>9 DEF IndInv

(* A retry publishes from the state before the last one of the list.       *)
LEMMA PublishStateRetryIndInv == ASSUME IndInv, PublishStateRetry PROVE IndInv'
<1> USE DEF IndInv, PublishStateRetry, Idle, Goto, trees, env
<1>0. FromEnd(2) \in IdenState /\ Len(idenStateList) + 1 - 2 \in DOMAIN idenStateList
  BY FromEndType DEF TypeOK
<1>1. TypeOK'
  BY <1>0, StateType, Zenon DEF TypeOK
<1>2. ControlInv'
  BY MethodsNeedCreate DEF ControlInv, Publishing, State, StateWith
<1>3. NonceInv' /\ HistoryInv' /\ RootsCoverHistory'
  BY TreesKept
<1>4. StoreInv'
  BY StoreKept, PublishingReads
<1>6. PublishInv'
  <2>1. ExtendsBut(lost, FromEnd(2), State)
    <3>1. ExtendsBut(lost, FromEnd(2), stored)
      BY <1>0 DEF HistoryInv, FromEnd
    <3>2. Extends(stored, State)
      BY DEF StoreInv, Extends, State, StateWith
    <3> QED
      BY <3>1, <3>2, ExtendsButFacts
  <2> QED
    BY <2>1 DEF PublishInv, Publishing, State, StateWith
<1>7. TxsInv'
  BY TreesKept
<1>8. PendingIsLastListed'
  BY DEF PendingIsLastListed, FromEnd
<1> QED
  BY <1>1, <1>2, <1>3, <1>4, <1>6, <1>7, <1>8 DEF IndInv

(* What is sent extends what it is sent from.                              *)
LEMMA PublishStateSendIndInv == ASSUME IndInv, PublishStateSend PROVE IndInv'
<1> USE DEF IndInv, PublishStateSend, Return, Goto, Fault, locals, trees
<1>1. TypeOK'
  <2>1. txs' \in Seq(Transactions)
    BY NewTransactionType, AppendFacts DEF TypeOK
  <2>2. result' \in Results /\ pc' \in {"idle", "record"}
    BY DEF TypeOK, Results
  <2>8. idenStateLast' \in IdenState /\ idenState' \in IdenState /\ issuing' \in Claims \cup {NoClaim}
    BY GenesisFacts DEF TypeOK
  <2>9. faults' \in 0 .. MaxFaults
    BY FaultsType DEF Fault
  <2> QED
    BY <2>1, <2>2, <2>8, <2>9, Zenon DEF TypeOK
<1>2. ControlInv'
  BY MethodsNeedCreate DEF ControlInv, Publishing, State, StateWith
<1>3. NonceInv' /\ HistoryInv' /\ RootsCoverHistory'
  BY TreesKept
<1>4. StoreInv'
  <2>1. rootsTree = stored.ror
    BY PublishingReads DEF Publishing
  <2>2. faults' = 0 => faults = 0
    BY FaultsType DEF Fault
  <2> QED
    BY <2>1, <2>2, StoreKept
<1>6. PublishInv'
  BY DEF PublishInv, Publishing, State, StateWith
<1>7. TxsInv'
  <2>1. CASE UNCHANGED txs
    BY <2>1, TreesKept
  <2>2. CASE txs' = Append(txs, NewTransaction)
    <3>1. ExtendsBut(lost, NewTransaction.old, NewTransaction.new) /\ Reg!WellFormed(NewTransaction.new)
      BY DEF NewTransaction, PublishInv, NonceInv, Publishing
    <3>2. \A i \in DOMAIN txs' :
             (i \in DOMAIN txs /\ txs'[i] = txs[i]) \/ txs'[i] = NewTransaction
      BY <2>2 DEF TypeOK
    <3> QED
      BY <3>1, <3>2 DEF TxsInv, Reg!WellFormed
  <2> QED
    BY <2>1, <2>2
<1>8. PendingIsLastListed'
  BY DEF PendingIsLastListed, FromEnd
<1> QED
  BY <1>1, <1>2, <1>3, <1>4, <1>6, <1>7, <1>8 DEF IndInv

(* Pending, and transacted.                                                *)
LEMMA PublishStateRecordIndInv == ASSUME IndInv, PublishStateRecord PROVE IndInv'
<1> USE DEF IndInv, PublishStateRecord, Return, Goto, Fault, locals, trees, env
<1>1. TypeOK'
  <2>1. mem' \in Registers /\ disk' \in Registers
    BY RegistersType DEF TypeOK
  <2>2. result' \in Results /\ pc' \in {"idle", "offchain"}
    BY DEF TypeOK, Results
  <2>8. idenStateLast' \in IdenState /\ idenState' \in IdenState /\ issuing' \in Claims \cup {NoClaim}
    BY GenesisFacts DEF TypeOK
  <2>9. faults' \in 0 .. MaxFaults
    BY FaultsType DEF Fault
  <2> QED
    BY <2>1, <2>2, <2>8, <2>9, Zenon DEF TypeOK
<1>2. ControlInv'
  BY MethodsNeedCreate DEF ControlInv, Publishing, State, StateWith
<1>3. NonceInv' /\ HistoryInv' /\ RootsCoverHistory'
  BY TreesKept
<1>4. StoreInv'
  <2>1. rootsTree = stored.ror
    BY PublishingReads DEF Publishing
  <2>2. faults' = 0 => faults = 0
    BY FaultsType DEF Fault
  <2> QED
    BY <2>1, <2>2, StoreKept
<1>6. PublishInv'
  BY DEF PublishInv, Publishing, State, StateWith
<1>7. TxsInv'
  BY TreesKept
<1>8. PendingIsLastListed'
  BY DEF PendingIsLastListed, FromEnd, RecordTx, SetPending, TypeOK, Registers
<1> QED
  BY <1>1, <1>2, <1>3, <1>4, <1>6, <1>7, <1>8 DEF IndInv

(* The end of PublishState.                                                *)
LEMMA PublishStateOffChainIndInv == ASSUME IndInv, PublishStateOffChain PROVE IndInv'
<1> USE DEF IndInv, PublishStateOffChain, Return, Fault, trees, env
<1>1. TypeOK'
  <2>1. offChain' \subseteq IdenState
    BY DEF TypeOK
  <2>2. result' \in Results
    BY DEF Results
  <2>9. faults' \in 0 .. MaxFaults
    BY FaultsType DEF Fault
  <2> QED
    BY <2>1, <2>2, <2>9, GenesisFacts, Zenon DEF TypeOK
<1>2. ControlInv'
  BY MethodsNeedCreate DEF ControlInv, Publishing, State, StateWith
<1>3. NonceInv' /\ HistoryInv' /\ RootsCoverHistory'
  BY TreesKept
<1>4. StoreInv'
  <2>1. rootsTree = stored.ror
    BY PublishingReads DEF Publishing
  <2>2. faults' = 0 => faults = 0
    BY FaultsType DEF Fault
  <2> QED
    BY <2>1, <2>2, StoreKept
<1>6. PublishInv'
  BY DEF PublishInv, Publishing, State, StateWith
<1>7. TxsInv'
  BY TreesKept
<1>8. PendingIsLastListed'
  BY DEF PendingIsLastListed, FromEnd
<1> QED
  BY <1>1, <1>2, <1>3, <1>4, <1>6, <1>7, <1>8 DEF IndInv

(* A crash takes the trees back to the storage, and loses no more than what*)
(* was lost already.                                                       *)
LEMMA CrashIndInv == ASSUME IndInv, Crash PROVE IndInv'
<1> USE DEF IndInv, Crash, Return, env
<1>0. stored.clr \subseteq Entries /\ stored.rer \subseteq Nonces /\ stored.ror \subseteq SUBSET Entries
  BY DEF TypeOK, IdenState
<1>00. faults' \in 0 .. MaxFaults /\ faults' # 0
  BY FaultsType DEF Fault, TypeOK
<1>1. TypeOK'
  BY <1>0, <1>00, GenesisFacts, ZeroRegistersType, Zenon DEF TypeOK, Results
<1>2. ControlInv'
  <2>1. created # "yes" => State' = State
    BY DEF ControlInv, State, StateWith
  <2> QED
    BY <2>1, MethodsNeedCreate DEF ControlInv, Publishing, State, StateWith
<1>3. NonceInv'
  <2>1. nonceIdx \in Nat /\ \A n \in Nat : Used(n) => Used(n)'
    BY MaxNonceAssumption DEF Used, TypeOK
  <2>2. /\ \A e \in Entries : e.nonce \in Nat
        /\ lost.clr \subseteq Entries
        /\ \A i \in DOMAIN idenStateList : idenStateList[i].clr \subseteq Entries
    BY ListedEntries
  <2>3. Reg!WellFormed(State)'
    BY DEF NonceInv, StoreInv, Reg!WellFormed, State, StateWith
  <2>4. /\ \A n \in stored.rer : \E e \in stored.clr : e.nonce = n
        /\ \A r \in stored.ror : r \subseteq stored.clr \cup lost.clr
    BY DEF NonceInv, StoreInv
  <2>5. created = "yes" => \A e \in stored.clr \cup lost.clr : Used(e.nonce)'
    BY <1>0, <2>1, <2>2 DEF NonceInv, StoreInv
  <2>6. \A i \in DOMAIN idenStateList : \A e \in idenStateList[i].clr : Used(e.nonce)'
    BY <2>1, <2>2 DEF NonceInv
  <2> QED
    BY <2>3, <2>4, <2>5, <2>6 DEF NonceInv
<1>4. StoreInv'
  BY <1>00 DEF StoreInv, RootsReadable
<1>5. HistoryInv' /\ RootsCoverHistory' /\ PublishInv' /\ PendingIsLastListed'
  BY DEF HistoryInv, RootsCoverHistory, PublishInv, Publishing, PendingIsLastListed, FromEnd
<1>6. TxsInv'
  BY DEF TxsInv, Reg!WellFormed
<1> QED
  BY <1>1, <1>2, <1>3, <1>4, <1>5, <1>6 DEF IndInv

(* A transaction keeps its content when it gets its receipt.               *)
LEMMA MineTxIndInv == ASSUME IndInv, MineTx PROVE IndInv'
<1> USE DEF IndInv, MineTx, locals, trees
<1>0. /\ Len(txs') = Len(txs) /\ Len(txs) \in Nat
      /\ txs # <<>>
      /\ txs' \in Seq(Transactions)
      /\ DOMAIN txs' = DOMAIN txs
      /\ \A i \in DOMAIN txs : /\ txs'[i] \in Transactions
                               /\ txs'[i].old = txs[i].old
                               /\ txs'[i].new = txs[i].new
  <2>1. PICK i \in DOMAIN txs : \E st \in {"ok", "failed"} :
               txs' = [txs EXCEPT ![i] = [txs[i] EXCEPT !.status = st]]
    OBVIOUS
  <2>2. PICK st \in {"ok", "failed"} : txs' = [txs EXCEPT ![i] = [txs[i] EXCEPT !.status = st]]
    BY <2>1
  <2>3. txs \in Seq(Transactions) /\ txs[i] \in Transactions
    BY DEF TypeOK
  <2>4. /\ [txs[i] EXCEPT !.status = st] \in Transactions
        /\ [txs[i] EXCEPT !.status = st].old = txs[i].old
        /\ [txs[i] EXCEPT !.status = st].new = txs[i].new
    BY <2>3, TransactionsType
  <2>5. /\ DOMAIN txs = 1 .. Len(txs) /\ Len(txs) \in Nat
        /\ \A k \in DOMAIN txs : txs[k] \in Transactions
    BY <2>3
  <2>6. /\ DOMAIN txs' = DOMAIN txs
        /\ \A k \in DOMAIN txs :
              txs'[k] = IF k = i THEN [txs[i] EXCEPT !.status = st] ELSE txs[k]
    BY <2>2
  <2>7. \A k \in DOMAIN txs : /\ txs'[k] \in Transactions
                              /\ txs'[k].old = txs[k].old
                              /\ txs'[k].new = txs[k].new
    BY <2>4, <2>5, <2>6
  <2>8. txs' \in Seq(Transactions) /\ Len(txs') = Len(txs)
    BY <2>2, <2>3, <2>4
  <2>9. txs # <<>>
    BY <2>5
  <2> QED
    BY <2>5, <2>6, <2>7, <2>8, <2>9
<1>1. TypeOK'
  <2>1. txs' \in Seq(Transactions)
    BY <1>0 DEF TypeOK
  <2>2. chain' \in Seq(IdenState)
    <3>1. \A i \in DOMAIN txs : txs[i] \in Transactions
      BY DEF TypeOK
    <3>2. \A i \in DOMAIN txs : txs[i].new \in IdenState
      BY <3>1 DEF Transactions
    <3>3. chain' = chain \/ \E i \in DOMAIN txs : chain' = Append(chain, txs[i].new)
      OBVIOUS
    <3>4. chain \in Seq(IdenState)
      BY DEF TypeOK
    <3> QED
      BY <3>2, <3>3, <3>4, AppendFacts
  <2> QED
    BY <2>1, <2>2, Zenon DEF TypeOK
<1>2. ControlInv'
  BY <1>0 DEF ControlInv, Publishing, State, StateWith
<1>3. NonceInv' /\ HistoryInv' /\ RootsCoverHistory'
  BY TreesKept
<1>4. StoreInv'
  BY StoreKept DEF StoreInv, RootsReadable
<1>6. PublishInv'
  BY DEF PublishInv, Publishing, State, StateWith
<1>7. TxsInv'
  BY <1>0 DEF TxsInv, Reg!WellFormed
<1>8. PendingIsLastListed'
  BY DEF PendingIsLastListed, FromEnd
<1> QED
  BY <1>1, <1>2, <1>3, <1>4, <1>6, <1>7, <1>8 DEF IndInv

(* And when it is confirmed.                                               *)
LEMMA NewBlockIndInv == ASSUME IndInv, NewBlock PROVE IndInv'
<1> USE DEF IndInv, NewBlock, locals, trees
<1>0. /\ txs # <<>>
      /\ txs' \in Seq(Transactions)
      /\ DOMAIN txs' = DOMAIN txs
      /\ \A i \in DOMAIN txs : txs'[i].old = txs[i].old /\ txs'[i].new = txs[i].new
  <2>1. /\ txs \in Seq(Transactions) /\ Len(txs) \in Nat /\ DOMAIN txs = 1 .. Len(txs)
        /\ \A i \in DOMAIN txs : txs[i] \in Transactions
    BY DEF TypeOK
  <2>2. \A i \in DOMAIN txs : /\ Confirmed(txs[i]) \in Transactions
                              /\ Confirmed(txs[i]).old = txs[i].old
                              /\ Confirmed(txs[i]).new = txs[i].new
    BY <2>1, TransactionsType
  <2>3. txs' = [i \in DOMAIN txs |-> Confirmed(txs[i])] /\ DOMAIN txs # {}
    OBVIOUS
  <2>4. txs' \in Seq(Transactions)
    BY <2>1, <2>2, <2>3
  <2> QED
    BY <2>1, <2>2, <2>3, <2>4
<1>1. TypeOK'
  BY <1>0, Zenon DEF TypeOK
<1>2. ControlInv'
  BY <1>0 DEF ControlInv, Publishing, State, StateWith
<1>3. NonceInv' /\ HistoryInv' /\ RootsCoverHistory'
  BY TreesKept
<1>4. StoreInv'
  BY StoreKept DEF StoreInv, RootsReadable
<1>6. PublishInv'
  BY DEF PublishInv, Publishing, State, StateWith
<1>7. TxsInv'
  BY <1>0 DEF TxsInv, Reg!WellFormed
<1>8. PendingIsLastListed'
  BY DEF PendingIsLastListed, FromEnd
<1> QED
  BY <1>1, <1>2, <1>3, <1>4, <1>6, <1>7, <1>8 DEF IndInv

-----------------------------------------------------------------------------
(* A step that changes nothing.                                            *)
LEMMA StutterIndInv == ASSUME IndInv, UNCHANGED vars PROVE IndInv'
<1> USE DEF IndInv, vars, locals, trees, env
<1>1. TypeOK'
  BY DEF TypeOK
<1>2. ControlInv'
  BY DEF ControlInv, Publishing, State, StateWith
<1>3. NonceInv' /\ HistoryInv' /\ RootsCoverHistory'
  BY TreesKept
<1>4. StoreInv'
  BY StoreKept DEF StoreInv, RootsReadable
<1>6. PublishInv'
  BY DEF PublishInv, Publishing, State, StateWith
<1>7. TxsInv'
  BY TreesKept
<1>8. PendingIsLastListed'
  BY DEF PendingIsLastListed, FromEnd
<1> QED
  BY <1>1, <1>2, <1>3, <1>4, <1>6, <1>7, <1>8 DEF IndInv

(* The inductive step.                                                     *)
LEMMA NextIndInv == IndInv /\ [Next]_vars => IndInv'
<1> SUFFICES ASSUME IndInv, [Next]_vars PROVE IndInv'
  OBVIOUS
<1>1. CASE CreateTrees \/ CreateCommit \/ CreateAgain \/ Load
  BY <1>1, CreateTreesIndInv, CreateCommitIndInv, CreateAgainIndInv, LoadIndInv
<1>2. CASE SyncIdenStatePublic
  BY <1>2, SyncIdenStatePublicIndInv
<1>3. CASE (\E c \in Claims : IssueClaimNonce(c)) \/ IssueClaimAdd
  BY <1>3, IssueClaimNonceIndInv, IssueClaimAddIndInv
<1>4. CASE \E c \in Claims \cup {KOp} : RevokeClaim(c)
  BY <1>4, RevokeClaimIndInv
<1>5. CASE \/ PublishStateReturn \/ PublishStateRoots \/ PublishStateRootsFails
           \/ PublishStateAppend \/ PublishStateRetry
  BY <1>5, PublishStateReturnIndInv, PublishStateRootsIndInv, PublishStateRootsFailsIndInv,
     PublishStateAppendIndInv, PublishStateRetryIndInv
<1>6. CASE PublishStateSend \/ PublishStateRecord \/ PublishStateOffChain
  BY <1>6, PublishStateSendIndInv, PublishStateRecordIndInv, PublishStateOffChainIndInv
<1>7. CASE Crash
  BY <1>7, CrashIndInv
<1>8. CASE MineTx \/ NewBlock
  BY <1>8, MineTxIndInv, NewBlockIndInv
<1>9. CASE UNCHANGED vars
  BY <1>9, StutterIndInv
<1> QED
  BY <1>1, <1>2, <1>3, <1>4, <1>5, <1>6, <1>7, <1>8, <1>9 DEF Next

(* The inductive invariant holds throughout every behaviour of the issuer, *)
(* with any number of crashes and failed calls.                            *)
THEOREM Invariance == Spec => []IndInv
BY InitIndInv, NextIndInv, PTL DEF Spec

(* Every variable of the issuer keeps its type.                            *)
THEOREM TypeCorrect == Spec => []TypeOK
<1>1. IndInv => TypeOK
  BY DEF IndInv
<1> QED
  BY <1>1, Invariance, PTL

(* IssueClaim never hands a nonce out twice and RevokeClaim revokes only   *)
(* nonces of issued claims, whatever is cut short by a crash.              *)
THEOREM NonceSafe == Spec => []NonceNamesOneClaim
<1>1. IndInv => NonceNamesOneClaim
  BY DEF IndInv, NonceInv, NonceNamesOneClaim, Reg!WellFormed, State, StateWith
<1> QED
  BY <1>1, Invariance, PTL

(* Every state PublishState lists has the claims roots of all the earlier  *)
(* ones in its roots tree.                                                 *)
THEOREM RootsCovered == Spec => []RootsCoverHistory
<1>1. IndInv => RootsCoverHistory
  BY DEF IndInv
<1> QED
  BY <1>1, Invariance, PTL

(* The state PublishState retries from (B) is the last of the list, also   *)
(* after a restart.                                                        *)
THEOREM PendingListed == Spec => []PendingIsLastListed
<1>1. IndInv => PendingIsLastListed
  BY DEF IndInv
<1> QED
  BY <1>1, Invariance, PTL

(* GenCredentialExistence compares indexes only, and yet serves no entry   *)
(* but the one that was published, through every crash and retry: a state  *)
(* that it can read is part of the claims tree, and the tree holds one     *)
(* entry for an index.                                                     *)
THEOREM CredentialServed == Spec => []CredentialIsIssued
<1>1. IndInv => CredentialIsIssued
  <2> SUFFICES ASSUME IndInv, NEW e \in claimsTree, GenCredentialExistence(e)
               PROVE  e \in mem.onChain.clr
    BY DEF CredentialIsIssued
  <2>2. PICK f \in mem.onChain.clr : f.hi = e.hi
    BY DEF GenCredentialExistence
  <2>3. f \in claimsTree
    BY <2>2 DEF GenCredentialExistence, IndInv, StoreInv
  <2>4. f = e
    BY <2>2, <2>3 DEF IndInv, NonceInv, Reg!WellFormed, State, StateWith
  <2> QED
    BY <2>2, <2>4
<1> QED
  BY <1>1, Invariance, PTL

-----------------------------------------------------------------------------
(* A step of the issuer is a step of the registry, or leaves it as it was: *)
(* only MineTx writes the chain, what the contract accepts extends what it *)
(* holds, and a leaf is lost in IssueClaim and in RevokeClaim.             *)
LEMMA StepRefinesRegistry ==
    IndInv /\ [Next]_vars => [Reg!Next]_<<chain, lost>>
<1> SUFFICES ASSUME IndInv, [Next]_vars PROVE Reg!Next \/ UNCHANGED <<chain, lost>>
  BY DEF Reg!Next
<1>0. Reg!IdenState = IdenState /\ Reg!Leaves = Leaves
  BY DEF Reg!IdenState, IdenState, Reg!Leaves, Leaves, Reg!Entries, Entries, Reg!Nonces
<1>1. CASE MineTx
  <2>0. UNCHANGED lost
    BY <1>1 DEF MineTx, trees
  <2>1. CASE UNCHANGED chain
    BY <2>0, <2>1
  <2>2. CASE chain' # chain
    <3>1. PICK i \in DOMAIN txs : Accepts(txs[i]) /\ chain' = Append(chain, txs[i].new)
      BY <1>1, <2>2 DEF MineTx
    <3>2. txs[i] \in Transactions /\ chain \in Seq(IdenState)
      BY DEF IndInv, TypeOK
    <3>3. txs[i].new \in IdenState
      BY <3>2 DEF Transactions
    <3>4. Reg!WellFormed(txs[i].new) /\ ExtendsBut(lost, txs[i].old, txs[i].new)
      BY DEF IndInv, TxsInv
    <3>5. txs[i].old = Reg!Latest
      BY <3>1 DEF Accepts, Reg!Latest
    <3>6. chain' # <<>> /\ chain'[Len(chain')] = txs[i].new
      BY <3>1, <3>2, <3>3
    <3>8. Reg!ExtendsBut(lost, Reg!Latest, txs[i].new)
      BY <3>4, <3>5 DEF Reg!ExtendsBut, ExtendsBut
    <3>9. Reg!Publish(txs[i].new)
      BY <3>1, <3>3, <3>4, <1>0, <3>8 DEF Reg!Publish
    <3> QED
      BY <2>0, <3>6, <3>9 DEF Reg!Next
  <2> QED
    BY <2>1, <2>2
<1>2. CASE IssueClaimAdd \/ \E c \in Claims \cup {KOp} : RevokeClaim(c)
  <2>1. UNCHANGED chain /\ lost' \in Leaves /\ lost \in Leaves
    BY <1>2, NextIndInv DEF IssueClaimAdd, RevokeClaim, env, IndInv, TypeOK, Next
  <2>2. lost.clr \subseteq lost'.clr /\ lost.rer \subseteq lost'.rer
    BY <1>2, <2>1 DEF IssueClaimAdd, RevokeClaim, Leaves
  <2> QED
    BY <1>0, <2>1, <2>2 DEF Reg!Next, Reg!Lose
<1>3. CASE UNCHANGED vars
  BY <1>3 DEF vars, env, trees
<1>4. CASE CreateTrees \/ CreateCommit \/ CreateAgain \/ Load \/ SyncIdenStatePublic
  BY <1>4 DEF CreateTrees, CreateCommit, CreateAgain, Load, SyncIdenStatePublic, env, trees
<1>5. CASE \E c \in Claims : IssueClaimNonce(c)
  BY <1>5 DEF IssueClaimNonce, env
<1>6. CASE PublishStateReturn \/ PublishStateRoots \/ PublishStateRootsFails \/ PublishStateAppend
  BY <1>6 DEF PublishStateReturn, PublishStateRoots, PublishStateRootsFails, PublishStateAppend,
     env, trees
<1>7. CASE PublishStateRetry \/ PublishStateSend \/ PublishStateRecord \/ PublishStateOffChain
  BY <1>7 DEF PublishStateRetry, PublishStateSend, PublishStateRecord, PublishStateOffChain,
     env, trees
<1>8. CASE Crash \/ NewBlock
  BY <1>8 DEF Crash, NewBlock, env, trees
<1> QED
  BY <1>1, <1>2, <1>3, <1>4, <1>5, <1>6, <1>7, <1>8 DEF Next

(* The issuer implements the registry: the states that reach the contract  *)
(* are a growing history of well-formed states, from the genesis state on, *)
(* for any number of crashes, lost answers and failed calls, and but for   *)
(* the leaves that a failed commit of AddEntry lost.                       *)
THEOREM Refinement == Spec => ImplementsRegistry
<1>1. Init => Reg!Init
  BY DEF Init, Reg!Init, Reg!NoLeaves, NoLeaves
<1> QED
  BY <1>1, StepRefinesRegistry, Invariance, PTL DEF Spec, ImplementsRegistry, Reg!Spec

-----------------------------------------------------------------------------
(* Without crashes and failed calls the registers, the list, the           *)
(* transactions and the contract go through the publication of a state in  *)
(* step, whatever the application and the chain do meanwhile.              *)

NoneSent == \A i \in 1 .. Len(txs) : txs[i].status # "sent"

(* The last transaction carries the pending state, and will be accepted or *)
(* has been; all the others have receipts.                                 *)
InFlight ==
    LET n == Len(txs) IN
    /\ n >= 1
    /\ \A i \in 1 .. n - 1 : txs[i].status # "sent"
    /\ txs[n].new = disk.pending
    /\ \/ txs[n].status = "sent" /\ Accepts(txs[n]) /\ ContractState = disk.onChain
       \/ txs[n].status = "ok" /\ ContractState = disk.pending

(* The nodes of the state graph, with what belongs to each of them.        *)
PhaseA ==
    /\ InA(disk)
    /\ pc \in {"idle", "create", "issue", "append"}
    /\ NoneSent
    /\ ContractState = disk.onChain
    /\ pc = "append" => idenStateLast = Reg!Latest
    /\ created = "yes" /\ pc # "append" => FromEnd(1) = Reg!Latest

PhaseB ==
    /\ disk.pending = idenState /\ ~disk.transacted
    /\ FromEnd(1) = disk.pending
    /\ \/ /\ pc = "send"
          /\ NoneSent
          /\ ContractState = disk.onChain
          /\ idenStateLast = Reg!Latest
       \/ /\ pc = "record"
          /\ InFlight

PhaseC ==
    /\ InC(disk)
    /\ FromEnd(1) = disk.pending
    /\ InFlight
    /\ AwaitedTx(disk) = Len(txs)
    /\ \/ pc = "offchain" /\ idenState = disk.pending
       \/ pc \in {"idle", "issue"} /\ disk.pending \in offChain

PhaseInv == PhaseA \/ PhaseB \/ PhaseC

(* Memory and storage agree.                                               *)
MemInv == IF up THEN mem = disk ELSE disk = ZeroRegisters

(* What is known to be on chain is listed and public.                      *)
ServedInv ==
    disk.onChain # HashZero =>
        /\ \E i \in 1 .. Len(idenStateList) : idenStateList[i] = disk.onChain
        /\ disk.onChain \in offChain

(* The roots tree holds no claims root beyond the last state listed.       *)
RootsInv == created = "yes" /\ pc # "append" => \A r \in rootsTree : r \subseteq FromEnd(1).clr

QuietInv == PhaseInv /\ MemInv /\ ServedInv /\ RootsInv /\ NoFatalError

-----------------------------------------------------------------------------
(* Without faults to spend, no call fails and nothing crashes.             *)
LEMMA NoFaultLeft == ASSUME MaxFaults = 0, TypeOK PROVE ~Fault
BY DEF TypeOK, Fault

(* And the roots in memory have their nodes in the storage.                *)
LEMMA StoredIsState ==
    ASSUME MaxFaults = 0, IndInv
    PROVE  ClaimsReadable /\ RevocationsReadable /\ RootsReadable /\ lost = NoLeaves
<1>1. faults = 0
  BY DEF IndInv, TypeOK
<1> QED
  BY <1>1 DEF IndInv, StoreInv

(* What the contract holds, as GetState and as the registry see it.        *)
LEMMA ContractFacts ==
    ASSUME TypeOK
    PROVE  /\ ContractState \in MaybeState
           /\ (ContractState = HashZero) <=> (chain = <<>>)
           /\ ContractState # HashZero => Reg!Latest = ContractState
           /\ ContractState = HashZero => Reg!Latest = GenesisState
<1>1. chain # <<>> => chain[Len(chain)] \in IdenState
  BY DEF TypeOK
<1> QED
  BY <1>1, HashZeroAssumption DEF ContractState, MaybeState, Reg!Latest

(* The fields of the registers after the setters.                          *)
LEMMA RegisterFields ==
    ASSUME NEW r \in Registers
    PROVE  /\ Adopt(r).pending = HashZero /\ Adopt(r).transacted = FALSE
           /\ Adopt(r).onChain = ContractState
           /\ \A b \in BOOLEAN : /\ SetPending(r, b).pending = idenState
                                /\ SetPending(r, b).transacted = b
                                /\ SetPending(r, b).onChain = r.onChain
           /\ RecordTx(r).pending = idenState /\ RecordTx(r).transacted = TRUE
           /\ RecordTx(r).onChain = r.onChain
           /\ mem.onChain = r.onChain => AwaitedTx(RecordTx(r)) = Len(txs)
BY DEF Registers, Adopt, SetPending, RecordTx, AwaitedTx

(* What a step that leaves the chain, the transactions and the list alone  *)
(* cannot change.                                                          *)
LEMMA Frame ==
    /\ UNCHANGED chain => UNCHANGED <<ContractState, Reg!Latest>>
    /\ UNCHANGED idenStateList => UNCHANGED FromEnd(1)
    /\ UNCHANGED txs => (NoneSent' <=> NoneSent)
    /\ UNCHANGED <<txs, chain>> /\ UNCHANGED <<disk.pending, disk.onChain>> =>
           (InFlight' <=> InFlight)
<1>1. UNCHANGED chain => UNCHANGED <<ContractState, Reg!Latest>>
  BY DEF ContractState, Reg!Latest
<1>2. UNCHANGED idenStateList => UNCHANGED FromEnd(1)
  BY DEF FromEnd
<1>3. UNCHANGED txs => (NoneSent' <=> NoneSent)
  BY DEF NoneSent
<1>4. UNCHANGED <<txs, chain>> /\ UNCHANGED <<disk.pending, disk.onChain>> =>
           (InFlight' <=> InFlight)
  BY <1>1 DEF InFlight, Accepts
<1> QED
  BY <1>1, <1>2, <1>3, <1>4

(* The lock is free: nothing is half done.                                 *)
LEMMA IdleFacts ==
    ASSUME IndInv, QuietInv, pc = "idle"
    PROVE  PhaseA \/ (PhaseC /\ disk.pending \in offChain)
BY DEF QuietInv, PhaseInv, PhaseB, PhaseC

(* SyncIdenStatePublic finds what it expects, and takes over the pending   *)
(* state when its transaction has all its confirmations.                   *)
LEMMA SyncIsQuiet ==
    ASSUME IndInv, QuietInv, pc = "idle"
    PROVE  /\ SyncOutcome(disk) \in {"ok", "adopt"}
           /\ SyncOutcome(disk) = "adopt" =>
                /\ PhaseC /\ disk.pending \in offChain
                /\ ContractState = disk.pending
                /\ Len(txs) \in DOMAIN txs
                /\ txs[Len(txs)].new = disk.pending
                /\ txs[Len(txs)].status = "ok"
                /\ txs[Len(txs)].conf = ConfirmBlocks
<1>1. CASE PhaseA
  <2>1. ~InC(disk) /\ ContractState = disk.onChain
    BY <1>1 DEF PhaseA, InA, InC
  <2> QED
    BY <2>1 DEF SyncOutcome
<1>2. CASE PhaseC /\ disk.pending \in offChain
  <2> DEFINE n == Len(txs)
  <2>1. /\ InC(disk) /\ ~InA(disk)
        /\ AwaitedTx(disk) = n /\ n # NoTx
        /\ n \in DOMAIN txs
        /\ txs[n] \in Transactions
    BY <1>2, ParamAssumption DEF PhaseC, InC, InA, InFlight, IndInv, TypeOK
  <2>2. /\ txs[n].new = disk.pending
        /\ txs[n].status # "failed"
        /\ txs[n].status # "sent" => txs[n].status = "ok" /\ ContractState = disk.pending
    BY <1>2 DEF PhaseC, InFlight
  <2>3. txs[n].conf \in 0 .. ConfirmBlocks /\ ConfirmBlocks \in Nat
    BY <2>1, ParamAssumption DEF Transactions
  <2>4. ~Unconfirmed(txs[n]) => txs[n].status # "sent" /\ txs[n].conf = ConfirmBlocks
    BY <2>3 DEF Unconfirmed
  <2> HIDE DEF n
  <2>5. CASE Unconfirmed(txs[n])
    BY <2>1, <2>2, <2>5 DEF SyncOutcome
  <2>6. CASE ~Unconfirmed(txs[n])
    <3>1. SyncOutcome(disk) = IF ContractState = disk.onChain THEN "ok" ELSE "adopt"
      BY <2>1, <2>2, <2>4, <2>6 DEF SyncOutcome
    <3> QED
      BY <1>2, <3>1, <2>1, <2>2, <2>4, <2>6 DEF n
  <2> QED
    BY <2>5, <2>6
<1> QED
  BY <1>1, <1>2, IdleFacts

-----------------------------------------------------------------------------
(* Init establishes the invariant.                                         *)
LEMMA InitQuiet == Init => QuietInv
<1> SUFFICES ASSUME Init PROVE QuietInv
  OBVIOUS
<1> USE DEF Init
<1>1. PhaseA
  <2>1. NoneSent
    BY DEF NoneSent
  <2> QED
    BY <2>1 DEF PhaseA, InA, ZeroRegisters, ContractState
<1>2. MemInv /\ ServedInv /\ RootsInv /\ NoFatalError
  BY DEF MemInv, ServedInv, RootsInv, NoFatalError, ZeroRegisters
<1> QED
  BY <1>1, <1>2 DEF QuietInv, PhaseInv

(* A step within a phase: the lock is free or held by IssueClaim, before   *)
(* and after, and what the phases speak of stays as it is.                 *)
LEMMA WithinPhase ==
    ASSUME QuietInv, MemInv', NoFatalError',
           UNCHANGED <<created, rootsTree, idenStateList, disk, txs, chain, offChain>>,
           pc \in {"idle", "issue"}, pc' \in {"idle", "issue"}
    PROVE  QuietInv'
<1> USE Frame DEF QuietInv
<1>1. ServedInv'
  BY DEF ServedInv
<1>2. RootsInv'
  BY DEF RootsInv
<1>3. PhaseA => PhaseA'
  BY DEF PhaseA, InA
<1>4. PhaseC => PhaseC'
  BY DEF PhaseC, InC, AwaitedTx
<1>5. ~PhaseB
  BY DEF PhaseB
<1> QED
  BY <1>1, <1>2, <1>3, <1>4, <1>5 DEF PhaseInv

-----------------------------------------------------------------------------
(* One lemma for each action, in a behaviour without faults.               *)

(* Create, and Create over its own trees: nothing was published yet.       *)
LEMMA CreateQuiet ==
    ASSUME IndInv, QuietInv, CreateTrees \/ CreateCommit \/ CreateAgain
    PROVE  QuietInv'
<1> USE Frame DEF QuietInv
<1>1. created # "yes" /\ created \in {"no", "trees"}
  BY DEF IndInv, TypeOK, ControlInv, CreateTrees, CreateCommit, CreateAgain
<1>2. /\ disk = ZeroRegisters /\ disk' = ZeroRegisters
      /\ pc \in {"idle", "create"}
      /\ ~up /\ ~up'
      /\ UNCHANGED <<txs, chain>>
  BY <1>1 DEF IndInv, ControlInv, CreateTrees, CreateCommit, CreateAgain, env
<1>3. PhaseA
  BY <1>2 DEF PhaseInv, PhaseB, PhaseC, InC, ZeroRegisters
<1>4. ContractState = HashZero /\ Reg!Latest = GenesisState
  BY <1>2, <1>3, ContractFacts DEF IndInv, PhaseA, ZeroRegisters
<1>5. /\ pc' \in {"idle", "create"} /\ NoFatalError'
      /\ created' # "yes" \/ CreateCommit
  BY <1>1 DEF CreateTrees, CreateCommit, CreateAgain, Return, NoFatalError
<1>6. CreateCommit => FromEnd(1)' = GenesisState
  <2> SUFFICES ASSUME CreateCommit PROVE FromEnd(1)' = GenesisState
    OBVIOUS
  <2>1. State = GenesisState /\ idenStateList' = <<GenesisState>>
    BY <1>1 DEF CreateCommit, IndInv, ControlInv
  <2> QED
    BY <2>1 DEF FromEnd
<1>7. PhaseA'
  BY <1>2, <1>3, <1>4, <1>5, <1>6 DEF PhaseA, InA, ZeroRegisters
<1>8. RootsInv'
  <2> SUFFICES ASSUME CreateCommit PROVE \A r \in rootsTree : r \subseteq GenesisState.clr
    BY <1>5, <1>6 DEF RootsInv, CreateCommit
  <2>1. State = GenesisState
    BY <1>1 DEF CreateCommit, IndInv, ControlInv
  <2> QED
    BY <2>1, GenesisFacts DEF State, StateWith, GenesisState
<1>9. MemInv' /\ ServedInv'
  BY <1>2 DEF MemInv, ServedInv, ZeroRegisters
<1> QED
  BY <1>5, <1>7, <1>8, <1>9 DEF PhaseInv

(* (C) -> (A): the pending state is listed, public and in the contract.    *)
LEMMA AdoptQuiet ==
    ASSUME IndInv, QuietInv, pc = "idle", created = "yes", SyncOutcome(disk) = "adopt",
           disk' = Adopt(disk), mem' = Adopt(disk), up', pc' = "idle", result' = "ok",
           UNCHANGED <<created, rootsTree, idenStateList, txs, chain, offChain>>
    PROVE  QuietInv'
<1> USE Frame
<1>1. /\ PhaseC /\ disk.pending \in offChain
      /\ ContractState = disk.pending
      /\ txs[Len(txs)].status = "ok"
  BY SyncIsQuiet
<1>2. /\ disk'.pending = HashZero /\ ~disk'.transacted
      /\ disk'.onChain = ContractState
  BY RegisterFields DEF IndInv, TypeOK
<1>3. NoneSent'
  <2>1. Len(txs) \in Nat
    BY DEF IndInv, TypeOK
  <2>2. \A i \in 1 .. Len(txs) - 1 : txs[i].status # "sent"
    BY <1>1 DEF PhaseC, InFlight
  <2> QED
    BY <2>1, <2>2, <1>1 DEF NoneSent
<1>4. FromEnd(1) = Reg!Latest /\ disk.pending # HashZero /\ FromEnd(1) = disk.pending
  BY <1>1, ContractFacts DEF PhaseC, InC, IndInv
<1>5. PhaseA'
  BY <1>2, <1>3, <1>4 DEF PhaseA, InA
<1>6. ServedInv'
  <2>1. /\ Len(idenStateList) \in 1 .. Len(idenStateList)
        /\ idenStateList[Len(idenStateList)] = FromEnd(1)
    BY DEF IndInv, ControlInv, TypeOK, FromEnd
  <2> QED
    BY <2>1, <1>1, <1>2, <1>4 DEF ServedInv
<1>7. RootsInv'
  BY DEF QuietInv, RootsInv
<1>8. MemInv' /\ NoFatalError'
  BY DEF MemInv, NoFatalError
<1> QED
  BY <1>5, <1>6, <1>7, <1>8 DEF QuietInv, PhaseInv

(* Load finds the registers of a storage that was never published from.    *)
LEMMA LoadQuiet == ASSUME IndInv, QuietInv, Load PROVE QuietInv'
<1> USE DEF Load, Return
<1>1. pc = "idle"
  BY DEF IndInv, ControlInv, TypeOK, Publishing
<1>2. SyncOutcome(disk) \in {"ok", "adopt"}
  BY <1>1, SyncIsQuiet
<1>3. CASE SyncOutcome(disk) = "ok"
  <2>1. /\ UNCHANGED <<created, rootsTree, idenStateList, disk, txs, chain, offChain>>
        /\ pc' = "idle"
    BY <1>3 DEF trees, env
  <2>2. MemInv' /\ NoFatalError'
    BY <1>3 DEF MemInv, NoFatalError
  <2> QED
    BY <1>1, <2>1, <2>2, WithinPhase
<1>4. CASE SyncOutcome(disk) = "adopt"
  <2>1. /\ UNCHANGED <<created, rootsTree, idenStateList, txs, chain, offChain>>
        /\ created = "yes" /\ pc' = "idle" /\ result' = "ok"
        /\ up' /\ disk' = Adopt(disk) /\ mem' = Adopt(disk)
    BY <1>4 DEF trees, env
  <2> QED
    BY <1>1, <1>4, <2>1, AdoptQuiet
<1> QED
  BY <1>2, <1>3, <1>4

(* SyncIdenStatePublic takes over the pending state or changes nothing.    *)
LEMMA SyncQuiet ==
    ASSUME MaxFaults = 0, IndInv, QuietInv, SyncIdenStatePublic PROVE QuietInv'
<1> USE DEF SyncIdenStatePublic, Idle, Return
<1>1. ~Fault /\ pc = "idle" /\ up /\ mem = disk /\ created = "yes"
  BY NoFaultLeft, MethodsNeedCreate DEF IndInv, QuietInv, MemInv
<1>2. SyncOutcome(disk) \in {"ok", "adopt"}
  BY <1>1, SyncIsQuiet
<1>3. CASE SyncOutcome(disk) = "ok"
  <2>1. /\ UNCHANGED <<created, rootsTree, idenStateList, disk, txs, chain, offChain>>
        /\ UNCHANGED <<up, mem>> /\ pc' = "idle" /\ result' = "ok"
    BY <1>1, <1>3 DEF trees, env
  <2>2. MemInv' /\ NoFatalError'
    BY <1>1, <2>1 DEF MemInv, NoFatalError
  <2> QED
    BY <1>1, <2>1, <2>2, WithinPhase
<1>4. CASE SyncOutcome(disk) = "adopt"
  <2>1. /\ UNCHANGED <<created, rootsTree, idenStateList, txs, chain, offChain>>
        /\ pc' = "idle" /\ result' = "ok"
        /\ up' /\ disk' = Adopt(disk) /\ mem' = Adopt(disk)
    BY <1>1, <1>4 DEF trees, env
  <2> QED
    BY <1>1, <1>4, <2>1, AdoptQuiet
<1> QED
  BY <1>2, <1>3, <1>4

(* Issuing and revoking go on in every phase.                              *)
LEMMA ApplicationQuiet ==
    ASSUME IndInv, QuietInv,
           \/ \E c \in Claims : IssueClaimNonce(c)
           \/ IssueClaimAdd
           \/ \E c \in Claims \cup {KOp} : RevokeClaim(c)
    PROVE  QuietInv'
<1>1. /\ UNCHANGED <<created, rootsTree, idenStateList, disk, txs, chain, offChain>>
      /\ UNCHANGED <<up, mem>>
      /\ pc \in {"idle", "issue"} /\ pc' \in {"idle", "issue"}
      /\ result' \in {result, "ok", "error"}
  BY DEF IssueClaimNonce, IssueClaimAdd, RevokeClaim, Idle, Return, Goto, env
<1>2. MemInv'
  BY <1>1 DEF QuietInv, MemInv
<1>3. NoFatalError'
  BY <1>1 DEF QuietInv, NoFatalError
<1> QED
  BY <1>1, <1>2, <1>3, WithinPhase

(* PublishState is never left without a state to go back to, and never     *)
(* finds its claims root in the roots tree already.                        *)
LEMMA ReturnQuiet == ASSUME MaxFaults = 0, IndInv, QuietInv, PublishStateReturn PROVE QuietInv'
<1> USE DEF PublishStateReturn, Idle, Return
<1>1. pc = "idle" /\ up /\ mem = disk /\ created = "yes"
  BY MethodsNeedCreate DEF QuietInv, MemInv
<1>2. InA(mem) \/ InC(mem)
  BY <1>1, IdleFacts DEF PhaseA, PhaseC
<1>3. claimsTree # FromEnd(1).clr => RootsReadable /\ claimsTree \notin rootsTree
  <2>1. FromEnd(1).clr \subseteq claimsTree
    <3>1. lost.clr = {} /\ stored.clr \subseteq claimsTree
      BY StoredIsState DEF IndInv, StoreInv, NoLeaves
    <3>2. ExtendsBut(lost, FromEnd(1), stored)
      BY <1>1, FromEndType DEF IndInv, ControlInv, TypeOK, HistoryInv, FromEnd
    <3> QED
      BY <3>1, <3>2 DEF ExtendsBut
  <2>2. \A r \in rootsTree : r \subseteq FromEnd(1).clr
    BY <1>1 DEF QuietInv, RootsInv
  <2> QED
    BY <2>1, <2>2, StoredIsState
<1>4. result' \in {"error", "ok"}
  BY <1>2, <1>3
<1>5. /\ UNCHANGED <<created, rootsTree, idenStateList, disk, txs, chain, offChain>>
      /\ UNCHANGED <<up, mem>> /\ pc' = "idle"
  BY DEF trees, env
<1>6. MemInv' /\ NoFatalError'
  BY <1>1, <1>4, <1>5 DEF MemInv, NoFatalError
<1> QED
  BY <1>1, <1>5, <1>6, WithinPhase

(* PublishState starts from the state the contract holds, or from the      *)
(* genesis state when it holds none.                                       *)
LEMMA RootsQuiet == ASSUME IndInv, QuietInv, PublishStateRoots PROVE QuietInv'
<1> USE Frame DEF PublishStateRoots, Idle, Goto, env
<1>1. pc = "idle" /\ up /\ mem = disk /\ created = "yes" /\ pc' = "append"
  BY MethodsNeedCreate DEF QuietInv, MemInv
<1>2. PhaseA
  BY <1>1, IdleFacts DEF PhaseC, InA, InC
<1>3. PhaseA'
  BY <1>1, <1>2 DEF PhaseA, InA
<1>4. MemInv' /\ ServedInv' /\ RootsInv' /\ NoFatalError'
  BY <1>1 DEF QuietInv, MemInv, ServedInv, RootsInv, NoFatalError
<1> QED
  BY <1>3, <1>4 DEF QuietInv, PhaseInv

(* (A) -> (B)                                                              *)
LEMMA AppendQuiet ==
    ASSUME MaxFaults = 0, IndInv, QuietInv, PublishStateAppend PROVE QuietInv'
<1> USE Frame DEF PublishStateAppend, AppendState, Goto, env, locals, trees
<1>1. /\ ~Fault /\ up /\ mem = disk /\ pc = "append" /\ pc' = "send"
      /\ disk' = SetPending(disk, FALSE) /\ mem' = disk'
      /\ idenStateList' = Append(idenStateList, idenState)
      /\ UNCHANGED <<created, up, idenState, idenStateLast, claimsTree, rootsTree, txs, chain,
                     offChain, result>>
  BY NoFaultLeft DEF QuietInv, MemInv, IndInv, ControlInv, Publishing
<1>2. PhaseA
  BY <1>1 DEF QuietInv, PhaseInv, PhaseB, PhaseC
<1>3. /\ disk'.pending = idenState /\ disk'.transacted = FALSE
      /\ disk'.onChain = disk.onChain
  BY <1>1, RegisterFields DEF IndInv, TypeOK
<1>4. /\ FromEnd(1)' = idenState
      /\ Len(idenStateList') = Len(idenStateList) + 1 /\ Len(idenStateList) \in Nat
      /\ \A i \in 1 .. Len(idenStateList) : idenStateList'[i] = idenStateList[i]
  BY <1>1 DEF IndInv, TypeOK, FromEnd
<1>5. PhaseB'
  BY <1>1, <1>2, <1>3, <1>4 DEF PhaseA, PhaseB
<1>6. ServedInv'
  <2>1. 1 .. Len(idenStateList) \subseteq 1 .. Len(idenStateList')
    BY <1>4
  <2> QED
    BY <1>1, <1>3, <1>4, <2>1 DEF QuietInv, ServedInv
<1>7. RootsInv'
  BY <1>1, <1>4, StoredIsState DEF RootsInv, IndInv, NonceInv, PublishInv, Publishing,
     Reg!WellFormed, State, StateWith, NoLeaves
<1>8. MemInv' /\ NoFatalError'
  BY <1>1 DEF QuietInv, MemInv, NoFatalError
<1> QED
  BY <1>5, <1>6, <1>7, <1>8 DEF QuietInv, PhaseInv

(* Nothing has to be tried again.                                          *)
LEMMA NoRetry == ASSUME IndInv, QuietInv PROVE ~PublishStateRetry
<1> SUFFICES ASSUME PublishStateRetry PROVE FALSE
  OBVIOUS
<1>1. pc = "idle" /\ mem = disk /\ ~InA(disk) /\ ~InC(disk)
  BY DEF PublishStateRetry, Idle, QuietInv, MemInv
<1> QED
  BY <1>1, IdleFacts DEF PhaseA, PhaseC

(* The transaction that is sent is the one the contract will accept.       *)
LEMMA SendQuiet ==
    ASSUME MaxFaults = 0, IndInv, QuietInv, PublishStateSend PROVE QuietInv'
<1> USE Frame DEF PublishStateSend, Goto, locals, trees
<1>1. /\ ~Fault /\ up /\ mem = disk /\ pc = "send" /\ pc' = "record"
      /\ txs' = Append(txs, NewTransaction)
      /\ UNCHANGED <<created, up, idenState, rootsTree, idenStateList, disk, mem, chain, offChain,
                     result>>
  BY NoFaultLeft DEF QuietInv, MemInv, IndInv, ControlInv, Publishing
<1>2. /\ PhaseB /\ NoneSent
      /\ ContractState = disk.onChain
      /\ idenStateLast = Reg!Latest
      /\ disk.pending = idenState
  BY <1>1 DEF QuietInv, PhaseInv, PhaseA, PhaseB, PhaseC
<1>3. Accepts(NewTransaction)
  <2>1. CASE mem.onChain = HashZero
    <3>1. chain = <<>> /\ Reg!Latest = GenesisState
      BY <2>1, <1>1, <1>2, ContractFacts DEF IndInv
    <3> QED
      BY <2>1, <3>1, <1>2 DEF Accepts, NewTransaction
  <2>2. CASE mem.onChain # HashZero
    <3>1. chain # <<>> /\ Reg!Latest = chain[Len(chain)]
      BY <2>2, <1>1, <1>2, ContractFacts DEF IndInv, Reg!Latest
    <3> QED
      BY <2>2, <3>1, <1>2 DEF Accepts, NewTransaction
  <2> QED
    BY <2>1, <2>2
<1>4. /\ Len(txs) \in Nat /\ Len(txs') = Len(txs) + 1
      /\ \A i \in 1 .. Len(txs) : txs'[i] = txs[i]
      /\ txs'[Len(txs) + 1] = NewTransaction
  BY <1>1, NewTransactionType DEF IndInv, TypeOK
<1>5. InFlight'
  <2>1. /\ Len(txs') >= 1
        /\ \A i \in 1 .. Len(txs') - 1 : txs'[i].status # "sent"
    BY <1>2, <1>4 DEF NoneSent
  <2>2. NewTransaction.new = idenState /\ NewTransaction.status = "sent"
    BY DEF NewTransaction
  <2>3. Accepts(txs[Len(txs)])'
    <3>1. txs'[Len(txs')] = NewTransaction
      BY <1>4
    <3> QED
      BY <1>1, <1>3, <3>1 DEF Accepts
  <2> QED
    BY <2>1, <2>2, <2>3, <1>1, <1>2, <1>4 DEF InFlight
<1>6. PhaseB'
  BY <1>1, <1>2, <1>5 DEF PhaseB
<1>7. MemInv' /\ ServedInv' /\ RootsInv' /\ NoFatalError'
  BY <1>1 DEF QuietInv, MemInv, ServedInv, RootsInv, NoFatalError
<1> QED
  BY <1>6, <1>7 DEF QuietInv, PhaseInv

(* (B) -> (C)                                                              *)
LEMMA RecordQuiet ==
    ASSUME MaxFaults = 0, IndInv, QuietInv, PublishStateRecord PROVE QuietInv'
<1> USE Frame DEF PublishStateRecord, Goto, locals, trees, env
<1>1. /\ ~Fault /\ up /\ mem = disk /\ pc = "record" /\ pc' = "offchain"
      /\ disk' = RecordTx(disk) /\ mem' = disk'
      /\ UNCHANGED <<created, up, idenState, rootsTree, idenStateList, txs, chain, offChain, result>>
  BY NoFaultLeft DEF QuietInv, MemInv, IndInv, ControlInv, Publishing
<1>2. PhaseB /\ InFlight /\ disk.pending = idenState
  BY <1>1 DEF QuietInv, PhaseInv, PhaseA, PhaseB, PhaseC
<1>3. /\ disk'.pending = idenState /\ disk'.transacted
      /\ disk'.onChain = disk.onChain
      /\ AwaitedTx(disk') = Len(txs)
      /\ idenState # HashZero
  BY <1>1, RegisterFields, HashZeroAssumption DEF IndInv, TypeOK
<1>4. InFlight'
  BY <1>1, <1>2, <1>3
<1>5. AwaitedTx(disk)' = Len(txs)
  BY <1>3 DEF AwaitedTx
<1>6. PhaseC'
  BY <1>1, <1>2, <1>3, <1>4, <1>5 DEF PhaseB, PhaseC, InC
<1>7. MemInv' /\ ServedInv' /\ RootsInv' /\ NoFatalError'
  BY <1>1, <1>3 DEF QuietInv, MemInv, ServedInv, RootsInv, NoFatalError
<1> QED
  BY <1>6, <1>7 DEF QuietInv, PhaseInv

(* The pending state becomes public before the lock is free again.         *)
LEMMA OffChainQuiet ==
    ASSUME MaxFaults = 0, IndInv, QuietInv, PublishStateOffChain PROVE QuietInv'
<1> USE Frame DEF PublishStateOffChain, Return, trees, env
<1>1. /\ ~Fault /\ up /\ pc = "offchain" /\ pc' = "idle" /\ result' = "ok"
      /\ offChain' = offChain \cup {idenState}
      /\ UNCHANGED <<created, up, rootsTree, idenStateList, disk, mem, txs, chain>>
  BY NoFaultLeft, StoredIsState DEF IndInv, ControlInv, Publishing
<1>2. PhaseC /\ idenState = disk.pending
  BY <1>1 DEF QuietInv, PhaseInv, PhaseA, PhaseB, PhaseC
<1>3. PhaseC'
  BY <1>1, <1>2 DEF PhaseC, InC, AwaitedTx
<1>4. MemInv' /\ ServedInv' /\ RootsInv' /\ NoFatalError'
  BY <1>1 DEF QuietInv, MemInv, ServedInv, RootsInv, NoFatalError
<1> QED
  BY <1>3, <1>4 DEF QuietInv, PhaseInv

(* The chain changes no phase: what it executes is the transaction of the  *)
(* pending state, and it accepts it.                                       *)
LEMMA ChainQuiet ==
    ASSUME QuietInv, NoneSent \/ InFlight, NoneSent => NoneSent' /\ UNCHANGED chain,
           InFlight => InFlight', Len(txs') = Len(txs),
           UNCHANGED <<created, up, pc, idenState, idenStateLast, rootsTree, idenStateList, disk, mem,
                       offChain, result>>
    PROVE  QuietInv'
<1> USE Frame DEF QuietInv
<1>1. MemInv' /\ ServedInv' /\ RootsInv' /\ NoFatalError'
  BY DEF MemInv, ServedInv, RootsInv, NoFatalError
<1>2. PhaseA => PhaseA'
  BY DEF PhaseA, InA
<1>3. PhaseB => PhaseB'
  BY DEF PhaseB
<1>4. PhaseC => PhaseC'
  BY DEF PhaseC, InC, AwaitedTx
<1> QED
  BY <1>1, <1>2, <1>3, <1>4 DEF PhaseInv

(* In every phase, the transactions have receipts but for the last one.    *)
LEMMA SentOrNot == ASSUME QuietInv PROVE NoneSent \/ InFlight
BY DEF QuietInv, PhaseInv, PhaseA, PhaseB, PhaseC

LEMMA MineQuiet == ASSUME IndInv, QuietInv, MineTx PROVE QuietInv'
<1>1. PICK i \in DOMAIN txs :
        /\ txs[i].status = "sent"
        /\ \/ /\ Accepts(txs[i])
              /\ txs' = [txs EXCEPT ![i].status = "ok"]
              /\ chain' = Append(chain, txs[i].new)
           \/ /\ ~Accepts(txs[i])
              /\ txs' = [txs EXCEPT ![i].status = "failed"]
              /\ UNCHANGED chain
  BY DEF MineTx
<1>2. UNCHANGED <<created, up, pc, idenState, idenStateLast, rootsTree, idenStateList, disk, mem,
                  offChain, result>>
  BY DEF MineTx, locals, trees
<1>3. /\ txs \in Seq(Transactions) /\ DOMAIN txs = 1 .. Len(txs) /\ Len(txs) \in Nat
      /\ txs[i] \in Transactions /\ txs[i].new \in IdenState
      /\ chain \in Seq(IdenState)
  <2>1. txs \in Seq(Transactions) /\ chain \in Seq(IdenState)
    BY DEF IndInv, TypeOK
  <2>2. DOMAIN txs = 1 .. Len(txs) /\ Len(txs) \in Nat /\ txs[i] \in Transactions
    BY <2>1
  <2>3. txs[i].new \in IdenState
    BY <2>2 DEF Transactions
  <2> QED
    BY <2>1, <2>2, <2>3
<1>4. Len(txs') = Len(txs)
  BY <1>1, <1>3
<1>5. ~NoneSent
  BY <1>1, <1>3 DEF NoneSent
<1>6. InFlight => InFlight'
  <2> SUFFICES ASSUME InFlight PROVE InFlight'
    OBVIOUS
  <2>1. /\ Len(txs) >= 1
        /\ \A k \in 1 .. Len(txs) - 1 : txs[k].status # "sent"
        /\ txs[Len(txs)].new = disk.pending
        /\ txs[Len(txs)].status = "sent" => Accepts(txs[Len(txs)])
    BY DEF InFlight
  <2>2. i = Len(txs)
    BY <1>1, <1>3, <2>1
  <2>3. /\ txs' = [txs EXCEPT ![i].status = "ok"]
        /\ chain' = Append(chain, disk.pending)
        /\ disk.pending \in IdenState
    BY <1>1, <1>3, <2>1, <2>2
  <2>4. ContractState' = disk.pending
    BY <2>3, <1>3 DEF ContractState
  <2>5. /\ \A k \in 1 .. Len(txs) - 1 : txs'[k] = txs[k]
        /\ txs'[Len(txs)] = [txs[Len(txs)] EXCEPT !.status = "ok"]
    BY <2>2, <2>3, <1>3
  <2>6. txs'[Len(txs)].status = "ok" /\ txs'[Len(txs)].new = disk.pending
    BY <2>1, <2>2, <2>5, <1>3 DEF Transactions
  <2>7. \A k \in 1 .. Len(txs) - 1 : txs'[k].status # "sent"
    BY <2>1, <2>5
  <2> QED
    BY <1>2, <1>4, <2>1, <2>4, <2>6, <2>7 DEF InFlight
<1> QED
  BY <1>2, <1>4, <1>5, <1>6, SentOrNot, ChainQuiet

LEMMA BlockQuiet == ASSUME IndInv, QuietInv, NewBlock PROVE QuietInv'
<1>1. UNCHANGED <<created, up, pc, idenState, idenStateLast, rootsTree, idenStateList, disk, mem,
                  offChain, result, chain>>
  BY DEF NewBlock, locals, trees
<1>2. /\ txs' = [i \in DOMAIN txs |-> Confirmed(txs[i])]
      /\ txs \in Seq(Transactions) /\ DOMAIN txs = 1 .. Len(txs) /\ Len(txs) \in Nat
      /\ \A i \in DOMAIN txs : txs[i] \in Transactions
  BY DEF NewBlock, IndInv, TypeOK
<1>3. \A tx \in Transactions : /\ Confirmed(tx).status = tx.status /\ Confirmed(tx).new = tx.new
                               /\ Confirmed(tx).old = tx.old /\ Confirmed(tx).kind = tx.kind
  BY DEF Confirmed, Transactions
<1>4. Len(txs') = Len(txs)
  BY <1>2
<1>5. \A i \in 1 .. Len(txs) :
        /\ txs'[i].status = txs[i].status /\ txs'[i].new = txs[i].new
        /\ txs'[i].old = txs[i].old /\ txs'[i].kind = txs[i].kind
  BY <1>2, <1>3
<1>6. NoneSent => NoneSent'
  BY <1>4, <1>5 DEF NoneSent
<1>7. InFlight => InFlight'
  <2> SUFFICES ASSUME InFlight PROVE InFlight'
    OBVIOUS
  <2>1. Len(txs) \in 1 .. Len(txs) /\ 1 .. Len(txs) - 1 \subseteq 1 .. Len(txs)
    BY <1>2 DEF InFlight
  <2>2. Accepts(txs[Len(txs)]) => Accepts(txs[Len(txs)])'
    BY <2>1, <1>1, <1>4, <1>5 DEF Accepts
  <2>3. \A k \in 1 .. Len(txs) - 1 : txs'[k].status # "sent"
    BY <2>1, <1>5 DEF InFlight
  <2> QED
    BY <2>1, <2>2, <2>3, <1>1, <1>4, <1>5, Frame DEF InFlight
<1> QED
  BY <1>1, <1>4, <1>6, <1>7, SentOrNot, ChainQuiet

-----------------------------------------------------------------------------
(* A step that changes nothing.                                            *)
LEMMA StutterQuiet == ASSUME QuietInv, UNCHANGED vars PROVE QuietInv'
BY ChainQuiet, SentOrNot, Frame DEF vars, locals, trees, env

(* The inductive step.                                                     *)
LEMMA NextQuiet ==
    ASSUME MaxFaults = 0, IndInv, QuietInv, [Next]_vars PROVE QuietInv'
<1>1. CASE CreateTrees \/ CreateCommit \/ CreateAgain
  BY <1>1, CreateQuiet
<1>2. CASE Load \/ SyncIdenStatePublic
  BY <1>2, LoadQuiet, SyncQuiet
<1>3. CASE \/ \E c \in Claims : IssueClaimNonce(c)
           \/ IssueClaimAdd
           \/ \E c \in Claims \cup {KOp} : RevokeClaim(c)
  BY <1>3, ApplicationQuiet
<1>4. CASE PublishStateReturn \/ PublishStateRoots \/ PublishStateAppend \/ PublishStateRetry
  BY <1>4, ReturnQuiet, RootsQuiet, AppendQuiet, NoRetry
<1>5. CASE PublishStateSend \/ PublishStateRecord \/ PublishStateOffChain
  BY <1>5, SendQuiet, RecordQuiet, OffChainQuiet
<1>6. CASE Crash \/ PublishStateRootsFails
  BY <1>6, NoFaultLeft DEF Crash, PublishStateRootsFails, IndInv
<1>7. CASE MineTx \/ NewBlock
  BY <1>7, MineQuiet, BlockQuiet
<1>8. CASE UNCHANGED vars
  BY <1>8, StutterQuiet
<1> QED
  BY <1>1, <1>2, <1>3, <1>4, <1>5, <1>6, <1>7, <1>8 DEF Next

(* As long as no call fails and nothing crashes, registers, list, contract *)
(* and transactions stay in step through every publication.                *)
THEOREM QuietInvariance == ASSUME MaxFaults = 0 PROVE Spec => []QuietInv
<1>1. IndInv /\ QuietInv /\ [Next]_vars => QuietInv'
  BY NextQuiet
<1> QED
  BY <1>1, InitQuiet, Invariance, PTL DEF Spec

(* Then no transaction of PublishState is rejected, SyncIdenStatePublic    *)
(* never meets a state it does not know, and neither call runs into an     *)
(* error it cannot come out of.                                            *)
THEOREM NeverFatal == ASSUME MaxFaults = 0 PROVE Spec => []NoFatalError
<1>1. QuietInv => NoFatalError
  BY DEF QuietInv
<1> QED
  BY <1>1, QuietInvariance, PTL

(* The state the issuer knows to be on chain can be served: it is in the   *)
(* list for GenCredentialExistence, and its data is public off chain.      *)
THEOREM KnownServed == ASSUME MaxFaults = 0 PROVE Spec => []KnownStateServed
<1>1. IndInv /\ QuietInv => KnownStateServed
  <2> SUFFICES ASSUME IndInv, QuietInv, Idle, mem.onChain # HashZero
               PROVE  /\ \E i \in DOMAIN idenStateList : idenStateList[i] = mem.onChain
                      /\ mem.onChain \in offChain
    BY DEF KnownStateServed
  <2>1. mem = disk /\ DOMAIN idenStateList = 1 .. Len(idenStateList)
    BY DEF QuietInv, MemInv, Idle, IndInv, TypeOK
  <2> QED
    BY <2>1 DEF QuietInv, ServedInv
<1> QED
  BY <1>1, Invariance, QuietInvariance, PTL

(* The steps that write the stored registers are the three of the graph.   *)
LEMMA RegisterSteps ==
    ASSUME MaxFaults = 0, IndInv, QuietInv, [Next]_vars
    PROVE  \/ UNCHANGED disk
           \/ pc = "append" /\ disk' = SetPending(disk, FALSE)
           \/ pc = "record" /\ disk' = RecordTx(disk)
           \/ pc = "idle" /\ SyncOutcome(disk) = "adopt" /\ disk' = Adopt(disk)
<1>1. ~Fault
  BY NoFaultLeft DEF IndInv
<1>2. CASE CreateCommit
  BY <1>2 DEF CreateCommit, IndInv, TypeOK, ControlInv
<1>3. CASE Load
  <2>1. pc = "idle"
    BY <1>3 DEF Load, IndInv, ControlInv, TypeOK, Publishing
  <2> QED
    BY <1>3, <2>1 DEF Load
<1>4. CASE SyncIdenStatePublic
  BY <1>1, <1>4 DEF SyncIdenStatePublic, Idle, QuietInv, MemInv
<1>5. CASE PublishStateAppend
  BY <1>1, <1>5 DEF PublishStateAppend
<1>6. CASE PublishStateRecord
  BY <1>1, <1>6 DEF PublishStateRecord
<1>7. CASE UNCHANGED vars
  BY <1>7 DEF vars
<1>8. CASE \/ CreateTrees \/ CreateAgain \/ (\E c \in Claims : IssueClaimNonce(c)) \/ IssueClaimAdd
           \/ (\E c \in Claims \cup {KOp} : RevokeClaim(c))
           \/ PublishStateReturn \/ PublishStateRoots \/ PublishStateRootsFails
           \/ PublishStateRetry
           \/ PublishStateSend \/ PublishStateOffChain
           \/ Crash \/ MineTx \/ NewBlock
  BY <1>8 DEF CreateTrees, CreateAgain, IssueClaimNonce, IssueClaimAdd, RevokeClaim,
     PublishStateReturn, PublishStateRoots, PublishStateRootsFails, PublishStateRetry,
     PublishStateSend, PublishStateOffChain, Crash, MineTx, NewBlock
<1> QED
  BY <1>2, <1>3, <1>4, <1>5, <1>6, <1>7, <1>8 DEF Next

(* SyncIdenStatePublic and Load take a state over only when the transaction*)
(* that carried it has all the confirmations that were asked for.          *)
THEOREM AdoptsOnlyConfirmed == ASSUME MaxFaults = 0 PROVE Spec => AdoptsConfirmed
<1>1. ASSUME IndInv, QuietInv, [Next]_vars, disk'.onChain # disk.onChain
      PROVE  \E i \in DOMAIN txs : /\ txs[i].new = disk'.onChain
                                   /\ txs[i].status = "ok"
                                   /\ txs[i].conf = ConfirmBlocks
  <2>1. /\ pc = "idle" /\ SyncOutcome(disk) = "adopt"
        /\ disk'.onChain = ContractState
    BY <1>1, RegisterSteps, RegisterFields DEF IndInv, TypeOK
  <2> QED
    BY <1>1, <2>1, SyncIsQuiet
<1>2. IndInv /\ QuietInv /\ [Next]_vars =>
        (disk'.onChain # disk.onChain =>
           \E i \in DOMAIN txs : /\ txs[i].new = disk'.onChain
                                 /\ txs[i].status = "ok"
                                 /\ txs[i].conf = ConfirmBlocks)
  BY <1>1
<1> QED
  BY <1>2, Invariance, QuietInvariance, PTL DEF Spec, AdoptsConfirmed

(* A step of the issuer is a step of the state graph or leaves the stored  *)
(* registers as they were.                                                 *)
LEMMA StepRefinesGraph ==
    ASSUME MaxFaults = 0, IndInv, QuietInv, [Next]_vars
    PROVE  Graph!Next \/ UNCHANGED <<disk.pending, disk.transacted, disk.onChain>>
<1>1. disk \in Registers /\ idenState \in IdenState /\ idenState # HashZero
  BY HashZeroAssumption DEF IndInv, TypeOK
<1>2. CASE pc = "append" /\ disk' = SetPending(disk, FALSE)
  <2>1. InA(disk)
    BY <1>2 DEF QuietInv, PhaseInv, PhaseA, PhaseB, PhaseC
  <2>2. disk'.pending = idenState /\ disk'.transacted = FALSE /\ disk'.onChain = disk.onChain
    BY <1>1, <1>2, RegisterFields
  <2> QED
    BY <1>1, <2>1, <2>2 DEF InA, Graph!Next, Graph!Compute, Graph!A, Graph!B
<1>3. CASE pc = "record" /\ disk' = RecordTx(disk)
  <2>1. disk.pending = idenState /\ ~disk.transacted
    BY <1>3 DEF QuietInv, PhaseInv, PhaseA, PhaseB, PhaseC
  <2>2. disk'.pending = idenState /\ disk'.transacted = TRUE /\ disk'.onChain = disk.onChain
    BY <1>1, <1>3, RegisterFields
  <2> QED
    BY <1>1, <2>1, <2>2 DEF Graph!Next, Graph!Transact, Graph!B, Graph!C
<1>4. CASE pc = "idle" /\ SyncOutcome(disk) = "adopt" /\ disk' = Adopt(disk)
  <2>1. InC(disk) /\ ContractState = disk.pending
    BY <1>4, SyncIsQuiet DEF PhaseC
  <2>2. disk'.pending = HashZero /\ disk'.transacted = FALSE /\ disk'.onChain = ContractState
    BY <1>1, <1>4, RegisterFields
  <2> QED
    BY <2>1, <2>2 DEF InC, Graph!Next, Graph!Confirm, Graph!A, Graph!C
<1>5. CASE UNCHANGED disk
  BY <1>5
<1> QED
  BY <1>2, <1>3, <1>4, <1>5, RegisterSteps

(* The stored registers go around the idenStatePending state graph that    *)
(* issuer.go draws, and through no other transition.                       *)
THEOREM GraphRefinement == ASSUME MaxFaults = 0 PROVE Spec => ImplementsStateGraph
<1>1. Init => Graph!Init
  BY DEF Init, Graph!Init, Graph!A, ZeroRegisters
<1>2. IndInv /\ QuietInv /\ [Next]_vars => [Graph!Next]_(Graph!gvars)
  BY StepRefinesGraph DEF Graph!gvars
<1> QED
  BY <1>1, <1>2, Invariance, QuietInvariance, PTL DEF Spec, ImplementsStateGraph, Graph!Spec

=============================================================================
