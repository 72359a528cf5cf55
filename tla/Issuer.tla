------------------------------- MODULE Issuer -------------------------------
(***************************************************************************)
(* One issuer identity: package identity/issuer over its key-value storage,*)
(* the Ethereum client it sends its state transitions through, and the     *)
(* state contract they end in.                                             *)
(*                                                                         *)
(* The issuer's lock (is.rw) serialises its methods, so at most one is in  *)
(* progress and pc says where.  A method is cut into one action for each   *)
(* effect that survives a crash on its own (a storage transaction, a       *)
(* transaction handed to Ethereum, an off-chain publication): a crash, a   *)
(* failed call or progress of the chain can come between any two.          *)
(*                                                                         *)
(* disk holds the registers in the storage, mem the copies in the Issuer   *)
(* object: the setters write mem at once and disk only when the storage    *)
(* transaction commits.  So it is with a tree: AddEntry sets the root in   *)
(* memory before it commits the nodes.  claimsTree, revocationsTree and    *)
(* rootsTree are what the roots in memory commit to, stored is what the    *)
(* storage has, and a tree in which the two differ has a root without      *)
(* nodes: whatever looks for a node in it fails, until Load reads the      *)
(* stored root again.  The list of states is read from the storage itself. *)
(***************************************************************************)
EXTENDS IdenStates

(* An operator named X_Y, defined before X, is X with the defect Y: what a *)
(* property must be able to tell from X.                                   *)

CONSTANTS
    ExtraGenesisClaims, \* Create's extraGenesisClaims, in order
    ConfirmBlocks,      \* cfg.ConfirmBlocks
    NoTx,               \* the nil *types.Transaction
    NoClaim,            \* no IssueClaim in progress
    MaxFaults           \* bound on crashes and failed calls in a behaviour

ASSUME GenesisAssumption ==
    /\ ExtraGenesisClaims \in Seq(Claims)
    /\ \A i, j \in DOMAIN ExtraGenesisClaims :
           ExtraGenesisClaims[i] = ExtraGenesisClaims[j] => i = j
    /\ KOp \notin Claims
    /\ Len(ExtraGenesisClaims) < MaxNonce

ASSUME ParamAssumption ==
    /\ ConfirmBlocks \in Nat
    /\ MaxFaults \in Nat
    /\ NoTx \notin Nat
    /\ NoClaim \notin Claims

VARIABLES
    created,     \* "no", "trees" (genesis trees stored) or "yes"
    up,          \* an Issuer object exists (Load returned it)
    pc,          \* the step of the method that holds the lock
    idenStateLast, idenState,  \* locals of PublishState
    issuing,     \* the claim of the IssueClaim in progress
    nonceIdx,    \* the stored index of the nonce generator
    claimsTree, revocationsTree, rootsTree,  \* by their roots in memory
    stored,      \* the three trees in the storage
    lost,        \* history: leaves whose commit failed
    idenStateList,
    disk, mem,   \* the stored registers and their copies in memory
    revNonce,    \* the nonce in the application's claim objects
    txs,         \* every Ethereum transaction sent, in nonce order
    chain,       \* states of this identity in the contract, oldest first
    offChain,    \* states whose public data was published off chain
    result,      \* what the last call returned
    faults

trees == <<nonceIdx, claimsTree, revocationsTree, rootsTree, stored, lost>>
locals == <<idenStateLast, idenState, issuing>>
env == <<txs, chain>>
vars == <<created, up, pc, locals, trees, idenStateList, disk, mem, revNonce,
          env, offChain, result, faults>>

MaybeState == IdenState \cup {HashZero}

(* The registers under dbKeyIdenStateDataOnChain, dbKeyIdenStatePending(Txed) *)
(* and dbKeyEthTx{Init,Set}State.  Of a transaction the issuer uses only its  *)
(* identity: its position in txs.                                             *)
Registers == [onChain : MaybeState, pending : MaybeState, transacted : BOOLEAN,
              ethTxInitState : Nat \cup {NoTx}, ethTxSetState : Nat \cup {NoTx}]

ZeroRegisters == [onChain |-> HashZero, pending |-> HashZero, transacted |-> FALSE,
                  ethTxInitState |-> NoTx, ethTxSetState |-> NoTx]

(* old and new are the public signals of the zk proof the transaction      *)
(* carries; conf is its number of confirmations, which is only ever        *)
(* compared with ConfirmBlocks and saturates there.                        *)
Transactions == [kind : {"init", "set"}, old : IdenState, new : IdenState,
                 status : {"sent", "ok", "failed"}, conf : 0 .. ConfirmBlocks]

(* "error" stands for the errors after which the application can go on:    *)
(* nothing was done, or a storage or a network failed.                     *)
Results == {"none", "ok", "error", "rootexists", "listlen", "failedtx", "fatal", "panic"}

-----------------------------------------------------------------------------
(* CalculateIdGenesisMT: the entries Create puts in the claims tree, with  *)
(* the nonces it draws for them, and the resulting state.                  *)
GenesisEntries ==
    {[hi |-> KOp, nonce |-> 0]} \cup
    {[hi |-> ExtraGenesisClaims[i], nonce |-> i] : i \in DOMAIN ExtraGenesisClaims}

GenesisState == [clr |-> GenesisEntries, rer |-> {}, ror |-> {GenesisEntries}]

(* Issuer.state() when the roots tree holds roots.                         *)
StateWith_Stale(roots) == [clr |-> claimsTree, rer |-> revocationsTree, ror |-> rootsTree]
StateWith(roots) == [clr |-> claimsTree, rer |-> revocationsTree, ror |-> roots]
State == StateWith(rootsTree)

(* The nodes under the roots in memory are in the storage.                 *)
ClaimsReadable == claimsTree = stored.clr
RevocationsReadable == revocationsTree = stored.rer
RootsReadable == rootsTree = stored.ror

(* getIdenStateByIdx(tx, -n)                                               *)
FromEnd(n) == idenStateList[Len(idenStateList) + 1 - n]

(* The identity changed since the last state of the list.                  *)
Changed_ClaimsOnly == claimsTree # FromEnd(1).clr
Changed == State # FromEnd(1)

(* idenStateList.Append                                                    *)
AppendState_OverLast(l, s) == [l EXCEPT ![Len(l)] = s]
AppendState(l, s) == Append(l, s)

(* Nodes (A) and (C) of the idenStatePending state graph; (B) is the rest. *)
InA(r) == r.pending = HashZero /\ ~r.transacted
InC_Never(r) == FALSE
InC(r) == r.pending # HashZero /\ r.transacted

(* A method can take the lock.                                             *)
Idle == up /\ pc = "idle"

(* A method returns r, and its locals are gone.                            *)
Return(r) == /\ pc' = "idle"
             /\ result' = r
             /\ idenStateLast' = GenesisState
             /\ idenState' = GenesisState
             /\ issuing' = NoClaim

(* A method goes on to the step p.                                         *)
Goto(p) == pc' = p /\ UNCHANGED result

(* One more of the crashes and failed calls that MaxFaults bounds.  A call *)
(* that fails before it had any effect leaves the state as it was and is   *)
(* no step of its own.                                                     *)
Fault == faults < MaxFaults /\ faults' = faults + 1

-----------------------------------------------------------------------------
Init ==
    /\ created = "no"
    /\ up = FALSE
    /\ pc = "idle"
    /\ idenStateLast = GenesisState
    /\ idenState = GenesisState
    /\ issuing = NoClaim
    /\ nonceIdx = 0
    /\ claimsTree = {}
    /\ revocationsTree = {}
    /\ rootsTree = {}
    /\ stored = [clr |-> {}, rer |-> {}, ror |-> {}]
    /\ lost = NoLeaves
    /\ idenStateList = <<>>
    /\ disk = ZeroRegisters
    /\ mem = ZeroRegisters
    /\ revNonce = [c \in Claims |-> 0]
    /\ txs = <<>>
    /\ chain = <<>>
    /\ offChain = {}
    /\ result = "none"
    /\ faults = 0

-----------------------------------------------------------------------------
(* Create, up to and including CalculateIdGenesisMT.  Every AddClaim of it *)
(* is a storage transaction of its own, but after a crash among them it    *)
(* makes no difference how many were done: see CreateAgain.                *)
CreateTrees ==
    /\ created = "no"
    /\ created' = "trees"
    /\ pc' = "create"
    /\ claimsTree' = GenesisEntries
    /\ rootsTree' = {GenesisEntries}
    /\ stored' = GenesisState
    /\ revNonce' = [c \in Claims |->
                      IF \E i \in DOMAIN ExtraGenesisClaims : ExtraGenesisClaims[i] = c
                      THEN CHOOSE i \in DOMAIN ExtraGenesisClaims : ExtraGenesisClaims[i] = c
                      ELSE revNonce[c]]
    /\ UNCHANGED <<up, locals, nonceIdx, revocationsTree, lost, idenStateList, disk, mem,
                   env, offChain, result, faults>>

(* The rest of Create: one storage transaction for the nonce index, the    *)
(* first state of the list and the zero registers.                         *)
CreateCommit ==
    /\ pc = "create"
    /\ created' = "yes"
    /\ nonceIdx' = 1 + Len(ExtraGenesisClaims)
    /\ idenStateList' = Append(<<>>, State)
    /\ disk' = ZeroRegisters
    /\ Return("ok")
    /\ UNCHANGED <<up, claimsTree, revocationsTree, rootsTree, stored, lost, mem, revNonce,
                   env, offChain, faults>>

(* Create over the trees of a Create that was cut short: the first AddClaim*)
(* (of kOp) fails already.                                                 *)
CreateAgain ==
    /\ created = "trees" /\ pc = "idle"
    /\ Return("error")
    /\ UNCHANGED <<created, up, trees, idenStateList, disk, mem, revNonce, env, offChain,
                   faults>>

-----------------------------------------------------------------------------
(* The transaction that SyncIdenStatePublic waits for: InitState's when    *)
(* nothing of this identity is known to be on chain, else SetState's.      *)
AwaitedTx_AlwaysSet(r) == r.ethTxSetState
AwaitedTx(r) == IF r.onChain = HashZero THEN r.ethTxInitState ELSE r.ethTxSetState

(* TxConfirmBlocks: no receipt yet, or too few blocks on top of it.        *)
Unconfirmed_NoWait(tx) == tx.status = "sent"
Unconfirmed(tx) == tx.status = "sent" \/ tx.conf < ConfirmBlocks

(* GetState(id), with ErrIdenNotOnChain replaced by HashZero.              *)
ContractState == IF chain = <<>> THEN HashZero ELSE chain[Len(chain)]

(* The outcome of SyncIdenStatePublic on the registers r.  A receipt and   *)
(* its confirmations never go back, so the reads of the chain act as one   *)
(* read at the time of the last.                                           *)
SyncOutcome(r) ==
    IF InC(r) /\ AwaitedTx(r) = NoTx THEN "panic"
    ELSE IF InC(r) /\ txs[AwaitedTx(r)].status = "failed" THEN "failedtx"
    ELSE IF InC(r) /\ Unconfirmed(txs[AwaitedTx(r)]) THEN "ok"
    ELSE IF ContractState = r.onChain THEN "ok"
    ELSE IF ~InA(r) /\ ContractState = r.pending THEN "adopt"
    ELSE "fatal"

(* setIdenStatePending(0, false) and setIdenStateDataOnChain               *)
Adopt(r) == [r EXCEPT !.pending = HashZero, !.transacted = FALSE, !.onChain = ContractState]

SyncIdenStatePublic ==
    /\ Idle
    /\ \/ /\ SyncOutcome(mem) # "adopt"
          /\ Return(SyncOutcome(mem))
          /\ UNCHANGED <<disk, mem, faults>>
       \/ /\ SyncOutcome(mem) = "adopt"
          /\ mem' = Adopt(mem)
          /\ \/ /\ disk' = Adopt(disk)
                /\ Return("ok")
                /\ UNCHANGED faults
             \/ /\ Fault                   \* the commit fails
                /\ Return("error")
                /\ UNCHANGED disk
    /\ UNCHANGED <<created, up, trees, idenStateList, revNonce, env, offChain>>

(* Load: the registers are read back and synchronised; an error of the     *)
(* synchronisation is an error of Load, and then there is no Issuer.       *)
Load ==
    /\ created = "yes" /\ ~up
    /\ \/ /\ SyncOutcome(disk) = "ok"
          /\ up' = TRUE
          /\ mem' = disk
          /\ Return("ok")
          /\ UNCHANGED disk
       \/ /\ SyncOutcome(disk) = "adopt"
          /\ up' = TRUE
          /\ mem' = Adopt(disk)
          /\ disk' = Adopt(disk)
          /\ Return("ok")
       \/ /\ SyncOutcome(disk) \notin {"ok", "adopt"}
          /\ Return(SyncOutcome(disk))
          /\ UNCHANGED <<up, mem, disk>>
    /\ UNCHANGED <<created, trees, idenStateList, revNonce, env, offChain, faults>>

-----------------------------------------------------------------------------
(* UniqueNonceGen.Next: the index after i was handed out.                  *)
NextNonceIdx_Saturates(i) == IF i = MaxNonce - 1 THEN i ELSE i + 1
NextNonceIdx(i) == i + 1

(* IssueClaim, up to the commit of the nonce index.                        *)
IssueClaimNonce(c) ==
    /\ Idle
    /\ \/ /\ nonceIdx < MaxNonce
          /\ nonceIdx' = NextNonceIdx(nonceIdx)
          /\ issuing' = c
          /\ Goto("issue")
          /\ UNCHANGED <<idenStateLast, idenState>>
       \/ /\ nonceIdx = MaxNonce
          /\ Return("error")
          /\ UNCHANGED nonceIdx
    /\ UNCHANGED <<created, up, claimsTree, revocationsTree, rootsTree, stored, lost,
                   idenStateList, disk, mem, revNonce, env, offChain, faults>>

(* AddClaim's check: the tree has no entry at the index hi.                *)
IndexFree_Always(hi) == TRUE
IndexFree(hi) == \A e \in claimsTree : e.hi # hi

(* The nonce goes into the caller's claim, then the claim into the tree.   *)
IssueClaimAdd ==
    LET e == [hi |-> issuing, nonce |-> nonceIdx - 1] IN
    /\ pc = "issue"
    /\ revNonce' = [revNonce EXCEPT ![issuing] = nonceIdx - 1]
    /\ \/ /\ ClaimsReadable /\ IndexFree(issuing)
          /\ claimsTree' = claimsTree \cup {e}
          /\ \/ /\ stored' = [stored EXCEPT !.clr = claimsTree']
                /\ Return("ok")
                /\ UNCHANGED <<lost, faults>>
             \/ /\ Fault                   \* the commit of AddEntry fails
                /\ lost' = [lost EXCEPT !.clr = @ \cup {e}]
                /\ Return("error")
                /\ UNCHANGED stored
       \/ /\ ~ClaimsReadable \/ ~IndexFree(issuing)
          /\ Return("error")              \* no root node, or ErrEntryIndexAlreadyExists
          /\ UNCHANGED <<claimsTree, stored, lost, faults>>
    /\ UNCHANGED <<created, up, nonceIdx, revocationsTree, rootsTree, idenStateList, disk,
                   mem, env, offChain>>

(* RevokeClaim: the nonce is the one in the tree, not the one in the claim.*)
RevokeClaim(c) ==
    /\ Idle
    /\ \/ /\ ~ClaimsReadable \/ IndexFree(c)
          /\ Return("error")
          /\ UNCHANGED <<revocationsTree, stored, lost, faults>>
       \/ \E e \in claimsTree :
            /\ ClaimsReadable
            /\ e.hi = c
            /\ \/ /\ ~RevocationsReadable \/ e.nonce \in revocationsTree
                  /\ Return("error")
                  /\ UNCHANGED <<revocationsTree, stored, lost, faults>>
               \/ /\ RevocationsReadable /\ e.nonce \notin revocationsTree
                  /\ revocationsTree' = revocationsTree \cup {e.nonce}
                  /\ \/ /\ stored' = [stored EXCEPT !.rer = revocationsTree']
                        /\ Return("ok")
                        /\ UNCHANGED <<lost, faults>>
                     \/ /\ Fault           \* the commit of AddEntry fails
                        /\ lost' = [lost EXCEPT !.rer = @ \cup {e.nonce}]
                        /\ Return("error")
                        /\ UNCHANGED stored
    /\ UNCHANGED <<created, up, nonceIdx, claimsTree, rootsTree, idenStateList, disk, mem,
                   revNonce, env, offChain>>

-----------------------------------------------------------------------------
(* PublishState, the calls that return at once: a transaction is pending,  *)
(* nothing changed, AddLeafRootsTree fails, or there is no state to go     *)
(* back to.                                                                *)
PublishStateReturn ==
    /\ Idle
    /\ \/ /\ InC(mem)
          /\ Return("error")
       \/ /\ InA(mem)
          /\ ~Changed
          /\ Return("ok")
       \/ /\ InA(mem)
          /\ claimsTree # FromEnd(1).clr
          /\ ~RootsReadable \/ claimsTree \in rootsTree
          /\ Return(IF RootsReadable THEN "rootexists" ELSE "error")
       \/ /\ ~InA(mem) /\ ~InC(mem)
          /\ Len(idenStateList) < 2
          /\ Return("listlen")
    /\ UNCHANGED <<created, up, trees, idenStateList, disk, mem, revNonce, env, offChain,
                   faults>>

(* From (A), up to the commit of the roots tree.                           *)
PublishStateRoots ==
    /\ Idle
    /\ InA(mem)
    /\ Changed
    /\ \/ /\ claimsTree # FromEnd(1).clr
          /\ RootsReadable /\ claimsTree \notin rootsTree
          /\ rootsTree' = rootsTree \cup {claimsTree}
          /\ stored' = [stored EXCEPT !.ror = rootsTree']
       \/ /\ claimsTree = FromEnd(1).clr
          /\ UNCHANGED <<rootsTree, stored>>
    /\ idenStateLast' = FromEnd(1)
    /\ idenState' = StateWith(rootsTree')
    /\ Goto("append")
    /\ UNCHANGED <<created, up, issuing, nonceIdx, claimsTree, revocationsTree, lost,
                   idenStateList, disk, mem, revNonce, env, offChain, faults>>

(* The same, when the commit of AddLeafRootsTree fails.  Nothing is        *)
(* published from such a root: AddLeafRootsTree fails from then on.        *)
PublishStateRootsFails ==
    /\ Idle
    /\ InA(mem)
    /\ claimsTree # FromEnd(1).clr
    /\ RootsReadable /\ claimsTree \notin rootsTree
    /\ Fault
    /\ rootsTree' = rootsTree \cup {claimsTree}
    /\ Return("error")
    /\ UNCHANGED <<created, up, nonceIdx, claimsTree, revocationsTree, stored, lost,
                   idenStateList, disk, mem, revNonce, env, offChain>>

(* setIdenStatePending(idenState, transacted)                              *)
SetPending(r, transacted) == [r EXCEPT !.pending = idenState, !.transacted = transacted]

(* (A) -> (B): the state enters the list and becomes pending, in one       *)
(* storage transaction.                                                    *)
PublishStateAppend ==
    /\ pc = "append"
    /\ mem' = SetPending(mem, FALSE)
    /\ \/ /\ idenStateList' = AppendState(idenStateList, idenState)
          /\ disk' = SetPending(disk, FALSE)
          /\ Goto("send")
          /\ UNCHANGED <<locals, faults>>
       \/ /\ Fault                         \* the commit fails
          /\ Return("error")
          /\ UNCHANGED <<idenStateList, disk>>
    /\ UNCHANGED <<created, up, trees, revNonce, env, offChain>>

(* From (B): a publication that did not reach (C) is tried again, with the *)
(* state of the trees as they are now.                                     *)
PublishStateRetry ==
    /\ Idle
    /\ ~InA(mem) /\ ~InC(mem)
    /\ Len(idenStateList) >= 2
    /\ idenStateLast' = FromEnd(2)
    /\ idenState' = State
    /\ Goto("send")
    /\ UNCHANGED <<created, up, issuing, trees, idenStateList, disk, mem, revNonce, env,
                   offChain, faults>>

(* The transaction of InitState or SetState, with the proof that           *)
(* GenZkProofIdenStateUpdate made for it.                                  *)
NewTransaction_Swapped == [kind |-> IF mem.onChain = HashZero THEN "init" ELSE "set",
                           old |-> idenState, new |-> idenStateLast,
                           status |-> "sent", conf |-> 0]
NewTransaction == [kind |-> IF mem.onChain = HashZero THEN "init" ELSE "set",
                   old |-> idenStateLast, new |-> idenState,
                   status |-> "sent", conf |-> 0]

PublishStateSend ==
    /\ pc = "send"
    /\ \/ /\ txs' = Append(txs, NewTransaction)
          /\ Goto("record")
          /\ UNCHANGED <<locals, faults>>
       \/ /\ Fault                         \* no proof, or nothing was sent
          /\ Return("error")
          /\ UNCHANGED txs
       \/ /\ Fault                         \* it was sent and the answer was lost
          /\ Return("error")
          /\ txs' = Append(txs, NewTransaction)
    /\ UNCHANGED <<created, up, trees, idenStateList, disk, mem, revNonce, chain, offChain>>

(* setEthTxInitState or setEthTxSetState, and setIdenStatePending(_, true).*)
RecordTx_NotTransacted(r) == SetPending(r, FALSE)
RecordTx(r) ==
    IF mem.onChain = HashZero
    THEN [SetPending(r, TRUE) EXCEPT !.ethTxInitState = Len(txs)]
    ELSE [SetPending(r, TRUE) EXCEPT !.ethTxSetState = Len(txs)]

(* (B) -> (C)                                                              *)
PublishStateRecord ==
    /\ pc = "record"
    /\ mem' = RecordTx(mem)
    /\ \/ /\ disk' = RecordTx(disk)
          /\ Goto("offchain")
          /\ UNCHANGED <<locals, faults>>
       \/ /\ Fault                         \* the commit fails
          /\ Return("error")
          /\ UNCHANGED disk
    /\ UNCHANGED <<created, up, trees, idenStateList, revNonce, env, offChain>>

(* idenPubOffChainWriter.Publish, which dumps the roots tree and the       *)
(* revocations tree.                                                       *)
PublishStateOffChain ==
    /\ pc = "offchain"
    /\ \/ /\ RootsReadable /\ RevocationsReadable
          /\ offChain' = offChain \cup {idenState}
          /\ Return("ok")
          /\ UNCHANGED faults
       \/ /\ ~RootsReadable \/ ~RevocationsReadable
          /\ Return("error")
          /\ UNCHANGED <<offChain, faults>>
       \/ /\ Fault
          /\ Return("error")
          /\ UNCHANGED offChain
    /\ UNCHANGED <<created, up, trees, idenStateList, disk, mem, revNonce, env>>

-----------------------------------------------------------------------------
(* GenCredentialExistence returns a credential for the entry e: its index  *)
(* has a proof of existence under the claims root of the state known to be *)
(* on chain, which has its nodes in the storage unless one of its entries  *)
(* was lost.  EntryExists then compares the entries with Data.Equal, which *)
(* looks at the index only.  The credential carries e itself.              *)
GenCredentialExistence(e) ==
    /\ Idle
    /\ mem.onChain # HashZero
    /\ \E i \in DOMAIN idenStateList : idenStateList[i] = mem.onChain
    /\ mem.onChain.clr \subseteq stored.clr
    /\ \E f \in mem.onChain.clr : f.hi = e.hi

-----------------------------------------------------------------------------
(* The process dies: the object and the method in progress are gone, and   *)
(* the trees are what Load will find in the storage.                       *)
Crash ==
    /\ up \/ pc # "idle"
    /\ Fault
    /\ up' = FALSE
    /\ mem' = ZeroRegisters
    /\ claimsTree' = stored.clr
    /\ revocationsTree' = stored.rer
    /\ rootsTree' = stored.ror
    /\ Return("none")
    /\ UNCHANGED <<created, nonceIdx, stored, lost, idenStateList, disk, revNonce, env, offChain>>

-----------------------------------------------------------------------------
(* The contract: a state can be initialised once, from the genesis state   *)
(* the identity's ID is made of, and then only be replaced with a proof    *)
(* about the state it holds.                                               *)
Accepts(tx) == \/ tx.kind = "init" /\ chain = <<>> /\ tx.old = GenesisState
               \/ tx.kind = "set" /\ chain # <<>> /\ tx.old = chain[Len(chain)]

(* The first transaction without a receipt is executed (they come from one *)
(* account, so in the order they were sent).                               *)
MineTx ==
    \E i \in DOMAIN txs :
      /\ txs[i].status = "sent"
      /\ \A j \in 1 .. i - 1 : txs[j].status # "sent"
      /\ \/ /\ Accepts(txs[i])
            /\ txs' = [txs EXCEPT ![i].status = "ok"]
            /\ chain' = Append(chain, txs[i].new)
         \/ /\ ~Accepts(txs[i])
            /\ txs' = [txs EXCEPT ![i].status = "failed"]
            /\ UNCHANGED chain
      /\ UNCHANGED <<created, up, pc, locals, trees, idenStateList, disk, mem, revNonce,
                     offChain, result, faults>>

(* A block on top of the ones that hold the transactions.                  *)
Confirmed(tx) == IF tx.status = "ok" /\ tx.conf < ConfirmBlocks
                 THEN [tx EXCEPT !.conf = tx.conf + 1] ELSE tx

NewBlock ==
    /\ \E i \in DOMAIN txs : Confirmed(txs[i]) # txs[i]
    /\ txs' = [i \in DOMAIN txs |-> Confirmed(txs[i])]
    /\ UNCHANGED <<created, up, pc, locals, trees, idenStateList, disk, mem, revNonce,
                   chain, offChain, result, faults>>

-----------------------------------------------------------------------------
Next ==
    \/ CreateTrees \/ CreateCommit \/ CreateAgain \/ Load
    \/ SyncIdenStatePublic
    \/ \E c \in Claims : IssueClaimNonce(c)
    \/ IssueClaimAdd
    \/ \E c \in Claims \cup {KOp} : RevokeClaim(c)
    \/ PublishStateReturn \/ PublishStateRoots \/ PublishStateRootsFails
    \/ PublishStateAppend
    \/ PublishStateRetry \/ PublishStateSend \/ PublishStateRecord
    \/ PublishStateOffChain
    \/ Crash
    \/ MineTx \/ NewBlock

Spec == Init /\ [][Next]_vars

(* The process is started again when it is down, a method that runs comes  *)
(* to its end, the application calls PublishState and SyncIdenStatePublic  *)
(* from time to time, and the chain executes transactions and grows.       *)
(* Nothing makes the application issue or revoke.                          *)
Fairness ==
    /\ WF_vars(CreateTrees) /\ WF_vars(CreateCommit) /\ WF_vars(Load)
    /\ WF_vars(IssueClaimAdd)
    /\ WF_vars(SyncIdenStatePublic)
    /\ WF_vars(PublishStateRoots) /\ WF_vars(PublishStateRetry)
    /\ WF_vars(PublishStateAppend) /\ WF_vars(PublishStateSend)
    /\ WF_vars(PublishStateRecord) /\ WF_vars(PublishStateOffChain)
    /\ WF_vars(MineTx) /\ WF_vars(NewBlock)

LiveSpec == Spec /\ Fairness

-----------------------------------------------------------------------------
(* The types of the variables.                                             *)
TypeOK ==
    /\ created \in {"no", "trees", "yes"}
    /\ up \in BOOLEAN
    /\ pc \in {"idle", "create", "issue", "append", "send", "record", "offchain"}
    /\ idenStateLast \in IdenState
    /\ idenState \in IdenState
    /\ issuing \in Claims \cup {NoClaim}
    /\ nonceIdx \in 0 .. MaxNonce
    /\ claimsTree \subseteq Entries
    /\ revocationsTree \subseteq Nonces
    /\ rootsTree \subseteq SUBSET Entries
    /\ stored \in IdenState
    /\ lost \in Leaves
    /\ idenStateList \in Seq(IdenState)
    /\ disk \in Registers
    /\ mem \in Registers
    /\ revNonce \in [Claims -> Nonces]
    /\ txs \in Seq(Transactions)
    /\ chain \in Seq(IdenState)
    /\ offChain \subseteq IdenState
    /\ result \in Results
    /\ faults \in 0 .. MaxFaults

(* Whatever crashes and whichever calls fail, the states that reach the    *)
(* contract are a growing history of well-formed states: what PublishState *)
(* sends never takes back a claim or a revocation that was on chain, except*)
(* one that AddEntry put into a root and failed to store.                  *)
Reg == INSTANCE Registry WITH Genesis <- GenesisState
ImplementsRegistry == Reg!Spec

(* IssueClaim commits the nonce before it stores the claim: a crash between*)
(* the two wastes a nonce but never hands it out twice, so RevokeClaim     *)
(* revokes the one claim it was called for.                                *)
NonceNamesOneClaim ==
    /\ \A e, f \in claimsTree : e.nonce = f.nonce => e = f
    /\ \A n \in revocationsTree : \E e \in claimsTree : e.nonce = n

(* The roots tree of every state in the list holds the claims root of that *)
(* state and of every earlier one: a holder can prove an old claims root   *)
(* against any later listed state (the ErrRootNotFound of the holder).     *)
RootsCoverHistory ==
    \A i \in DOMAIN idenStateList : \A j \in 1 .. i :
        idenStateList[j].clr \in idenStateList[i].ror

(* List and registers are written in one storage transaction: a state that *)
(* is stored as pending and not yet transacted is the last of the list, so *)
(* that a retry after a restart finds the state before it at index -2.     *)
PendingIsLastListed ==
    disk.pending # HashZero /\ ~disk.transacted =>
        Len(idenStateList) >= 2 /\ disk.pending = FromEnd(1)

(* SyncIdenStatePublic takes over a state only when the transaction it was *)
(* sent with has the configured number of confirmations.                   *)
AdoptsConfirmed ==
    [][disk'.onChain # disk.onChain =>
         \E i \in DOMAIN txs : /\ txs[i].new = disk'.onChain
                               /\ txs[i].status = "ok"
                               /\ txs[i].conf = ConfirmBlocks]_vars

(* The stored registers go around the idenStatePending state graph.        *)
Graph == INSTANCE PendingGraph WITH pending <- disk.pending,
                                    transacted <- disk.transacted,
                                    onChain <- disk.onChain
ImplementsStateGraph == Graph!Spec

(* Without failures SyncIdenStatePublic never finds a rejected transaction *)
(* or a state in the contract it does not know, and PublishState is never  *)
(* left without a state to publish from.                                   *)
NoFatalError == result \notin {"failedtx", "fatal", "panic", "listlen", "rootexists"}

(* The state the issuer knows to be on chain is in its list, with the roots*)
(* GenCredentialExistence needs, and its trees are public off chain.       *)
KnownStateServed ==
    Idle /\ mem.onChain # HashZero =>
        /\ \E i \in DOMAIN idenStateList : idenStateList[i] = mem.onChain
        /\ mem.onChain \in offChain

(* A claim as it is in the tree gets a credential only if that very entry, *)
(* index and value, is in the state known to be on chain: comparing indexes*)
(* is then enough, through every crash and retry.  It is not for a claim   *)
(* that was refused by IssueClaim, and has another nonce since (revNonce). *)
CredentialIsIssued ==
    \A e \in claimsTree : GenCredentialExistence(e) => e \in mem.onChain.clr

(* SyncIdenStatePublic updates the on-chain register from the contract:    *)
(* it comes to hold what the contract holds.                               *)
SyncCatchesUp == (chain # <<>>) ~> (chain # <<>> /\ mem.onChain = ContractState)

(* What the issuer changes reaches the chain: a claim that was issued      *)
(* after the genesis is at last in a state that the issuer knows to be on  *)
(* chain, so that GenCredentialExistence serves it, and a revocation in the*)
(* state the contract holds, also when no claim was issued since.          *)
ChangesReachChain ==
    /\ \A c \in Claims : (\E e \in claimsTree \ GenesisEntries : e.hi = c) ~>
           (mem.onChain # HashZero /\ \E e \in mem.onChain.clr : e.hi = c)
    /\ \A n \in Nonces : (n \in revocationsTree) ~>
           (chain # <<>> /\ n \in ContractState.rer)

=============================================================================
