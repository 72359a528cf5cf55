# A TLA+ verification of go-iden3-core

go-iden3-core is the core of a self-sovereign identity system. An *identity*
keeps three sparse Merkle trees (claims it has issued, nonces it has revoked,
roots its claims tree has had); a hash of the three roots, its *identity state*,
is published in a smart contract. A *holder* proves with a Merkle proof against a
published state that a claim was issued to it and not revoked, and a *verifier*
checks that proof against the chain.

This directory models that system in TLA+. TLC checks the modules on small
instances; TLAPS proves the safety properties of all components but the claims
for every instance.
`PROJECT.json` lists every run, mutant, theorem and finding and maps every
definition to the lines it stands for.

## 1. Inventory

| Part | Code | State | Operations that change it |
|---|---|---|---|
| Issuer | `identity/issuer` | three trees, list of past states, registers (state on chain, pending state, transacted flag, two Ethereum transactions) in the storage and in memory, nonce index | `Create`, `Load`, `IssueClaim`, `RevokeClaim`, `PublishState`, `SyncIdenStatePublic` |
| On-chain states | `components/idenpubonchain`, `eth/client.go` | the contract: states by block and time (external) | `InitState`, `SetState`; read by `GetState`, `GetStateByBlock`, `TxConfirmBlocks` |
| Off-chain publication | `components/idenpuboffchain` (`writerhttp`, `readerhttp`) | a ring of the last `CacheLen` public data | `New`, `Publish`; read by `GetPublicData` |
| Holder | `identity/holder` | none of its own (it is also an issuer) | `HolderGetCredentialValidity`, `HolderGenZkProofCredential` |
| Verifier | `components/verifier` | none between calls | `VerifyCredentialExistence`, `VerifyCredentialValidity`, `VerifyZkProofCredential` |
| Merkle tree | `merkletree` | nodes and current root in the storage, root in memory | `NewMerkleTree`, `AddEntry`, `ImportTree`; read by lookup, proofs, `DumpTree`, `Snapshot` |
| Nonce database | `utils/noncedb` | a map, a heap and a counter shared by goroutines | `Add`, `New`, `AddAux`, `Search`, `SearchAndDelete`, `DeleteOld` |
| Storage | `db` | key-value pairs | transactions that commit all of their puts at once |
| Key store | `keystore` | encrypted keys in a file that is guarded by a lock file, cache of unlocked keys | `NewKeyStore`, `ImportKey`, `NewKey`, `UnlockKey`, `Close`, finalizer; read by `SignElem` |
| Claims, IDs | `core`, `core/claims` | a claim object: metadata, slots or an entry with cached hashes | `Entry`, `Metadata`, `NewClaimFromEntry`, `NewClaimGeneric`, `HexToClaimGeneric`, `UnmarshalJSON` |
| zk files | `utils/zk` | files in a directory that processes share, path and parsed object of each | `Download...`, `Load...`, `InsecureDownloadAll` |
| Generated bindings, proving, cryptography, HTTP | `eth/contracts`, `crypto`, `common`, `components/httpclient`, `components/idensigner` | none | - |

How they interact. The application calls the issuer; the issuer writes its trees
and registers to the storage, sends transactions through the Ethereum client and
hands the dumps of two trees to the off-chain writer. The contract changes when a
transaction is mined, long after the call that sent it; `SyncIdenStatePublic`
polls for that. The holder reads the contract, then asks the issuer's off-chain
server for the public data of the state it read. The verifier reads the contract
again, up to three times, and the clock up to twice, at some later moment. Key stores and zk files meet in
the file system: processes that know nothing of each other use the same path and
keep apart by a lock file.

What is hard. (1) `IssueClaim`, `PublishState` and `Create` consist of several
storage transactions, remote calls and an Ethereum transaction, and may be cut
short between any two of them or lose an answer. (2) The registers exist twice,
in memory and in the storage. (3) Holder and verifier read a chain that moves
while they read it. (4) Proofs must be refused when their parts do not belong
together, and must not be refused only because the chain has moved. (5) Rings,
byte indices, nonce limits and tree levels have edges. (6) The nonce database is
used by goroutines that read the clock outside the lock. (7) The lock files are
removed after they are unlocked, by whoever comes last. (8) Claims are converted
between four forms, in place, while trees have cached their hashes.
`PROJECT.json` lists
these one by one as hazards with the properties aimed at them.

## 2. Modules

| Module | Stands for | Kind |
|---|---|---|
| `IdenStates` | trees, roots and identity states as values | data |
| `Registry` | what an issuer promises to readers of the chain | abstract specification |
| `PendingGraph` | the state graph in the comment above `PublishState` | abstract specification |
| `Issuer` | issuer, its storage, its Ethereum client, contract | detailed specification |
| `IssuerInv`, `IssuerProofs` | inductive invariant; theorems with any faults and without any | proofs |
| `Verification` | holder and verifier over any chain that Registry allows | composition |
| `OffChainCache` | the ring of `writerhttp` | detailed specification |
| `MerkleTree` | the tree itself: nodes, paths, proofs, restart | detailed specification |
| `NonceDb` | the nonce database under concurrent calls | detailed specification |
| `KVStorage` | both storages of `db`, their transactions, the list of states | detailed specification |
| `FileLock` | lock files: flock(2) on a file that is removed | external, used by the next two |
| `KeyStore` | key stores of several processes over one file | detailed specification |
| `ZkFiles` | one zk file, downloaded and loaded by several processes | detailed specification |
| `Claims` | claims in their four forms, identifiers, issuing | detailed specification |
| `VerificationProofs`, `MerkleTreeProofs`, `OffChainCacheProofs`, `NonceDbProofs`, `KVStorageProofs`, `KeyStoreProofs`, `ZkFilesProofs` | inductive invariant and theorems of each | proofs |
| `MCIssuer`, `MCVerification`, `MCKVStorage` | values for constants | TLC |

They fit together as assumption and guarantee. `MerkleTree` shows that a root
commits to a set of entries and to nothing else, which is what `IdenStates` takes
a root to be, and what a commit that fails inside `AddEntry` does to it, which
`Issuer` takes over. `Issuer` implements `Registry`; `Verification` takes `Registry`
(through `INSTANCE`) as all it may assume of an issuer that has lost no leaf. `KVStorage` shows what
`Issuer` takes a commit to be: list and register change together or not at all,
whatever the trees' own transactions do meanwhile. `KnownStateServed` of
`Issuer` and the properties of `OffChainCache` are about the same public data.
`Claims` shows when an entry keeps its index, which is all that `Issuer` knows
a claim by, and when a leaf commits to its data, which `MerkleTree` takes for
granted.

An operator `X_Y` defined before `X` is `X` with the defect `Y`. It is used by
nothing; for every property there is one that makes TLC find it violated.

### Issuer

`created`, `up` and `pc` say whether `Create` has run, whether there is an
`Issuer` object and which step of which method holds `is.rw`. The lock makes the
methods exclusive, so one `pc` is enough. Each method is cut where an effect
survives a crash by itself: `IssueClaim` into the commit of the nonce index and
the commit of the tree; `PublishState` into the commit of the roots tree, the
commit of list and registers (A to B), the transaction sent, the commit of
registers (B to C) and the off-chain publication; `Create` into the trees and the
rest. `Crash` may come between any two, and every commit or remote call may
fail (`Fault`), also after it had its effect: a transaction may be sent and the
answer lost. `disk` and `mem` are the two copies of the registers.

The trees exist twice as well. `claimsTree`, `revocationsTree` and `rootsTree` are
what the roots in memory commit to, `stored` is what the storage has. `AddEntry` changes
its root before it commits, so a failed commit leaves a root in memory whose nodes
were never stored (`IssueClaimAdd`, `RevokeClaim`, `PublishStateRootsFails`); the
call gives an error and the leaf is in `lost`. From then on the tree cannot be
read or added to (`ClaimsReadable` and its like), but its root still goes into
the state that `PublishState` sends; `Crash` and `Load` bring back the stored root.
`Registry` therefore promises a history that grows *but for lost leaves*
(`ExtendsBut`), and an issuer without such a failure has lost none.

The chain is external: `MineTx` executes transactions in the order they were
sent (they come from one account), and the contract accepts an `initState` once
from the genesis state and a `setState` whose proof starts at the state it holds.
`NewBlock` adds confirmations, which saturate at `ConfirmBlocks`.

Left out: the `GenesisOnly` configuration (nothing changes), calls that fail
before they had an effect (the state is the same), the loss of a transaction
after it was accepted by a node, reorganisations of the chain (they are what
`ConfirmBlocks` is for).

### Verification

The issuer publishes states that keep Registry's promise whenever it likes. A
block's time is the clock when it is mined. The holder's call is two steps (the
chain, then the public data, which may be of another state or not come); the
verifier's is up to five (clock, for the expiration; existence; clock, for the
freshness; last state; link of state, block and time). `VerifyHanded` gives the verifier credentials whose parts
come from different states, with other blocks and times, and of either kind of
proof; a Merkle proof is modelled by the set it is about, so that it gives the
right root only if it is right. zk proofs are right or do not exist. The issuer
has lost no leaf (`lost <- NoLeaves`): one whose storage has failed may have
published a revocation and taken it back, and then no verifier can know.

### OffChainCache

One action for `New` and one for `Publish`, which the lock and one storage
transaction make atomic; `GetPublicData` changes nothing and is an operator.
Indices are bytes (`% 256`). `recent` remembers the last `CacheLen`
publications, so no bound on their number is needed. A second `New` on a storage
in use is not modelled: the code has `Load` for that.

### MerkleTree

A key is the node it belongs to (hashes do not collide), so that the storage is a
set of keys. `addLeaf`, `pushLeaf`, `walk`, `GenerateProof` and `RootFromProof` are
functions of the level, with the code's own level limits and errors; the loops of
`GetDataByIndex` and `GenerateProof` and the calls of `addLeaf` go down the same
`Path`. A commit may fail after `rootKey` was changed, and reading the root may
fail when the tree is opened, in which case the code starts an empty tree over
the old nodes. `DumpAndImport` goes on with a fresh tree that a dump was imported
into; `DumpAndImportClaims` does so with the claims alone, which
`ImportDumpedClaims` adds one by one. The binary form of a proof is its header and
a sequence of words that do not say what they are; the depth in it is a byte and
the bitmap has a bit for each of 240 levels, which is the most a tree may have
(`MaxBits`; the code uses 140).

### NonceDb

A critical section is one action; the clock is read before or after it in
another. Objects are numbered, because map and heap share them by pointer and
may hold different objects of one nonce. The counter of
`DeleteOldOportunistic` is modelled with the constant `Every` for 128.

### KVStorage

The storage is a map by full key, `concat` of a view's prefix and a key, and a
transaction is a cache of such keys. The backend, memory or LevelDB, is chosen
in `Init`: they differ in what a crash leaves and in whether a commit can fail.
`StorageList.Init` sets the length to 0 whatever is there; its one caller, `Create`, is
taken to be called for a storage without an identity. The issuer's transaction appends to the list (`Append`: three puts) and stores a
register with it; two more transactions put keys of their own through prefixed
views, are added to each other, commit and are closed meanwhile. `shadow`
remembers what was committed through which view.

### FileLock, KeyStore

A lock belongs to the file that was opened, not to the name, so files are numbered
and the name is a variable. `TryLock` is two steps, opening and locking; `Unlock`
is two steps as well, giving up the lock and removing whatever has the name then.
After a refusal the file may stay open or not: the versions of the library differ.

A member of `Stores` is a place for one `KeyStore` object in a process of its own.
`ImportKey` is cut where `ioutil.WriteFile` has truncated the file and not yet
written it; `ks.rw` keeps other calls out meanwhile, but not `Close`, which
does not take it. `Close` may be called by the user any number of times and once more by
the finalizer. A key is a name, the password it is encrypted with is its
ciphertext, and the cache has the key or zeros. `due` remembers which keys have
been acknowledged and with which passwords they may be encrypted. A second
process can get the lock while the first has it: `Unlock` of the first, then a
`TryLock` by the second that opens the same file, the removal, and a `TryLock` by a
third that makes a new one. `orphaned` remembers such a removal of a file that
a store has open; `SharedOnlyIfOrphaned` says that there is no other way to it. The
run stops when two have the storage (`UntilShared`), since then they
overwrite each other's keys.

### ZkFiles

The three files of a `ZkFiles` are independent (names and locks of their own, loaded
one after another), so one is modelled; `caching` says whether its parsed
form is kept, as it is for all but the proving key. A file has two halves, so that one process
can truncate and fill a file that another has just finished and
renames. There is no `UntilShared` here: the properties say themselves what is
promised after two processes were in `download` at once. With two processes, what is given
out still has the hash then if the server sends both the same; a third one may
rename what another has begun to write (`ThreeUsers`). The error that the
deferred function assigns is the one declared in the loop, so it changes nothing
that `download` returns.

### Claims

An entry is divided into cells where the fields of some claim type begin or end: two
fields overlap in the model where their bytes do. Flags are sets of bits. An
identifier has a genesis of two bytes instead of 27, with the checksum of the
code. One claim object goes through issuing by two issuers and through the four
forms in any order; `origin` is the entry that it ought to have. A leaf has its
data and what its key is the hash of.

## 3. Runs

Passing runs. All finish in about four minutes or less with two workers.

| Run | Bounds | What it shows |
|---|---|---|
| `issuer_faults` | 2 claims, 3 nonces, 2 faults; a transaction is confirmed once it is mined | `ImplementsRegistry`, `NonceNamesOneClaim`, `RootsCoverHistory`, `PendingIsLastListed`, `CredentialIsIssued` and the inductive invariant `IndInv`, with every combination of two faults, commits that fail inside `AddEntry` included |
| `issuer_nofault` | one claim in the genesis and one after it, 4 nonces, 2 confirmations, no fault | `ImplementsStateGraph`, `AdoptsConfirmed`, `KnownStateServed`, `NoFatalError`; under fairness `SyncCatchesUp`, `ChangesReachChain` |
| `verifier` | a claim with an expiration that is issued, and may be revoked, before or after the operational key is revoked; one holder; 3 blocks, clock to 2, freshness 1 | `AcceptedIsFresh`, `AcceptedIsIssued`, `HeldIsConsistent`, `RootAlwaysFound` |
| `cache` | length 3, 6 states, any number of publications | `LastIsServed` (the last one is served, but for the moment when the index has come around to 0), `RecentIsServed` (recent states are served and no others) |
| `noncedb` | 2 goroutines, 2 nonces, 2 objects, clock to 2 | `UsedOnce`, `DeleteOldIsExact`; under fairness `ExpiredLeaves` |
| `storage` | 2 backends, 2 prefixed views that begin alike, 3 transactions, list of 2, 1 fault | `ListIsWhole`, `ListOnlyGrows`, `ViewsAreSeparate` |
| `merkletree` | 4 levels, 4 indexes, 2 values, 1 fault | `RootCommitsToSet`, `VersionsReadable`, `ProofsVerify`, `ProofsSound`, `ProofsSurviveBytes`, `AddEntryAcceptsWhatFits` |
| `keystore` | 2 processes, 2 keys, 2 passwords, 3 calls, 1 fault, any number of opens and closes | `KeysKept`, `SharedOnlyIfOrphaned`, `FinalizedIsClean`; under fairness `StorageObtainable` |
| `zkfiles` | 2 processes, 2 faults (crash, failed step, wrong body), with and without cache | `GivenHasHash`, `FileIsWhole`, `FileStays`; under fairness `FileObtained` |
| `claims` | claims of all types, with and without subject, expiration and version; 2 issuers with 2 nonces; bytes 0 and 255 | `EntryKept`, `StaleOnlyInNonce` |

Why the bounds are enough for the cases they are meant for. In `issuer_faults`
the nonces run out (3 with one in the genesis), two claims give two publications
with a revocation in between, and two faults are the smallest number for "the
answer is lost, and the retry is cut short". In `merkletree` the indexes 0 and 8
agree on all bits that 4 levels can tell apart, 0 and 4 part two levels below the
root, and 1 goes the other way at once. In `cache` the length 3 is the smallest
for which the byte arithmetic of the index goes wrong (it does not divide 256; the
default of the code, 4, does), and 6 states in 3 slots force wraps with
repeated states. In `noncedb` two objects can be two lives of
one nonce or two nonces, and three clock values give one that is old for a
`DeleteOld` that read the clock early and one that is old only now. In `verifier`
three blocks hold an issue and a revocation with another state before, between or
after; a credential handed to the verifier and one made by the holder do not
depend on each other, so they are not interleaved (`MCNext`). Claims are interchangeable in `issuer_faults`
(symmetry); liveness runs use no symmetry. In `keystore` three calls are an import, a second
import that fails or is cut short, and a use of the result; the password tells an
old ciphertext from a new one. In `zkfiles` one fault makes a process leave
`download` without the file, after which two can be in it, and the second fault
happens to one of these. In `claims` the bytes give checksums that are zero, fill
the low byte and carry into the high one; the issuers are interchangeable.

Fairness. `issuer_nofault` assumes that the process is started when it is down, that
a method that runs comes to its end, that the application goes on calling
`PublishState` and `SyncIdenStatePublic` (the code has no timer of its own; the
callers are expected to), and that Ethereum executes transactions and grows.
Nothing makes the application issue or revoke. `noncedb` assumes that calls
end and that `Search` is called again and again. `keystore` assumes that a process
without a store asks again and that writes and unlocking come to their end; nobody
has to close a store. `zkfiles` assumes that calls come to their end, which
includes that the server goes on answering, and that one who has not got the file asks
again, also if it is asked other things in between (the one strong fairness; the
code's own loop around `TryLock` needs only weak fairness).

Runs that end in a violation. Each checks one statement of the repository's own
comments that the code does not keep.

| Run | Statement | What happens |
|---|---|---|
| `issuer_wedged` | `SyncIdenStatePublic` updates the state from the contract | never again after a lost answer and a retry |
| `claims_stale` | an entry whose hashes are cached is not modified | `ClaimGeneric` does so when it is issued again |

## 4. Proofs

What is proved holds for every value of the constants that the named assumptions
allow: any number of claims, nonces, blocks, goroutines, transactions, processes,
calls and faults. Each proof module EXTENDS the module it is about, begins with
the inductive invariant and takes the actions one by one.

Assumptions are those the modules name; TLC evaluates them in the runs. They give
constants their types and keep special values apart from ordinary ones, and beyond
that say: of the issuer, that the extra genesis claims are distinct, the operational
key's claim is none of them and there are nonces for all of them
(`GenesisAssumption`); of the Merkle tree, that it has at most 240 levels, one for each
bit of a proof's bitmap (`MerkleTreeAssumption`); of the storage, that no prefix of a view is a prefix of
another one or of one of the issuer's own keys, as is the case for the keys in
`issuer.go` (`KVStorageAssumption`). One hypothesis is stated in theorems
themselves: `MaxFaults = 0` in the second part of `IssuerProofs`, because its
properties are about behaviours without crashes and failed calls, as in
`issuer_nofault`.

### IssuerProofs

`Invariance`: `Spec => []IndInv`. From it `TypeCorrect`, `NonceSafe`
(`NonceNamesOneClaim`), `RootsCovered` (`RootsCoverHistory`), `PendingListed`
(`PendingIsLastListed`), `CredentialServed` (`CredentialIsIssued`) and `Refinement`
(`Spec => ImplementsRegistry`), the step from the issuer's code to what holders
and verifiers rely on.

The argument. That a transaction in flight extends what is on chain is not
inductive: nothing in the contract says so. The invariant says instead that *every*
transaction ever sent extends the state it starts from (`TxsInv`), and the
contract accepts only those that start from what it holds. `TxsInv` needs
that what `PublishState` sends extends the state it publishes from
(`PublishInv`), also for a retry, which takes the last but one of the list;
that needs the list to grow (`HistoryInv`), and the trees not to change while
`pc` is inside `PublishState`. All of these are about growth but for lost leaves, so they need
that memory and storage differ by lost leaves only (`StoreInv`): the claims and
revocations that a restart takes back were all in `lost` before. A root of the
roots tree that was not stored needs no such exception: the invariant shows that `PublishState`
cannot get past it, so that nobody ever sees it. And since a lost leaf has
used its nonce, and only nonces of stored claims are revoked (`NonceInv`),
no nonce ever names two claims. Well-formedness needs that nonces in the tree lie
below the index (`NonceInv`) and, between the two commits of `IssueClaim`, below
the nonce that was just drawn. `RootsCoverHistory` needs the step that leaves
the roots tree ahead of the list (`pc = "append"`). `ControlInv` ties these to the
phases of `Create`. `CredentialServed` needs no more: a listed state is part of the
claims tree but for lost leaves, and the tree has one entry for an index. `IndInv`, of which `TypeOK`
is a part, is an invariant of `issuer_faults`.

Without faults: `NeverFatal` (`NoFatalError`), `KnownServed` (`KnownStateServed`),
`AdoptsOnlyConfirmed` (`AdoptsConfirmed`) and `GraphRefinement`
(`ImplementsStateGraph`), all from `QuietInvariance`. `QuietInv` describes a
publication as a whole, in the nodes of the documented graph: in (A) no
transaction is in flight, the contract holds the state of the registers and the
list ends with it; in (B) the pending state is listed and either nothing has been
sent or the last transaction has and will be accepted; in (C) the registers wait
for the last transaction, which is in flight and acceptable or has been accepted.
Around that, memory and storage agree (`MemInv`), what is known to be on chain is
listed and public (`ServedInv`), and the roots tree has no root beyond the last
state listed (`RootsInv`), without which `PublishState` could meet a root that is
there already. That a mined transaction is accepted, hence that no call finds a failed
receipt, is where contract, list and registers have to be known together.

### VerificationProofs

`AcceptsOnlyFresh` (`AcceptedIsFresh`), `AcceptsOnlyIssued` (`AcceptedIsIssued`),
`HolderIsConsistent` (`HeldIsConsistent`) and `HolderFindsRoot` (`RootAlwaysFound`),
for every issuer that Registry allows and that has lost no leaf, and with nothing assumed of the parts a
credential is made of. `ChainInv` says that blocks and times go up along the chain and
that each state extends all earlier ones: Registry promises that of neighbours
only. `VerifierInv` carries what each check has established over the later steps:
the claim is in a state of the chain, and the state of the proof either is younger
than the freshness or has revoked all that was revoked when the verifier was
called. That holds of the state the credential names before it is linked to the
chain, so the invariant speaks of the state named, and the last step makes it one
of the chain. `HolderInv` relates the credential a holder has, or
is collecting, to the two states of the chain that it was made from.

### MerkleTreeProofs

All six invariants of the run, for every set of indexes and every number of levels
and of failures: `RootCommits` (`RootCommitsToSet`), `Readable`
(`VersionsReadable`), `Sound` (`ProofsSound`), `Verify` (`ProofsVerify`),
`SurviveBytes` (`ProofsSurviveBytes`) and `AcceptsWhatFits`
(`AddEntryAcceptsWhatFits`); and `AcceptedProofsSound`, which is more than TLC
can enumerate: *any* proof that gives the root of a tree is right, with
nothing assumed of its depth, its bitmap and its siblings. The one assumption is that hashes
do not collide.

Every function of the model is a recursion over the levels. A first group of lemmas
shows that each one equals its unfolding (tlapm does not take that from the
definition of a function inside an operator), and induction over levels is
derived from the well-foundedness of the naturals with the property given as a *set* of
levels: an operator would be beyond the provers.

The facts are then about sets. `Tree[l][s]` is the tree of the leaves `s` below the
level `l` and `Held[l][s]` are its nodes. `Fits` says that any two leaves part above
the last level, as `pushLeaf` demands. From the bottom up: an insertion that
succeeds leads from `Tree[l][s]` to `Tree[l][s \cup {new}]` and puts exactly the nodes that
are missing (`PushInserts`, `AddInserts`); the way down along an index passes
through the trees of the leaves under it (`PathTree`); different sets have different
trees, at whatever levels (`TreeInjective`); a tree is not a node of itself further
down (`TreeNotBelow`).

`TreeInv` is inductive and gives all six. `VersionsStored`: every version
has its tree in the storage. `NodesHeld`: the storage has no other node, so
that an insertion never meets a node it has to make (`addNode` refuses those)
unless its leaf is already there. `RootKnown`: after a failed commit, or the restart after
an import, the object's root may have no node, and then no insertion gets anywhere;
without failures the second is the only way to it.
`NothingLost`: without failures the current version has the entries of
all others, which is what makes `AcceptsWhatFits` true and what it loses when the
root could not be read. TLC has checked `TreeInv` on the instance of `merkletree`.

### OffChainCacheProofs, NonceDbProofs

`RingInvariance`: until the ring is full it is filled from slot 0 on, afterwards the
slot to be written next has the oldest publication (`Layout`). `RecentServed`
(`RecentIsServed`) and `LastServed` (`LastIsServed`) follow, for every length of the
cache; the first needs that the search stops at an empty slot only when there is nothing behind
it, the second where `255 % CacheLen` is in a full ring.

`DbInvariance`: what the map has under a nonce is in the heap, is an object of that
nonce, and has not been found by a `SearchAndDelete` (`MapInv`). With it,
`NonceUsedOnce` (`UsedOnce`), and `DeleteOldExact` (`DeleteOldIsExact`), where
an expired object of the map has to be in the heap to be deleted, and an object of the
heap that is not in the map must be that of a nonce that was used since (`HeapInv`),
because it takes with it whatever the map has under its nonce.

### KVStorageProofs

`ListStaysWhole` (`ListIsWhole`), `ListGrows` (`ListOnlyGrows`) and `ViewsStaySeparate`
(`ViewsAreSeparate`). First lemma: a full key determines the view and the key
it was made of, since no prefix is a prefix of another. So each transaction's cache is
what was put, view by view, and the trees' transactions hold no key of the list, also
after they were added to one another (`TxInv`); and the storage is `shadow`. `ListIsWhole` alone is not
inductive: the issuer's open transaction holds puts that must fit on top of what is
stored at the moment it commits. `ListInv` says that the list is whole in the
storage and as the transaction sees it, and that the second continues the first.

### KeyStoreProofs, ZkFilesProofs

`KeysAreKept` (`KeysKept`), `LockExcludes` (`SharedOnlyIfOrphaned`) and
`FinalizerCleans` (`FinalizedIsClean`) of any number of stores. As long as no two have had the lock at once
(`shared`, after which the property promises nothing), what is due is in the
file or, while the file is truncated, in the memory of the store that has the lock
(`FileInv`); `StoreInv` says what each store can have in memory at each point of its
life, an object that is finalized and one that is not yet made included. `LockInv`
says that until a lock file is removed under a store all of them have the same
file open, the one with the name: then flock(2) is enough.

`HashIsGiven` (`GivenHasHash`), `WholeFiles` (`FileIsWhole`) and `FilesStay`
(`FileStays`). The invariant follows the temporary file: while the lock excludes,
one user at most is past the point where it found no file, the temporary file is
its own as far as it has come (`TmpInv`), and whoever has checked the file can rely
on it (`HashInv`). The proof showed that `GivenHasHash`, which TLC had
checked for two processes only, needs its exception for three (section 5).

### Only model-checked

* Liveness under fairness, which the prover cannot treat: `SyncCatchesUp`,
  `ChangesReachChain`, `ExpiredLeaves`, `StorageObtainable`, `FileObtained`.
* `Claims`: `EntryKept` and `StaleOnlyInNonce`, a finite table of claim types and
  conversions over cells; the run covers all of the table.
* That `Verification` may assume `Registry`, and `Issuer` the commits of
  `KVStorage`, is an argument between modules (section 2), not a theorem.

## 5. Not modelled

The printed forms of a tree; the local stand-ins for contract and off-chain server,
which serve the tests; generated contract bindings; proving and
cryptography (a proof is what it proves, a hash is what it hashes); HTTP;
`UpdateClaim`, which the code does not implement; `MemStorage` of the key store,
which has neither lock nor failures; the text forms of claim types;
the claim types whose files are commented out (`claimAssignName.go` and others).

Behaviours of the models worth knowing that no run is about:

* a crash between the commit of the roots tree and that of the list makes every later
  `PublishState` fail, because the root is there already, until another claim is
  issued (`PublishStateRoots`; without failures `NoFatalError` excludes it);
* when the commit inside `AddEntry` of the claims or revocations tree fails, the
  caller gets an error, but the next `PublishState` sends a state with the claim or
  revocation in it, under a root whose nodes are nowhere: the public data of such a
  revocations tree cannot be dumped, and no credential can be made from such a claims
  tree. After a restart the leaf is gone, and the next state takes back what is on
  chain: a revocation that verifiers have seen is undone (`lost`, `ExtendsBut`).
  The claims tree is then an earlier one, whose root is in the roots tree already,
  so that `PublishState` is refused until another claim is issued;
* when that happens in the roots tree nothing is published until a restart
  (`PublishStateRootsFails`);
* `GenCredentialExistence` compares indexes only, although the comment there says
  that the value is checked: a claim that `IssueClaim` refused, and that has
  another nonce since, gets a credential that verifiers reject
  (`CredentialIsIssued` is about claims as they are in the tree);
* `prevCacheIdx` computes in a byte: with a cache length that does not divide 256,
  such as 3, an older publication is served as the last whenever the index has come
  around to 0, until the next one, against the comment of `GetPublicData`
  (`writerhttp.go:165-167`: "If the queryIdenState is nil, the last identity off
  chain public data is returned."). `LastIsServed` says which (`Lag`); the default
  length, 4, is not affected;
* `ImportTree` stores the root without its type byte, and a tree that was imported
  and is opened again has a root that never was (`Untyped`, `dbGetRoot`) and refuses
  every entry (`AddEntryAcceptsWhatFits`);
* `NewMerkleTree` takes a root that cannot be read for no root, and stores an empty
  one over it: the nodes stay, but nothing leads to them;
* `Create` on a storage that has an identity would set the length of its list to 0
  (`ListInit`): it does not look;
* after a crash inside `Create` the storage can be neither loaded nor created
  again (`CreateAgain`);
* `PublishState` tried again from (B) publishes the trees as they are then, so
  that the pending state X of the graph in its comment may change between (B) and
  (C), and the one of (B) stays in the list without ever having been sent;
* when the answer to a transaction that was sent is lost the registers stay in
  (B), where `SyncIdenStatePublic` reads the contract without waiting for
  `ConfirmBlocks` (`AdoptsConfirmed` holds without failures);
* an `IssueClaim` that fails has changed the revocation nonce in the caller's
  claim all the same (`revNonce`);
* `SearchAndDelete` leaves the object in the heap: when the nonce is added again
  and the first object expires, `DeleteOld` deletes the second (the exception in
  `DeleteOldIsExact`);
* a key store that is closed goes on signing, with zeros for keys, and unlocks keys
  again, which only the finalizer clears;
* a crash while the keys are written loses all of them, and contents that are no
  JSON keep everybody from opening the storage (`Torn`);
* a zk file with the wrong hash is never downloaded again: somebody has to remove
  it (the second half of `FileObtained`);
* with three processes and two failed downloads all three can be in `download` at once: two
  write to one temporary file, the first renames it, the third begins a new
  one, and the second renames that, half written, over the file that the first has
  checked and gives out (`GivenHasHash` excepts it);
* a subject in the value of a claim is read back as neither position: such a claim
  cannot be unmarshalled, and without a subject the flag of its position becomes
  that of the version when it is marshalled again;
* `HexToClaimGeneric` leaves the metadata empty, so that `Entry` overwrites type,
  flags and nonce of what was in the string;
* a header that `UnmarshalJSON` refuses has replaced the one of the claim;
* when the off-chain publication fails the transaction has been sent already, and
  nothing publishes the public data of that state again: holders get none until
  the next state (`KnownStateServed` is about behaviours without failures).

## 6. Plan

1. Done: `Issuer` with `Registry` and `PendingGraph`, its proofs; `Verification`;
   `OffChainCache`; `NonceDb`; `MerkleTree`; `KVStorage`; `FileLock`, `KeyStore`,
   `ZkFiles`; `Claims`.
   All of their safety properties are proved except those of `Claims`.
2. Proofs: `EntryKept` and `StaleOnlyInNonce` for every identifier and nonce, once the
   cells of an entry are functions the provers can expand; lemmas of `Registry`
   (`Extends` along a chain) that `Issuer` and `Verification` both use.
3. Import into a Merkle tree in use.
4. `Issuer` composed with `OffChainCache`: which states a holder can still get.
