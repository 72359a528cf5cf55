------------------------------ MODULE KeyStore ------------------------------
(***************************************************************************)
(* keystore: key stores over a FileStorage at one path.  Each member of    *)
(* Stores is a place for a KeyStore object, in a process of its own: one   *)
(* is opened there, used, closed, finalized, and another may be opened     *)
(* there afterwards.                                                       *)
(*                                                                         *)
(* The path is guarded by a lock on a second file, path.lock, that Unlock  *)
(* removes (FileLock).                                                     *)
(***************************************************************************)
EXTENDS Integers, FiniteSetsExt

CONSTANTS
    Stores,      \* places for a KeyStore object
    Keys,        \* public keys, each standing for its secret key too
    Passwords,
    Torn,        \* contents of the file that are no JSON
    Nil,         \* no KeyStore object, and no Write under way
    MaxCalls,    \* bound on calls of ImportKey, UnlockKey and SignElem
    MaxFaults    \* bound on crashes and failed reads and writes

(* The contents of the map in a KeyStore: which keys are in it, and with   *)
(* which password each is encrypted.                                       *)
KeyMaps == UNION {[K -> Passwords] : K \in SUBSET Keys}

ASSUME KeyStoreAssumption ==
    /\ IsFiniteSet(Stores)
    /\ Torn # Nil /\ Torn \notin KeyMaps
    /\ Nil \notin KeyMaps /\ Nil \notin Keys \X Passwords
    /\ MaxCalls \in Nat
    /\ MaxFaults \in Nat

(* Maps: one without keys, and m with the value v for the key k.           *)
Empty == [k \in {} |-> Nil]
Assign(m, k, v) == [j \in DOMAIN m \cup {k} |-> IF j = k THEN v ELSE m[j]]

VARIABLES
    lockFile,       \* the file that has the name path.lock
    file,           \* the keys in the storage, each with the password it is encrypted with
    fh, locked,     \* of each store: its flock
    encryptedKeys,  \* of each store, as in the file; Nil before it is made
    cache,          \* of each store: its unlocked keys, "key" or, once cleared, "zero"
    pc,             \* where NewKeyStore or Close is
    final,          \* the finalizer has been called
    writing,        \* of each store: the key and password ImportKey is writing
    due, cut, shared, \* what KeysKept is about, see there
    orphaned,       \* path.lock was removed while another store had it open
    calls, faults

lockVars == <<lockFile, fh, locked>>
keyVars == <<encryptedKeys, cache>>
history == <<due, cut, shared, orphaned>>
vars == <<lockFile, file, fh, locked, encryptedKeys, cache, pc, final, writing,
          due, cut, shared, orphaned, calls, faults>>

L == INSTANCE FileLock WITH Owners <- Stores

Running == {"open", "unlocking", "removing", "closed"}

-----------------------------------------------------------------------------
Nothing == [k \in Keys |-> {}]

Init ==
    /\ L!Init
    /\ file = Empty
    /\ encryptedKeys = [s \in Stores |-> Nil]
    /\ cache = [s \in Stores |-> Empty]
    /\ pc = [s \in Stores |-> "absent"]
    /\ final = [s \in Stores |-> FALSE]
    /\ writing = [s \in Stores |-> Nil]
    /\ due = Nothing
    /\ cut = FALSE
    /\ shared = FALSE
    /\ orphaned = FALSE
    /\ calls = 0
    /\ faults = 0

Fault == faults < MaxFaults /\ faults' = faults + 1

(* No object is left here: the next one to be opened is a new one.         *)
Forget(s) ==
    /\ encryptedKeys' = [encryptedKeys EXCEPT ![s] = Nil]
    /\ cache' = [cache EXCEPT ![s] = Empty]
    /\ final' = [final EXCEPT ![s] = FALSE]
    /\ writing' = [writing EXCEPT ![s] = Nil]

(* The lock of s is given up.  What was to be in the file is lost if it    *)
(* has been truncated and not written since.                               *)
Release(s) ==
    /\ L!Unlock(s)
    /\ due' = IF locked[s] /\ cut THEN Nothing ELSE due
    /\ cut' = (cut /\ ~locked[s])
    /\ UNCHANGED <<shared, orphaned>>

-----------------------------------------------------------------------------
(* NewKeyStore.  TryLock opens path.lock, ...                              *)
OpenLockFile_Excl(s) ==
    /\ pc[s] = "absent"
    /\ IF lockFile = L!NoFile
       THEN L!Open(s) /\ pc' = [pc EXCEPT ![s] = "trying"]
       ELSE UNCHANGED <<lockVars, pc>>
    /\ UNCHANGED <<file, keyVars, final, writing, history, calls, faults>>
OpenLockFile(s) ==
    /\ pc[s] = "absent"
    /\ L!Open(s)
    /\ pc' = [pc EXCEPT ![s] = "trying"]
    /\ UNCHANGED <<file, keyVars, final, writing, history, calls, faults>>

(* ... and locks it, or NewKeyStore gives ErrStorageLock.                  *)
Flock(s) ==
    /\ pc[s] = "trying"
    /\ \/ /\ L!Lock(s)
          /\ pc' = [pc EXCEPT ![s] = "reading"]
          /\ shared' = (shared \/ L!OtherLocked(s))
       \/ /\ L!Refused(s)
          /\ pc' = [pc EXCEPT ![s] = "absent"]
          /\ UNCHANGED shared
    /\ UNCHANGED <<file, keyVars, final, writing, due, cut, orphaned, calls, faults>>

(* No file and an empty one are no keys; with an error, or without JSON in *)
(* it, the storage is unlocked again.                                      *)
KeysRead_Fresh == Empty
KeysRead == file

IsJSON == file # Torn

ReadKeys(s) ==
    /\ pc[s] = "reading"
    /\ \/ /\ IsJSON
          /\ encryptedKeys' = [encryptedKeys EXCEPT ![s] = KeysRead]
          /\ pc' = [pc EXCEPT ![s] = "open"]
          /\ UNCHANGED faults
       \/ /\ \/ ~IsJSON /\ UNCHANGED faults
             \/ Fault
          /\ pc' = [pc EXCEPT ![s] = "unlocking"]
          /\ UNCHANGED encryptedKeys
    /\ UNCHANGED <<lockVars, file, cache, final, writing, history, calls>>

(* Close, called by the user, any number of times and without ks.rw: the  *)
(* keys are cleared and stay in the cache.  A key that is unlocked or used *)
(* during the loop is one unlocked or used before or after it.             *)
Cleared(s) == [k \in DOMAIN cache[s] |-> "zero"]

Close_Once(s) ==
    /\ pc[s] \in {"open", "closed"}
    /\ cache' = IF pc[s] = "open" THEN [cache EXCEPT ![s] = Cleared(s)] ELSE cache
    /\ pc' = [pc EXCEPT ![s] = "unlocking"]
Close(s) ==
    /\ pc[s] \in {"open", "closed"}
    /\ cache' = [cache EXCEPT ![s] = Cleared(s)]
    /\ pc' = [pc EXCEPT ![s] = "unlocking"]

UserClose(s) ==
    /\ ~final[s]
    /\ Close(s)
    /\ UNCHANGED <<lockVars, file, encryptedKeys, final, writing, history, calls, faults>>

(* The finalizer calls it when nobody has the object any more.             *)
Finalize(s) ==
    /\ ~final[s]
    /\ writing[s] = Nil
    /\ Close(s)
    /\ final' = [final EXCEPT ![s] = TRUE]
    /\ UNCHANGED <<lockVars, file, encryptedKeys, writing, history, calls, faults>>

(* Unlock waits for a Write, unlocks and closes path.lock, ...             *)
Unlock(s) ==
    /\ pc[s] = "unlocking"
    /\ writing[s] = Nil
    /\ Release(s)
    /\ pc' = [pc EXCEPT ![s] = "removing"]
    /\ UNCHANGED <<file, keyVars, final, writing, calls, faults>>

(* ... and removes what has its name now.                                  *)
RemoveLockFile(s) ==
    /\ pc[s] = "removing"
    /\ L!Remove
    /\ orphaned' = (orphaned \/ \E t \in Stores : fh[t] = lockFile /\ lockFile # L!NoFile)
    /\ IF final[s]
       THEN /\ pc' = [pc EXCEPT ![s] = "absent"]
            /\ Forget(s)
       ELSE /\ pc' = [pc EXCEPT ![s] = IF encryptedKeys[s] = Nil THEN "absent" ELSE "closed"]
            /\ UNCHANGED <<keyVars, final, writing>>
    /\ UNCHANGED <<file, due, cut, shared, calls, faults>>

-----------------------------------------------------------------------------
(* A call can take ks.rw.  Close does not keep it from doing so.           *)
Call(s) ==
    /\ pc[s] \in Running
    /\ encryptedKeys[s] # Nil
    /\ ~final[s]
    /\ writing[s] = Nil
    /\ calls < MaxCalls
    /\ calls' = calls + 1

(* ImportKey, and NewKey: the key is in the map whatever becomes of Write, *)
(* which fails if the storage is unlocked, or cannot be opened, or begins  *)
(* by truncating it.                                                       *)
EncryptData(m, k, p) == Assign(m, k, p)

Tried(k, p) == [due EXCEPT ![k] = IF @ = {} THEN {} ELSE @ \cup {p}]

ImportKey(s, k, p) ==
    /\ Call(s)
    /\ encryptedKeys' = [encryptedKeys EXCEPT ![s] = EncryptData(@, k, p)]
    /\ \/ /\ locked[s]
          /\ writing' = [writing EXCEPT ![s] = <<k, p>>]
          /\ file' = Empty
          /\ cut' = TRUE
          /\ UNCHANGED <<due, faults>>
       \/ /\ locked[s]
          /\ Fault
          /\ due' = Tried(k, p)
          /\ UNCHANGED <<writing, file, cut>>
       \/ /\ ~locked[s]
          /\ UNCHANGED <<writing, file, cut, due, faults>>
    /\ UNCHANGED <<lockVars, cache, pc, final, shared, orphaned>>

(* The end of Write and of ImportKey.                                      *)
Written(s) == encryptedKeys[s]

WriteKeys(s) ==
    /\ writing[s] # Nil
    /\ writing' = [writing EXCEPT ![s] = Nil]
    /\ \/ /\ file' = Written(s)
          /\ cut' = FALSE
          /\ due' = [due EXCEPT ![writing[s][1]] = {writing[s][2]}]
          /\ UNCHANGED faults
       \/ /\ Fault
          /\ file' \in {Empty, Torn}
          /\ due' = Tried(writing[s][1], writing[s][2])
          /\ UNCHANGED cut
    /\ UNCHANGED <<lockVars, keyVars, pc, final, shared, orphaned, calls>>

(* UnlockKey, with the right password.                                     *)
Decrypts(s, k, p) == k \in DOMAIN encryptedKeys[s] /\ encryptedKeys[s][k] = p

UnlockKey(s, k, p) ==
    /\ Call(s)
    /\ Decrypts(s, k, p)
    /\ cache' = [cache EXCEPT ![s] = Assign(@, k, "key")]
    /\ UNCHANGED <<lockVars, file, encryptedKeys, pc, final, writing, history, faults>>

(* SignElem, and Sign and SignRaw, with a key of the cache, cleared or not:*)
(* after Close, and until the key is unlocked again, the signature is that *)
(* of the zero key, and no error tells so.                                 *)
SignElem(s, k) ==
    /\ Call(s)
    /\ k \in DOMAIN cache[s]
    /\ UNCHANGED <<lockVars, file, keyVars, pc, final, writing, history, faults>>

(* The process of s ends; the system closes its files.                     *)
Crash(s) ==
    /\ pc[s] # "absent"
    /\ Fault
    /\ pc' = [pc EXCEPT ![s] = "absent"]
    /\ Release(s)
    /\ Forget(s)
    /\ IF writing[s] # Nil THEN file' \in {Empty, Torn} ELSE UNCHANGED file
    /\ UNCHANGED calls

-----------------------------------------------------------------------------
Next ==
    \E s \in Stores :
       \/ OpenLockFile(s)
       \/ Flock(s)
       \/ ReadKeys(s)
       \/ UserClose(s)
       \/ Finalize(s)
       \/ Unlock(s)
       \/ RemoveLockFile(s)
       \/ \E k \in Keys, p \in Passwords : ImportKey(s, k, p)
       \/ WriteKeys(s)
       \/ \E k \in Keys, p \in Passwords : UnlockKey(s, k, p)
       \/ \E k \in Keys : SignElem(s, k)
       \/ Crash(s)

(* A caller without a store asks again, and what is under way goes on.     *)
Fairness == \A s \in Stores : WF_vars(OpenLockFile(s) \/ Flock(s) \/ ReadKeys(s))
                              /\ WF_vars(Unlock(s) \/ RemoveLockFile(s) \/ WriteKeys(s))

Spec == Init /\ [][Next]_vars /\ Fairness

-----------------------------------------------------------------------------
(* What is explored: nothing is promised once two stores have had the      *)
(* storage at the same time.                                               *)
UntilShared == ~shared

(* What ImportKey has acknowledged is in the file, encrypted with the      *)
(* password of that call or of a failed one since; while the file is       *)
(* truncated and not written again, its owner has it in memory, and only   *)
(* if that owner is closed or crashes then is it lost (due is emptied).    *)
KeyDue(k, keys, passwords) == k \in DOMAIN keys /\ keys[k] \in passwords

KeysKept ==
    shared \/ \A k \in Keys : due[k] # {} =>
       \/ ~cut /\ file # Torn /\ KeyDue(k, file, due[k])
       \/ cut /\ \E s \in Stores :
             /\ locked[s]
             /\ encryptedKeys[s] # Nil
             /\ \/ KeyDue(k, encryptedKeys[s], due[k])
                \/ writing[s] # Nil /\ KeyDue(k, encryptedKeys[s], {writing[s][2]})

(* TryLock keeps every other store out, through crashes that leave         *)
(* path.lock behind, refused attempts that leave it open and any number of *)
(* Closes, until an Unlock has removed path.lock while another store had it*)
(* open: only then do two stores have the storage at the same time.        *)
SharedOnlyIfOrphaned == shared => orphaned

(* The finalizer leaves no secret key in the cache and no lock, also when  *)
(* the object was closed before and went on being used.                    *)
FinalizedIsClean ==
    \A s \in Stores : (final[s] /\ pc[s] = "removing") =>
       ~locked[s] /\ \A k \in DOMAIN cache[s] : cache[s][k] = "zero"

(* A caller that asks again gets the storage if it is readable and no other*)
(* store has it: no lock file that a crash or a Close left keeps it out.   *)
StorageObtainable ==
    \A s \in Stores :
       pc[s] = "absent" ~> \/ pc[s] = "open"
                           \/ file = Torn
                           \/ \E t \in Stores \ {s} : locked[t]

=============================================================================
