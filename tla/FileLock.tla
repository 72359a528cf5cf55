------------------------------ MODULE FileLock ------------------------------
(***************************************************************************)
(* The lock files of keystore and utils/zk: flock(2), through gofrs/flock, *)
(* on a file that is removed when it is unlocked.  A lock belongs to the   *)
(* file that was opened, not to its name, so that files are numbered and   *)
(* the name is a variable.                                                 *)
(***************************************************************************)
EXTENDS Integers, FiniteSetsExt

CONSTANT Owners     \* who may have the lock

VARIABLES
    lockFile,       \* the file that has the name
    fh, locked      \* of each owner: the opened file, and whether it is locked

NoFile == 0
Files == NoFile .. Cardinality(Owners) + 1

Init ==
    /\ lockFile = NoFile
    /\ fh = [s \in Owners |-> NoFile]
    /\ locked = [s \in Owners |-> FALSE]

NewFile == Min(Files \ ({NoFile, lockFile} \cup {fh[s] : s \in Owners}))

(* The first half of TryLock: the file is opened, and made where there is  *)
(* none, unless it is open since an earlier call.                          *)
Open_Anew(s) ==
    /\ lockFile' = IF fh[s] = NoFile THEN NewFile ELSE lockFile
    /\ fh' = IF fh[s] = NoFile THEN [fh EXCEPT ![s] = lockFile'] ELSE fh
    /\ UNCHANGED locked
Open(s) ==
    /\ lockFile' = IF fh[s] = NoFile /\ lockFile = NoFile THEN NewFile ELSE lockFile
    /\ fh' = IF fh[s] = NoFile THEN [fh EXCEPT ![s] = lockFile'] ELSE fh
    /\ UNCHANGED locked

Free(s) == \A t \in Owners : ~(locked[t] /\ fh[t] = fh[s])

(* The second half: it is locked, or TryLock gives FALSE.  Then versions of*)
(* the library differ in whether the file stays open.                      *)
Lock(s) ==
    /\ Free(s)
    /\ locked' = [locked EXCEPT ![s] = TRUE]
    /\ UNCHANGED <<lockFile, fh>>

Refused(s) ==
    /\ ~Free(s)
    /\ fh' \in {fh, [fh EXCEPT ![s] = NoFile]}
    /\ UNCHANGED <<lockFile, locked>>

(* Unlock, which closes the file, as the end of a process does.            *)
Unlock(s) ==
    /\ fh' = [fh EXCEPT ![s] = NoFile]
    /\ locked' = [locked EXCEPT ![s] = FALSE]
    /\ UNCHANGED lockFile

(* os.Remove, of whatever has the name.                                    *)
Remove ==
    /\ lockFile' = NoFile
    /\ UNCHANGED <<fh, locked>>

(* Whether somebody else has a lock, of this file or of one that had its   *)
(* name before or after it.                                                *)
OtherLocked(s) == \E t \in Owners \ {s} : locked[t]

=============================================================================
