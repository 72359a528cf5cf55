------------------------------ MODULE ZkFiles -------------------------------
(***************************************************************************)
(* utils/zk: one of the files that ZkFiles objects of several processes    *)
(* download into the same directory, check and parse.  The three files of a*)
(* ZkFiles have their own names and locks and are loaded one after another;*)
(* the proving key differs from the others in that it may not be cached.   *)
(*                                                                         *)
(* A file has two halves, which io.Copy writes in turn; a name may move to *)
(* another file, or away, while the file is being written.                 *)
(***************************************************************************)
EXTENDS Integers, FiniteSets

CONSTANTS
    Users,        \* ZkFiles objects, with the same Url and Path
    Good, Other,  \* halves of the file with the hash, and of any other body
    None,         \* a half that is not written; no contents
    MaxFaults     \* bound on crashes, failed steps and bodies other than Good

ASSUME ZkFilesAssumption ==
    /\ IsFiniteSet(Users)
    /\ Good # Other /\ Good # None /\ Other # None
    /\ MaxFaults \in Nat

VARIABLES
    lockFile, fh, locked,  \* filename.tmp.lock
    file, tmp,             \* the files that have the names filename and filename.tmp
    contents,              \* of each file, its halves
    caching,               \* cacheProvingKey, or one of the other two files
    path,                  \* of each user: whether z.path... is set
    object,                \* of each user: the parsed file it has cached, or None
    pc, mode,              \* of each user: where its call is, and which it is
    hd,                    \* of each user: the file it has created
    body,                  \* of each user: what the server sends it
    ok,                    \* of each user: whether download gives no error
    got,                   \* of each user: what it has been given last, or None
    shared, other,         \* two users have had locks at once; a body was not Good
    faults

lockVars == <<lockFile, fh, locked>>
fileVars == <<file, tmp, contents>>
objVars == <<caching, path, object, got>>
vars == <<lockVars, fileVars, objVars, pc, mode, hd, body, ok, shared, other, faults>>

L == INSTANCE FileLock WITH Owners <- Users

NoFile == 0
Files == NoFile .. Cardinality(Users) + 2

Whole(half) == <<half, half>>
Unwritten == Whole(None)

(* What the name filename stands for, and whether it has the hash.         *)
Exists == file # NoFile
HasHash == Exists /\ contents[file] = Whole(Good)

-----------------------------------------------------------------------------
Init ==
    /\ L!Init
    /\ file = NoFile
    /\ tmp = NoFile
    /\ contents = [f \in Files |-> Unwritten]
    /\ caching \in BOOLEAN
    /\ path = [u \in Users |-> FALSE]
    /\ object = [u \in Users |-> None]
    /\ pc = [u \in Users |-> "idle"]
    /\ mode = [u \in Users |-> "load"]
    /\ hd = [u \in Users |-> NoFile]
    /\ body = [u \in Users |-> None]
    /\ ok = [u \in Users |-> TRUE]
    /\ got = [u \in Users |-> None]
    /\ shared = FALSE
    /\ other = FALSE
    /\ faults = 0

Fault == faults < MaxFaults /\ faults' = faults + 1

Goto(u, l) == pc' = [pc EXCEPT ![u] = l]
Step(u, from, to) == pc[u] = from /\ Goto(u, to)

(* A return from download: what is deferred is done.                       *)
Return_Undeferred(u, success) ==
    /\ Goto(u, IF success THEN "unlocking" ELSE "idle")
    /\ ok' = [ok EXCEPT ![u] = success]
Return(u, success) ==
    /\ Goto(u, "unlocking")
    /\ ok' = [ok EXCEPT ![u] = success]

(* What is done after download has given no error.                         *)
Downloaded(m) == IF m = "insecure" THEN "idle" ELSE "checking"

-----------------------------------------------------------------------------
(* The methods that Load the file or give it out return at once when they  *)
(* have the object, which changes nothing; else they load it from the path *)
(* that is set, ...                                                        *)
LoadFromPath(u) ==
    /\ object[u] = None
    /\ path[u]
    /\ Step(u, "idle", "parsing")
    /\ UNCHANGED <<lockVars, fileVars, objVars, mode, hd, body, ok, shared, other, faults>>

(* ... or download it first, as the methods that Download do in any case.  *)
(* download looks for the file before anything else.                       *)
Download(u, m) ==
    /\ m = "load" => object[u] = None /\ ~path[u]
    /\ Step(u, "idle", IF Exists THEN Downloaded(m) ELSE "opening")
    /\ mode' = [mode EXCEPT ![u] = m]
    /\ UNCHANGED <<lockVars, fileVars, objVars, hd, body, ok, shared, other, faults>>

Ask(u) == LoadFromPath(u) \/ Download(u, "load")

(* The loop around TryLock, with its two halves.                           *)
OpenLockFile(u) ==
    /\ Step(u, "opening", "trying")
    /\ L!Open(u)
    /\ UNCHANGED <<fileVars, objVars, mode, hd, body, ok, shared, other, faults>>

Flock(u) ==
    /\ pc[u] = "trying"
    /\ \/ /\ L!Lock(u)
          /\ Goto(u, "locked")
          /\ shared' = (shared \/ L!OtherLocked(u))
       \/ /\ L!Refused(u)
          /\ Goto(u, "opening")
          /\ UNCHANGED shared
    /\ UNCHANGED <<fileVars, objVars, mode, hd, body, ok, other, faults>>

(* The file may be there by now.                                           *)
ExistsNow_Unchecked == FALSE
ExistsNow == Exists

StatAgain(u) ==
    /\ pc[u] = "locked"
    /\ IF ExistsNow THEN Return(u, TRUE) ELSE Goto(u, "getting") /\ UNCHANGED ok
    /\ UNCHANGED <<lockVars, fileVars, objVars, mode, hd, body, shared, other, faults>>

(* client.Get: a body, or an error or a status other than 2xx.             *)
Get(u) ==
    /\ pc[u] = "getting"
    /\ \/ /\ Goto(u, "creating")
          /\ body' = [body EXCEPT ![u] = Good]
          /\ UNCHANGED <<ok, other, faults>>
       \/ /\ Fault
          /\ Goto(u, "creating")
          /\ body' = [body EXCEPT ![u] = Other]
          /\ other' = TRUE
          /\ UNCHANGED ok
       \/ /\ Fault
          /\ Return(u, FALSE)
          /\ UNCHANGED <<body, other>>
    /\ UNCHANGED <<lockVars, fileVars, objVars, mode, hd, shared>>

(* os.Create makes the file with that name, or truncates it.               *)
NewFile == CHOOSE f \in Files : f \notin {NoFile, file, tmp} /\ \A u \in Users : hd[u] # f

Create(u) ==
    /\ Step(u, "creating", "copying1")
    /\ tmp' = IF tmp = NoFile THEN NewFile ELSE tmp
    /\ hd' = [hd EXCEPT ![u] = tmp']
    /\ contents' = [contents EXCEPT ![tmp'] = Unwritten]
    /\ UNCHANGED <<lockVars, file, objVars, mode, body, ok, shared, other, faults>>

(* io.Copy, Sync and Close: each may fail.                                 *)
WriteHalf(u, n) == contents' = [contents EXCEPT ![hd[u]][n] = body[u]]

CopyFails_Ignored(u) ==
    /\ Fault
    /\ Goto(u, "renaming")
    /\ UNCHANGED <<ok, contents>>
CopyFails(u) ==
    /\ Fault
    /\ Return(u, FALSE)
    /\ UNCHANGED contents

Copy(u) ==
    /\ \/ /\ Step(u, "copying1", "copying2")
          /\ WriteHalf(u, 1)
          /\ UNCHANGED <<ok, faults>>
       \/ /\ Step(u, "copying2", "renaming")
          /\ WriteHalf(u, 2)
          /\ UNCHANGED <<ok, faults>>
       \/ /\ pc[u] \in {"copying1", "copying2"}
          /\ CopyFails(u)
    /\ UNCHANGED <<lockVars, file, tmp, objVars, mode, hd, body, shared, other>>

(* os.Rename, of whatever has the name filename.tmp.                       *)
Rename(u) ==
    /\ pc[u] = "renaming"
    /\ Return(u, tmp # NoFile)
    /\ file' = IF tmp # NoFile THEN tmp ELSE file
    /\ tmp' = NoFile
    /\ UNCHANGED <<lockVars, contents, objVars, mode, hd, body, shared, other, faults>>

(* The deferred function: the lock is given up, and then its file removed. *)
(* The error it assigns is the one of the loop, not that of download.      *)
Unlock(u) ==
    /\ Step(u, "unlocking", "removing")
    /\ L!Unlock(u)
    /\ hd' = [hd EXCEPT ![u] = NoFile]
    /\ body' = [body EXCEPT ![u] = None]
    /\ UNCHANGED <<fileVars, objVars, mode, ok, shared, other, faults>>

RemoveLockFile(u) ==
    /\ Step(u, "removing", IF ok[u] THEN Downloaded(mode[u]) ELSE "idle")
    /\ L!Remove
    /\ UNCHANGED <<fileVars, objVars, mode, hd, body, ok, shared, other, faults>>

(* checkHash, and the assignment to the path.                              *)
checkHash_Exists == Exists
checkHash == HasHash

Check(u) ==
    /\ pc[u] = "checking"
    /\ IF checkHash
       THEN /\ path' = [path EXCEPT ![u] = TRUE]
            /\ Goto(u, IF mode[u] = "load" THEN "parsing" ELSE "idle")
       ELSE /\ Goto(u, "idle")
            /\ UNCHANGED path
    /\ UNCHANGED <<lockVars, fileVars, caching, object, got, mode, hd, body, ok, shared, other, faults>>

(* The file is read again, parsed, kept and given out; a parser may refuse *)
(* what it was not made for.                                               *)
Parsed == contents[file]
Kept(u) == IF caching THEN [object EXCEPT ![u] = Parsed] ELSE object

Parse(u) ==
    /\ Step(u, "parsing", "idle")
    /\ \/ /\ Exists
          /\ got' = [got EXCEPT ![u] = Parsed]
          /\ object' = Kept(u)
       \/ /\ ~HasHash
          /\ UNCHANGED <<got, object>>
    /\ UNCHANGED <<lockVars, fileVars, caching, path, mode, hd, body, ok, shared, other, faults>>

(* The process of u ends, at any point, and begins anew.                   *)
Crash(u) ==
    /\ pc[u] # "idle"
    /\ Fault
    /\ Goto(u, "idle")
    /\ L!Unlock(u)
    /\ hd' = [hd EXCEPT ![u] = NoFile]
    /\ body' = [body EXCEPT ![u] = None]
    /\ path' = [path EXCEPT ![u] = FALSE]
    /\ object' = [object EXCEPT ![u] = None]
    /\ got' = [got EXCEPT ![u] = None]
    /\ UNCHANGED <<fileVars, caching, mode, ok, shared, other>>

-----------------------------------------------------------------------------
InCall(u) ==
    \/ OpenLockFile(u)
    \/ Flock(u)
    \/ StatAgain(u)
    \/ Get(u)
    \/ Create(u)
    \/ Copy(u)
    \/ Rename(u)
    \/ Unlock(u)
    \/ RemoveLockFile(u)
    \/ Check(u)
    \/ Parse(u)

Next ==
    \E u \in Users :
       \/ Ask(u)
       \/ \E m \in {"insecure", "download"} : Download(u, m)
       \/ InCall(u)
       \/ Crash(u)

(* A call goes on, the server answers, and one who has not got the file    *)
(* asks for it again.                                                      *)
Fairness == \A u \in Users : WF_vars(InCall(u)) /\ SF_vars(Ask(u))

Spec == Init /\ [][Next]_vars /\ Fairness

-----------------------------------------------------------------------------
(* What a ZkFiles gives out has the hash, although it is read again after  *)
(* it was checked, and is not checked again for the next call.  The lock   *)
(* alone does not ensure it: with two users in download at once it takes   *)
(* that the server sends both of them the same, and a third one may rename *)
(* what another has begun to write.                                        *)
ThreeUsers == \E u, v, w \in Users : u # v /\ v # w /\ u # w

GivenHasHash ==
    \/ shared /\ (other \/ ThreeUsers)
    \/ \A u \in Users : got[u] \in {None, Whole(Good)}

(* While the lock keeps users apart, what gets the name filename is a body *)
(* as a whole, whatever a failed or crashed download left behind.          *)
FileIsWhole == ~shared /\ Exists => contents[file] \in {Whole(Good), Whole(Other)}

(* It also never changes again: nobody who waited for the lock downloads it*)
(* a second time, under those who have checked it and read it at each call.*)
FileStays == [][~shared' /\ Exists => file' = file /\ contents'[file] = contents[file]]_vars

(* One who keeps asking gets the file, in spite of what crashes and failed *)
(* downloads of others left, unless a wrong one is in its place: no call   *)
(* removes that.                                                           *)
FileObtained == \A u \in Users : <>(got[u] = Whole(Good)) \/ <>[](Exists /\ ~HasHash)

=============================================================================
