---------------------------- MODULE ZkFilesProofs ---------------------------
(***************************************************************************)
(* What the download of a zk file promises, for every number of users and  *)
(* of faults.                                                              *)
(***************************************************************************)
EXTENDS ZkFiles, FiniteSetTheorems, TLAPS

Halves == {Good, Other, None}

(* Where a user has the lock, has found that there is no file, has a body, *)
(* and writes it.                                                          *)
Writing == {"copying1", "copying2", "renaming"}
HasBody == {"creating"} \cup Writing
Past == {"getting"} \cup HasBody
HasLock == {"locked", "unlocking"} \cup Past
Steps == {"idle", "opening", "trying", "removing", "checking", "parsing"} \cup HasLock

TypeOK ==
    /\ locked \in [Users -> BOOLEAN] /\ pc \in [Users -> Steps]
    /\ file \in Files /\ tmp \in Files
    /\ contents \in [Files -> Halves \X Halves]
    /\ hd \in [Users -> Files] /\ body \in [Users -> Halves]
    /\ path \in [Users -> BOOLEAN]
    /\ got \in [Users -> {None} \cup (Halves \X Halves)]
    /\ shared \in BOOLEAN /\ other \in BOOLEAN

UserInv(u) ==
    /\ locked[u] <=> pc[u] \in HasLock
    /\ pc[u] \in HasBody => body[u] \in {Good, Other} /\ (~other => body[u] = Good)
    /\ pc[u] \in Writing => hd[u] # NoFile
    /\ pc[u] = "parsing" => path[u]

(* The file with the name filename.tmp is the one that u writes, as far as *)
(* u has come.                                                             *)
Progress(u) ==
    /\ pc[u] \in Writing => tmp = hd[u]
    /\ pc[u] = "copying2" => contents[hd[u]][1] = body[u]
    /\ pc[u] = "renaming" => contents[hd[u]] = Whole(body[u])

OneLocked == \A u, v \in Users : locked[u] /\ locked[v] => u = v
NonePast == \A u \in Users : pc[u] \notin Past
OnePast == \A u, v \in Users : pc[u] \in Past /\ pc[v] \in Past => u = v

(* The lock excludes, or one of at most two users has finished.            *)
Apart == ~shared \/ (Exists /\ ~ThreeUsers)

LockInv == ~shared => OneLocked /\ (Exists => NonePast) /\ FileIsWhole
TmpInv == /\ tmp # NoFile => tmp # file
          /\ Apart => OnePast /\ (tmp # NoFile => \A u \in Users : Progress(u))

(* Who has checked the file can rely on it.                                *)
Reliable == ~shared \/ ~(other \/ ThreeUsers)
HashInv == Reliable => /\ \A u \in Users : path[u] => HasHash
                       /\ \A u \in Users : got[u] \in {None, Whole(Good)}

Inv == TypeOK /\ (\A u \in Users : UserInv(u)) /\ LockInv /\ TmpInv /\ HashInv

-----------------------------------------------------------------------------
(* There is always a file for os.Create to make.                           *)
LEMMA FileLeft ==
    ASSUME TypeOK, tmp = NoFile
    PROVE  /\ NewFile \in Files
           /\ NewFile # NoFile /\ NewFile # file
<1> DEFINE R == {hd[u] : u \in Users}
           N == Cardinality(Users)
<1>1. IsFiniteSet(Users) /\ N \in Nat
  BY ZkFilesAssumption, FS_CardinalityType DEF ZkFilesAssumption
<1>2. hd \in Surjection(Users, R)
  BY DEF TypeOK, Surjection
<1>3. IsFiniteSet(R) /\ Cardinality(R) <= N /\ Cardinality(R) \in Nat
  BY <1>1, <1>2, FS_Surjection, FS_CardinalityType
<1>4. /\ IsFiniteSet(R \cup {file})
      /\ Cardinality(R \cup {file}) \in Nat /\ Cardinality(R \cup {file}) <= N + 1
  <2> HIDE DEF R, N
  <2>1. IsFiniteSet(R \cup {file}) /\ Cardinality(R \cup {file}) \in Nat
    BY <1>3, FS_AddElement, FS_CardinalityType
  <2>2. Cardinality(R \cup {file}) = Cardinality(R) \/ Cardinality(R \cup {file}) = Cardinality(R) + 1
    BY <1>3, FS_AddElement
  <2> QED
    BY <1>1, <1>3, <2>1, <2>2
<1> DEFINE Q == R \cup {file}
<1>5. /\ IsFiniteSet(Q \cup {NoFile})
      /\ Cardinality(Q \cup {NoFile}) \in Nat /\ Cardinality(Q \cup {NoFile}) <= N + 2
  <2> HIDE DEF Q, N
  <2>0. IsFiniteSet(Q) /\ Cardinality(Q) \in Nat /\ Cardinality(Q) <= N + 1
    BY <1>4 DEF Q
  <2>1. IsFiniteSet(Q \cup {NoFile}) /\ Cardinality(Q \cup {NoFile}) \in Nat
    BY <2>0, FS_AddElement, FS_CardinalityType
  <2>2. Cardinality(Q \cup {NoFile}) = Cardinality(Q) \/ Cardinality(Q \cup {NoFile}) = Cardinality(Q) + 1
    BY <2>0, FS_AddElement
  <2> QED
    BY <1>1, <2>0, <2>1, <2>2
<1>6. Cardinality(Files) = N + 3
  <2>1. 0 \in Int /\ N + 2 \in Int /\ ~(0 > N + 2)
    BY <1>1
  <2>2. Cardinality(0 .. N + 2) = N + 2 - 0 + 1
    BY <2>1, FS_Interval
  <2> QED
    BY <1>1, <2>2 DEF Files, NoFile
<1>7. \E f \in Files : f \notin {NoFile, file, tmp} /\ \A u \in Users : hd[u] # f
  <2> SUFFICES ASSUME ~ \E f \in Files : f \notin {NoFile, file, tmp} /\ \A u \in Users : hd[u] # f
               PROVE  FALSE
    OBVIOUS
  <2>1. Files \subseteq Q \cup {NoFile}
    OBVIOUS
  <2> HIDE DEF Q, N
  <2>2. Cardinality(Files) <= Cardinality(Q \cup {NoFile})
    BY <1>5, <2>1, FS_Subset
  <2> QED
    BY <1>1, <1>5, <1>6, <2>2
<1>8. /\ NewFile \in Files
      /\ NewFile \notin {NoFile, file, tmp}
  BY <1>7 DEF NewFile
<1> QED
  BY <1>8

LEMMA WholeType ==
    ASSUME NEW h \in Halves
    PROVE  Whole(h) \in Halves \X Halves
BY DEF Whole

LEMMA HalfWritten ==
    ASSUME NEW c \in Halves \X Halves, NEW h \in Halves
    PROVE  /\ [c EXCEPT ![1] = h] \in Halves \X Halves
           /\ [c EXCEPT ![2] = h] \in Halves \X Halves
           /\ [c EXCEPT ![1] = h][1] = h
           /\ c[1] = h => [c EXCEPT ![2] = h] = Whole(h)
           /\ c = Whole(h) => [c EXCEPT ![1] = h] = c /\ [c EXCEPT ![2] = h] = c
<1>1. PICK a \in Halves, b \in Halves : c = <<a, b>>
  OBVIOUS
<1>2. [c EXCEPT ![1] = h] = <<h, b>> /\ [c EXCEPT ![2] = h] = <<a, h>>
  BY <1>1
<1> QED
  BY <1>1, <1>2 DEF Whole

LEMMA InitInv == Init => Inv
<1> SUFFICES ASSUME Init
             PROVE  Inv
  OBVIOUS
<1>1. NoFile \in Files
  BY ZkFilesAssumption, FS_CardinalityType DEF ZkFilesAssumption, NoFile, Files
<1>2. Unwritten \in Halves \X Halves
  BY WholeType DEF Unwritten, Halves
<1>3. TypeOK
  BY <1>1, <1>2 DEF Init, L!Init, TypeOK, Steps, Halves
<1>4. \A u \in Users : UserInv(u)
  BY DEF Init, L!Init, UserInv, HasLock, Past, HasBody, Writing
<1>5. LockInv /\ TmpInv /\ HashInv
  BY DEF Init, L!Init, LockInv, TmpInv, HashInv, OneLocked, Exists, FileIsWhole, Apart, OnePast,
     Past, HasBody, Writing
<1> QED
  BY <1>3, <1>4, <1>5 DEF Inv


-----------------------------------------------------------------------------
(* The steps of u that leave the files alone.                              *)

OthersKept(u) ==
    \A v \in Users : v # u =>
        /\ pc'[v] = pc[v] /\ locked'[v] = locked[v] /\ hd'[v] = hd[v]
        /\ body'[v] = body[v] /\ path'[v] = path[v] /\ got'[v] = got[v]

LEMMA OtherUsers ==
    ASSUME NEW u \in Users, OthersKept(u), \A v \in Users : UserInv(v), other => other'
    PROVE  \A v \in Users : v # u => UserInv(v)'
BY DEF OthersKept, UserInv

LEMMA QuietStep ==
    ASSUME Inv, TypeOK', NEW u \in Users, OthersKept(u), UserInv(u)',
           UNCHANGED <<file, tmp, contents>>,
           shared => shared', other => other',
           ~shared' => OneLocked',
           pc'[u] \in Past => pc[u] \in Past \/ ~Exists,
           pc'[u] \in Writing => pc'[u] = pc[u],
           pc'[u] \in Writing => hd'[u] = hd[u] /\ body'[u] = body[u],
           path'[u] => path[u] \/ HasHash,
           got'[u] \in {got[u], None} \/ (path[u] /\ got'[u] = contents[file])
    PROVE  Inv'
<1>1. /\ TypeOK /\ (\A v \in Users : UserInv(v)) /\ LockInv /\ TmpInv /\ HashInv
      /\ Exists' = Exists /\ HasHash' = HasHash
  BY DEF Inv, Exists, HasHash
<1>2. \A v \in Users : UserInv(v)'
  BY <1>1, OtherUsers
<1>3. LockInv'
  <2> SUFFICES ASSUME ~shared'
               PROVE  (Exists => NonePast') /\ FileIsWhole'
    BY <1>1 DEF LockInv
  <2>1. Exists => NonePast
    BY <1>1 DEF LockInv
  <2>2. Exists => NonePast'
    BY <2>1 DEF NonePast, OthersKept
  <2>3. FileIsWhole'
    BY <1>1 DEF LockInv, FileIsWhole
  <2> QED
    BY <2>2, <2>3
<1>4. TmpInv'
  <2> SUFFICES ASSUME Apart'
               PROVE  OnePast' /\ (tmp # NoFile => \A v \in Users : Progress(v)')
    BY <1>1 DEF TmpInv
  <2>1. Apart
    BY <1>1 DEF Apart, ThreeUsers
  <2>2. OnePast /\ (tmp # NoFile => \A v \in Users : Progress(v))
    BY <1>1, <2>1 DEF TmpInv
  <2>3. OnePast'
    <3>1. CASE pc'[u] \in Past => pc[u] \in Past
      BY <2>2, <3>1 DEF OnePast, OthersKept
    <3>2. CASE ~Exists
      <4>1. OneLocked'
        BY <1>1, <3>2 DEF Apart
      <4>2. \A v \in Users : pc'[v] \in Past => locked'[v]
        BY <1>2 DEF UserInv, HasLock
      <4> QED
        BY <4>1, <4>2 DEF OnePast, OneLocked
    <3> QED
      BY <3>1, <3>2
  <2>4. ASSUME tmp # NoFile, NEW v \in Users
        PROVE  Progress(v)'
    <3>1. Progress(v)
      BY <2>2, <2>4
    <3>2. pc'[v] \in Writing => pc'[v] = pc[v] /\ hd'[v] = hd[v] /\ body'[v] = body[v]
      BY DEF OthersKept
    <3> QED
      BY <3>1, <3>2 DEF Progress, Writing
  <2> QED
    BY <2>3, <2>4
<1>5. HashInv'
  <2> SUFFICES ASSUME Reliable'
               PROVE  /\ \A v \in Users : path'[v] => HasHash
                      /\ \A v \in Users : got'[v] \in {None, Whole(Good)}
    BY <1>1 DEF HashInv
  <2>1. Reliable
    BY DEF Reliable, ThreeUsers
  <2>2. /\ \A v \in Users : path[v] => HasHash
        /\ \A v \in Users : got[v] \in {None, Whole(Good)}
    BY <1>1, <2>1 DEF HashInv
  <2>3. path'[u] => HasHash
    BY <2>2
  <2>4. got'[u] \in {None, Whole(Good)}
    BY <2>2 DEF HasHash
  <2> QED
    BY <2>2, <2>3, <2>4 DEF OthersKept
<1> QED
  BY <1>2, <1>3, <1>4, <1>5 DEF Inv

(* Most of them move one user to another place and do nothing else.        *)
LEMMA MoveStep ==
    ASSUME Inv, NEW u \in Users, NEW l, pc' = [pc EXCEPT ![u] = l],
           l \in Steps \ (HasBody \cup {"parsing"}) \/ (l = "parsing" /\ path[u]),
           l \in HasLock <=> pc[u] \in HasLock,
           l = "getting" => ~Exists,
           UNCHANGED <<locked, file, tmp, contents, hd, body, path, got, shared, other>>
    PROVE  Inv'
<1>1. TypeOK /\ (\A v \in Users : UserInv(v)) /\ LockInv
  BY DEF Inv
<1>2. l \in Steps
  BY DEF Steps
<1>3. TypeOK'
  BY <1>1, <1>2 DEF TypeOK
<1>4. OthersKept(u) /\ pc'[u] = l
  BY <1>1 DEF TypeOK, OthersKept
<1>5. UserInv(u)'
  BY <1>1, <1>4 DEF UserInv, HasBody, Writing
<1>6. ~shared' => OneLocked'
  BY <1>1 DEF LockInv, OneLocked
<1>7. l \in Past => l = "getting"
  BY DEF Past, HasBody, Writing
<1>8. l \notin Writing
  BY DEF HasBody, Writing
<1> QED
  BY <1>3, <1>4, <1>5, <1>6, <1>7, <1>8, QuietStep

LEMMA AskInv ==
    ASSUME Inv, NEW u \in Users, LoadFromPath(u) \/ (\E m : Download(u, m))
    PROVE  Inv'
<1>1. CASE LoadFromPath(u)
  BY <1>1, MoveStep DEF LoadFromPath, Step, Goto, lockVars, fileVars, objVars, Steps, HasLock,
     Past, HasBody, Writing
<1>2. ASSUME NEW m, Download(u, m)
      PROVE  Inv'
  <2>1. PICK l \in {"idle", "checking", "opening"} : pc' = [pc EXCEPT ![u] = l]
    BY <1>2 DEF Download, Downloaded, Step, Goto
  <2> QED
    BY <1>2, <2>1, MoveStep DEF Download, Step, lockVars, fileVars, objVars, Steps, HasLock,
       Past, HasBody, Writing
<1> QED
  BY <1>1, <1>2

LEMMA OpenLockFileInv ==
    ASSUME Inv, NEW u \in Users, OpenLockFile(u)
    PROVE  Inv'
BY MoveStep DEF OpenLockFile, L!Open, Step, Goto, fileVars, objVars, Steps, HasLock, Past,
   HasBody, Writing

LEMMA FlockInv ==
    ASSUME Inv, NEW u \in Users, Flock(u)
    PROVE  Inv'
<1>1. /\ UNCHANGED <<file, tmp, contents, hd, body, path, got, other>>
      /\ pc[u] = "trying"
  BY DEF Flock, fileVars, objVars
<1>2. CASE L!Refused(u) /\ Goto(u, "opening") /\ UNCHANGED shared
  BY <1>1, <1>2, MoveStep DEF L!Refused, Goto, Steps, HasLock, Past, HasBody, Writing
<1>3. CASE /\ L!Lock(u) /\ Goto(u, "locked")
           /\ shared' = (shared \/ L!OtherLocked(u))
  <2>1. TypeOK /\ \A v \in Users : UserInv(v)
    BY DEF Inv
  <2>2. /\ locked' = [locked EXCEPT ![u] = TRUE]
        /\ pc' = [pc EXCEPT ![u] = "locked"]
    BY <1>3 DEF L!Lock, Goto
  <2>3. TypeOK'
    BY <1>1, <1>3, <2>1, <2>2 DEF TypeOK, Steps, HasLock, L!OtherLocked
  <2>4. OthersKept(u) /\ pc'[u] = "locked" /\ locked'[u]
    BY <1>1, <2>1, <2>2 DEF TypeOK, OthersKept
  <2>5. UserInv(u)'
    BY <2>4 DEF UserInv, HasLock, Past, HasBody, Writing
  <2>6. ~shared' => OneLocked'
    BY <1>3, <2>4 DEF L!OtherLocked, OneLocked, OthersKept
  <2> QED
    BY <1>1, <1>3, <2>3, <2>4, <2>5, <2>6, QuietStep DEF Past, HasBody, Writing
<1> QED
  BY <1>2, <1>3 DEF Flock

LEMMA StatAgainInv ==
    ASSUME Inv, NEW u \in Users, StatAgain(u)
    PROVE  Inv'
<1>1. CASE pc' = [pc EXCEPT ![u] = "unlocking"]
  BY <1>1, MoveStep DEF StatAgain, lockVars, fileVars, objVars, Steps, HasLock, Past, HasBody,
     Writing
<1>2. CASE ~Exists /\ pc' = [pc EXCEPT ![u] = "getting"]
  BY <1>2, MoveStep DEF StatAgain, lockVars, fileVars, objVars, Steps, HasLock, Past, HasBody,
     Writing
<1> QED
  BY <1>1, <1>2 DEF StatAgain, ExistsNow, Return, Goto

LEMMA GetInv ==
    ASSUME Inv, NEW u \in Users, Get(u)
    PROVE  Inv'
<1>1. /\ UNCHANGED <<locked, file, tmp, contents, hd, path, got, shared>>
      /\ pc[u] = "getting"
  BY DEF Get, lockVars, fileVars, objVars
<1>2. CASE Return(u, FALSE) /\ UNCHANGED <<body, other>>
  BY <1>1, <1>2, MoveStep DEF Return, Goto, Steps, HasLock, Past, HasBody, Writing
<1>3. ASSUME NEW b \in {Good, Other}, pc' = [pc EXCEPT ![u] = "creating"],
             body' = [body EXCEPT ![u] = b],
             \/ b = Good /\ other' = other
             \/ other' = TRUE
      PROVE  Inv'
  <2>1. TypeOK /\ (\A v \in Users : UserInv(v)) /\ LockInv
    BY DEF Inv
  <2>2. TypeOK'
    BY <1>1, <1>3, <2>1 DEF TypeOK, Steps, HasLock, Past, HasBody, Halves
  <2>3. OthersKept(u) /\ pc'[u] = "creating" /\ body'[u] = b /\ locked'[u] = locked[u]
    BY <1>1, <1>3, <2>1 DEF TypeOK, OthersKept
  <2>4. locked[u]
    BY <1>1, <2>1 DEF UserInv, HasLock, Past
  <2>5. UserInv(u)'
    BY <1>3, <2>3, <2>4 DEF UserInv, HasLock, Past, HasBody, Writing
  <2>6. ~shared' => OneLocked'
    BY <1>1, <2>1 DEF LockInv, OneLocked
  <2> QED
    BY <1>1, <1>3, <2>2, <2>3, <2>5, <2>6, QuietStep DEF Past, HasBody, Writing
<1> QED
  BY <1>2, <1>3 DEF Get, Goto

(* Giving up the lock, at the end of download or of the process.           *)
LEMMA UnlockedInv ==
    ASSUME Inv, NEW u \in Users, NEW l \in {"removing", "idle"}, pc' = [pc EXCEPT ![u] = l],
           L!Unlock(u), hd' = [hd EXCEPT ![u] = NoFile], body' = [body EXCEPT ![u] = None],
           UNCHANGED <<file, tmp, contents, shared, other>>,
           path' \in {path, [path EXCEPT ![u] = FALSE]},
           got' \in {got, [got EXCEPT ![u] = None]}
    PROVE  Inv'
<1>1. TypeOK /\ (\A v \in Users : UserInv(v)) /\ LockInv
  BY DEF Inv
<1>2. locked' = [locked EXCEPT ![u] = FALSE]
  BY DEF L!Unlock
<1>3. NoFile \in Files
  BY ZkFilesAssumption, FS_CardinalityType DEF ZkFilesAssumption, NoFile, Files
<1>4. TypeOK'
  BY <1>1, <1>2, <1>3 DEF TypeOK, Steps, Halves
<1>5. /\ OthersKept(u) /\ pc'[u] = l /\ ~locked'[u] /\ (path'[u] => path[u])
      /\ got'[u] \in {got[u], None}
  BY <1>1, <1>2 DEF TypeOK, OthersKept
<1>6. l \notin HasLock /\ l \notin HasBody /\ l \notin Writing /\ l # "parsing" /\ l \notin Past
  BY DEF HasLock, Past, HasBody, Writing
<1>7. UserInv(u)'
  BY <1>5, <1>6 DEF UserInv
<1>8. ~shared' => OneLocked'
  BY <1>1, <1>5 DEF LockInv, OneLocked, OthersKept
<1> QED
  BY <1>4, <1>5, <1>6, <1>7, <1>8, QuietStep

LEMMA RemoveLockFileInv ==
    ASSUME Inv, NEW u \in Users, RemoveLockFile(u)
    PROVE  Inv'
<1>1. PICK l \in {"idle", "checking"} : pc' = [pc EXCEPT ![u] = l]
  BY DEF RemoveLockFile, Step, Goto, Downloaded
<1> QED
  BY <1>1, MoveStep DEF RemoveLockFile, L!Remove, Step, fileVars, objVars, Steps, HasLock, Past,
     HasBody, Writing

LEMMA CheckInv ==
    ASSUME Inv, NEW u \in Users, Check(u)
    PROVE  Inv'
<1>1. /\ UNCHANGED <<locked, file, tmp, contents, hd, body, got, shared, other>>
      /\ pc[u] = "checking"
  BY DEF Check, lockVars, fileVars
<1>2. CASE pc' = [pc EXCEPT ![u] = "idle"] /\ UNCHANGED path
  BY <1>1, <1>2, MoveStep DEF Steps, HasLock, Past, HasBody, Writing
<1>3. ASSUME HasHash, path' = [path EXCEPT ![u] = TRUE], NEW l \in {"parsing", "idle"},
             pc' = [pc EXCEPT ![u] = l]
      PROVE  Inv'
  <2>1. TypeOK /\ (\A v \in Users : UserInv(v)) /\ LockInv
    BY DEF Inv
  <2>2. TypeOK'
    BY <1>1, <1>3, <2>1 DEF TypeOK, Steps
  <2>3. /\ OthersKept(u) /\ pc'[u] = l /\ path'[u] /\ locked'[u] = locked[u]
        /\ got'[u] = got[u]
    BY <1>1, <1>3, <2>1 DEF TypeOK, OthersKept
  <2>4. ~locked[u] /\ l \notin HasLock /\ l \notin HasBody /\ l \notin Writing /\ l \notin Past
    BY <1>1, <2>1 DEF UserInv, HasLock, Past, HasBody, Writing
  <2>5. UserInv(u)'
    BY <2>3, <2>4 DEF UserInv
  <2>6. ~shared' => OneLocked'
    BY <1>1, <2>1 DEF LockInv, OneLocked
  <2> QED
    BY <1>1, <1>3, <2>2, <2>3, <2>4, <2>5, <2>6, QuietStep
<1> QED
  BY <1>2, <1>3 DEF Check, checkHash, Goto

LEMMA ParseInv ==
    ASSUME Inv, NEW u \in Users, Parse(u)
    PROVE  Inv'
<1>1. /\ UNCHANGED <<locked, file, tmp, contents, hd, body, path, shared, other>>
      /\ pc[u] = "parsing" /\ pc' = [pc EXCEPT ![u] = "idle"]
  BY DEF Parse, Step, Goto, lockVars, fileVars
<1>2. CASE UNCHANGED got
  BY <1>1, <1>2, MoveStep DEF Steps, HasLock, Past, HasBody, Writing
<1>3. CASE got' = [got EXCEPT ![u] = contents[file]]
  <2>1. TypeOK /\ (\A v \in Users : UserInv(v)) /\ LockInv
    BY DEF Inv
  <2>2. TypeOK'
    BY <1>1, <1>3, <2>1 DEF TypeOK, Steps
  <2>3. /\ OthersKept(u) /\ pc'[u] = "idle" /\ locked'[u] = locked[u]
        /\ got'[u] = contents[file]
    BY <1>1, <1>3, <2>1 DEF TypeOK, OthersKept
  <2>4. path[u] /\ ~locked[u]
    BY <1>1, <2>1 DEF UserInv, HasLock, Past, HasBody, Writing
  <2>5. UserInv(u)'
    BY <2>3, <2>4 DEF UserInv, HasLock, Past, HasBody, Writing
  <2>6. ~shared' => OneLocked'
    BY <1>1, <2>1 DEF LockInv, OneLocked
  <2> QED
    BY <1>1, <2>2, <2>3, <2>4, <2>5, <2>6, QuietStep DEF Past, HasBody, Writing
<1> QED
  BY <1>2, <1>3 DEF Parse, Parsed


-----------------------------------------------------------------------------
(* The steps that write.                                                   *)

(* While one writes to the temporary file, the others keep where they are. *)
LEMMA OneWriter ==
    ASSUME Inv, NEW u \in Users, pc[u] \in Past, pc'[u] \in Past, OthersKept(u),
           UNCHANGED <<file, shared>>,
           Apart /\ tmp' # NoFile => Progress(u)'
    PROVE  Apart' => OnePast' /\ (tmp' # NoFile => \A v \in Users : Progress(v)')
<1>1. Apart' = Apart
  BY DEF Apart, Exists, ThreeUsers
<1>2. Apart => OnePast
  BY DEF Inv, TmpInv
<1>3. Apart => OnePast'
  BY <1>2 DEF OnePast, OthersKept
<1>4. ASSUME Apart, NEW v \in Users, v # u
      PROVE  Progress(v)'
  <2>1. pc'[v] \notin Past
    BY <1>2, <1>4 DEF OnePast, OthersKept
  <2> QED
    BY <2>1 DEF Progress, Past, HasBody, Writing
<1> QED
  BY <1>1, <1>3, <1>4

LEMMA CreateInv ==
    ASSUME Inv, NEW u \in Users, Create(u)
    PROVE  Inv'
<1>1. TypeOK /\ (\A v \in Users : UserInv(v)) /\ LockInv /\ TmpInv /\ HashInv
  BY DEF Inv
<1>2. /\ UNCHANGED <<locked, file, body, path, got, shared, other>>
      /\ pc[u] = "creating" /\ pc' = [pc EXCEPT ![u] = "copying1"]
      /\ tmp' = IF tmp = NoFile THEN NewFile ELSE tmp
      /\ hd' = [hd EXCEPT ![u] = tmp']
      /\ contents' = [contents EXCEPT ![tmp'] = Unwritten]
  BY DEF Create, Step, Goto, lockVars, objVars
<1>3. tmp' \in Files /\ tmp' # NoFile /\ tmp' # file
  BY <1>1, <1>2, FileLeft DEF TypeOK, TmpInv
<1>4. Unwritten \in Halves \X Halves
  BY WholeType DEF Unwritten, Halves
<1>5. TypeOK'
  BY <1>1, <1>2, <1>3, <1>4 DEF TypeOK, Steps, HasLock, Past, HasBody, Writing
<1>6. /\ OthersKept(u) /\ pc'[u] = "copying1" /\ hd'[u] = tmp' /\ body'[u] = body[u]
      /\ locked'[u] = locked[u]
      /\ contents'[file] = contents[file]
  BY <1>1, <1>2, <1>3 DEF TypeOK, OthersKept
<1>7. UserInv(u)'
  BY <1>1, <1>2, <1>3, <1>6 DEF UserInv, HasLock, Past, HasBody, Writing
<1>8. \A v \in Users : UserInv(v)'
  BY <1>1, <1>2, <1>6, <1>7, OtherUsers
<1>9. pc[u] \in Past /\ pc'[u] \in Past
  BY <1>2, <1>6 DEF Past, HasBody, Writing
<1>10. LockInv'
  BY <1>1, <1>2, <1>9 DEF LockInv, NonePast, Exists, OneLocked, FileIsWhole
<1>11. TmpInv'
  <2>1. Progress(u)'
    BY <1>6 DEF Progress
  <2> QED
    BY <1>2, <1>3, <1>6, <1>9, <2>1, OneWriter DEF TmpInv
<1>12. HashInv'
  BY <1>1, <1>2, <1>6 DEF HashInv, HasHash, Exists, Reliable, ThreeUsers
<1> QED
  BY <1>5, <1>8, <1>10, <1>11, <1>12 DEF Inv

LEMMA CopyHalfInv ==
    ASSUME Inv, NEW u \in Users, NEW n \in {1, 2}, WriteHalf(u, n),
           UNCHANGED <<locked, file, tmp, hd, body, path, got, shared, other>>,
           \/ n = 1 /\ pc[u] = "copying1" /\ pc' = [pc EXCEPT ![u] = "copying2"]
           \/ n = 2 /\ pc[u] = "copying2" /\ pc' = [pc EXCEPT ![u] = "renaming"]
    PROVE  Inv'
<1> DEFINE f == hd[u]
           b == body[u]
           c == contents[f]
<1>1. TypeOK /\ (\A v \in Users : UserInv(v)) /\ LockInv /\ TmpInv /\ HashInv
  BY DEF Inv
<1>2. /\ f \in Files /\ b \in Halves /\ c \in Halves \X Halves
      /\ file \in Files
  BY <1>1 DEF TypeOK
<1>3. contents' = [contents EXCEPT ![f] = [c EXCEPT ![n] = b]]
  BY DEF WriteHalf
<1>4. [c EXCEPT ![n] = b] \in Halves \X Halves
  BY <1>2, HalfWritten
<1>5. /\ contents' \in [Files -> Halves \X Halves]
      /\ contents'[f] = [c EXCEPT ![n] = b]
      /\ file # f => contents'[file] = contents[file]
  BY <1>1, <1>2, <1>3, <1>4 DEF TypeOK
<1>6. TypeOK'
  BY <1>1, <1>5 DEF TypeOK, Steps, HasLock, Past, HasBody, Writing
<1>7. OthersKept(u) /\ pc'[u] = (IF n = 1 THEN "copying2" ELSE "renaming")
  BY <1>1 DEF TypeOK, OthersKept
<1>8. pc[u] \in Writing /\ pc'[u] \in Writing /\ pc[u] \in Past /\ pc'[u] \in Past
  BY <1>7 DEF Past, HasBody, Writing
<1>9. UserInv(u)'
  BY <1>1, <1>7, <1>8 DEF UserInv, HasLock, Past, HasBody, Writing
<1>10. \A v \in Users : UserInv(v)'
  BY <1>1, <1>7, <1>9, OtherUsers
<1>11. LockInv'
  BY <1>1, <1>8 DEF LockInv, NonePast, Exists, OneLocked, FileIsWhole
<1>12. TmpInv'
  <2>1. ASSUME Apart, tmp # NoFile
        PROVE  Progress(u)'
    <3>1. Progress(u)
      BY <1>1, <2>1 DEF TmpInv
    <3>2. tmp = f
      BY <1>8, <3>1 DEF Progress
    <3>3. CASE n = 1
      <4>1. contents'[f][1] = b
        BY <1>2, <1>5, <3>3, HalfWritten
      <4> QED
        BY <1>7, <3>2, <3>3, <4>1 DEF Progress
    <3>4. CASE n = 2
      <4>1. c[1] = b
        BY <3>1, <3>4 DEF Progress
      <4>2. contents'[f] = Whole(b)
        BY <1>2, <1>5, <3>4, <4>1, HalfWritten
      <4> QED
        BY <1>7, <3>2, <3>4, <4>2 DEF Progress
    <3> QED
      BY <3>3, <3>4
  <2>2. tmp' # NoFile => tmp' # file'
    BY <1>1 DEF TmpInv
  <2> QED
    BY <1>7, <1>8, <2>1, <2>2, OneWriter DEF TmpInv
<1>13. HashInv'
  <2>1. ASSUME Reliable, HasHash
        PROVE  HasHash'
    <3>1. shared /\ ~other
      BY <1>1, <1>8, <2>1 DEF LockInv, NonePast, HasHash, Reliable
    <3>2. b = Good
      BY <1>1, <1>8, <3>1 DEF UserInv, HasBody
    <3>3. CASE file = f
      <4>1. c = Whole(b)
        BY <2>1, <3>2, <3>3 DEF HasHash
      <4>2. [c EXCEPT ![1] = b] = c /\ [c EXCEPT ![2] = b] = c
        BY <1>2, <4>1, HalfWritten
      <4>3. contents'[f] = c
        BY <1>5, <4>2
      <4> QED
        BY <2>1, <3>3, <4>3 DEF HasHash, Exists
    <3>4. CASE file # f
      BY <1>5, <2>1, <3>4 DEF HasHash, Exists
    <3> QED
      BY <3>3, <3>4
  <2>2. Reliable' = Reliable
    BY DEF Reliable, ThreeUsers
  <2> QED
    BY <1>1, <2>1, <2>2 DEF HashInv
<1> QED
  BY <1>6, <1>10, <1>11, <1>12, <1>13 DEF Inv

LEMMA CopyInv ==
    ASSUME Inv, NEW u \in Users, Copy(u)
    PROVE  Inv'
<1>1. UNCHANGED <<locked, file, tmp, hd, body, path, got, shared, other>>
  BY DEF Copy, lockVars, objVars
<1>2. CASE Step(u, "copying1", "copying2") /\ WriteHalf(u, 1)
  BY <1>1, <1>2, CopyHalfInv DEF Step, Goto
<1>3. CASE Step(u, "copying2", "renaming") /\ WriteHalf(u, 2)
  BY <1>1, <1>3, CopyHalfInv DEF Step, Goto
<1>4. CASE pc[u] \in {"copying1", "copying2"} /\ CopyFails(u)
  BY <1>1, <1>4, MoveStep DEF CopyFails, Return, Goto, Steps, HasLock, Past, HasBody, Writing
<1> QED
  BY <1>2, <1>3, <1>4 DEF Copy

LEMMA RenameInv ==
    ASSUME Inv, NEW u \in Users, Rename(u)
    PROVE  Inv'
<1>1. TypeOK /\ (\A v \in Users : UserInv(v)) /\ LockInv /\ TmpInv /\ HashInv
  BY DEF Inv
<1>2. /\ UNCHANGED <<locked, contents, hd, body, path, got, shared, other>>
      /\ pc[u] = "renaming" /\ pc' = [pc EXCEPT ![u] = "unlocking"]
      /\ file' = IF tmp # NoFile THEN tmp ELSE file
      /\ tmp' = NoFile
  BY DEF Rename, Return, Goto, lockVars, objVars
<1>3. NoFile \in Files
  BY ZkFilesAssumption, FS_CardinalityType DEF ZkFilesAssumption, NoFile, Files
<1>4. TypeOK'
  BY <1>1, <1>2, <1>3 DEF TypeOK, Steps, HasLock
<1>5. OthersKept(u) /\ pc'[u] = "unlocking" /\ locked'[u] = locked[u]
  BY <1>1, <1>2 DEF TypeOK, OthersKept
<1>6. pc[u] \in Past /\ pc[u] \in HasBody /\ pc[u] \in HasLock /\ pc'[u] \notin Past
  BY <1>2, <1>5 DEF HasLock, Past, HasBody, Writing
<1>7. locked[u] /\ body[u] \in {Good, Other} /\ (~other => body[u] = Good)
  BY <1>1, <1>6 DEF UserInv
<1>8. \A v \in Users : UserInv(v)'
  <2>1. UserInv(u)'
    BY <1>5, <1>7 DEF UserInv, HasLock, Past, HasBody, Writing
  <2> QED
    BY <1>1, <1>2, <1>5, <2>1, OtherUsers
<1>9. Apart /\ tmp # NoFile => contents[tmp] = Whole(body[u])
  BY <1>1, <1>2 DEF TmpInv, Progress, Writing
<1>10. ASSUME ~shared
       PROVE  OneLocked' /\ NonePast' /\ FileIsWhole'
  <2>1. OneLocked /\ ~Exists
    BY <1>1, <1>6, <1>10 DEF LockInv, NonePast
  <2>2. OneLocked'
    BY <1>2, <2>1 DEF OneLocked
  <2>3. NonePast'
    <3>1. \A v \in Users : v # u => pc'[v] \notin Past
      BY <1>1, <1>5, <1>7, <2>1 DEF OneLocked, UserInv, HasLock, OthersKept
    <3> QED
      BY <1>6, <3>1 DEF NonePast
  <2>4. FileIsWhole'
    BY <1>2, <1>7, <1>9, <1>10, <2>1 DEF FileIsWhole, Exists, Apart
  <2> QED
    BY <2>2, <2>3, <2>4
<1>11. LockInv'
  BY <1>2, <1>10 DEF LockInv
<1>12. TmpInv'
  <2>1. ~ThreeUsers => OnePast'
    BY <1>6 DEF ThreeUsers, OnePast
  <2>2. Apart' => ~shared \/ ~ThreeUsers
    BY <1>2 DEF Apart, ThreeUsers
  <2>3. Apart' => OnePast'
    BY <1>10, <2>1, <2>2 DEF NonePast, OnePast
  <2> QED
    BY <1>2, <2>3 DEF TmpInv
<1>13. HashInv'
  <2>1. ASSUME Reliable, HasHash
        PROVE  HasHash'
    <3>1. shared /\ ~other /\ ~ThreeUsers
      BY <1>1, <1>6, <2>1 DEF LockInv, NonePast, HasHash, Reliable
    <3>2. Apart
      BY <2>1, <3>1 DEF Apart, HasHash
    <3>3. tmp # NoFile => contents[tmp] = Whole(Good)
      BY <1>7, <1>9, <3>1, <3>2
    <3> QED
      BY <1>2, <2>1, <3>3 DEF HasHash, Exists
  <2>2. Reliable' = Reliable
    BY <1>2 DEF Reliable, ThreeUsers
  <2> QED
    BY <1>1, <1>2, <2>1, <2>2 DEF HashInv
<1> QED
  BY <1>4, <1>8, <1>11, <1>12, <1>13 DEF Inv

-----------------------------------------------------------------------------
LEMMA NextInv == Inv /\ [Next]_vars => Inv'
<1> SUFFICES ASSUME Inv, [Next]_vars
             PROVE  Inv'
  OBVIOUS
<1>1. ASSUME NEW u \in Users, Unlock(u)
      PROVE  Inv'
  BY <1>1, UnlockedInv DEF Unlock, Step, Goto, fileVars, objVars
<1>2. ASSUME NEW u \in Users, Crash(u)
      PROVE  Inv'
  BY <1>2, UnlockedInv DEF Crash, Goto, fileVars
<1>3. ASSUME NEW u \in Users, InCall(u)
      PROVE  Inv'
  BY <1>1, <1>3, OpenLockFileInv, FlockInv, StatAgainInv, GetInv, CreateInv, CopyInv, RenameInv,
     RemoveLockFileInv, CheckInv, ParseInv DEF InCall
<1>4. ASSUME NEW u \in Users, Ask(u) \/ \E m \in {"insecure", "download"} : Download(u, m)
      PROVE  Inv'
  BY <1>4, AskInv DEF Ask
<1>5. CASE UNCHANGED vars
  BY <1>5 DEF vars, lockVars, fileVars, objVars, Inv, TypeOK, UserInv, LockInv, TmpInv, HashInv,
     OneLocked, NonePast, OnePast, FileIsWhole, Exists, HasHash, Apart, Reliable, Progress
<1> QED
  BY <1>2, <1>3, <1>4, <1>5 DEF Next

(* The lock, the temporary file and the checked file relate as Inv says.   *)
THEOREM Invariance == Spec => []Inv
<1> QED
  BY InitInv, NextInv, PTL DEF Spec

(* What is given out has the hash, for any number of users while the lock  *)
(* excludes, and for two of them also when it does not.                    *)
THEOREM HashIsGiven == Spec => []GivenHasHash
<1>1. Inv => GivenHasHash
  BY DEF Inv, HashInv, Reliable, GivenHasHash
<1> QED
  BY Invariance, <1>1, PTL

(* What gets the name is a whole body.                                     *)
THEOREM WholeFiles == Spec => []FileIsWhole
<1>1. Inv => FileIsWhole
  BY DEF Inv, LockInv, FileIsWhole
<1> QED
  BY Invariance, <1>1, PTL

(* Once there, the file is neither replaced nor written to.                *)
THEOREM FilesStay == Spec => FileStays
<1>1. Inv /\ [Next]_vars => [~shared' /\ Exists => file' = file /\ contents'[file] = contents[file]]_vars
  <2> SUFFICES ASSUME Inv, Next, ~shared', Exists
               PROVE  UNCHANGED <<file, contents>>
    OBVIOUS
  <2>1. PICK u \in Users :
           \/ Ask(u)
           \/ \E m \in {"insecure", "download"} : Download(u, m)
           \/ InCall(u)
           \/ Crash(u)
    BY DEF Next
  <2>2. pc[u] \in Past \/ UNCHANGED <<file, contents>>
    BY <2>1 DEF Ask, LoadFromPath, Download, InCall, OpenLockFile, Flock, StatAgain, Get, Create,
       Copy, Rename, Unlock, RemoveLockFile, Check, Parse, Crash, Step, fileVars, Past, HasBody,
       Writing
  <2>3. ~shared
    BY <2>1 DEF Ask, LoadFromPath, Download, InCall, OpenLockFile, Flock, StatAgain, Get, Create,
       Copy, Rename, Unlock, RemoveLockFile, Check, Parse, Crash
  <2> QED
    BY <2>2, <2>3 DEF Inv, LockInv, NonePast
<1> QED
  BY Invariance, <1>1, PTL DEF Spec, FileStays

=============================================================================
