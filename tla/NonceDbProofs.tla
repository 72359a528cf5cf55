--------------------------- MODULE NonceDbProofs ---------------------------
(***************************************************************************)
(* What the nonce database promises for every number of goroutines, nonces *)
(* and objects, every lifetime and every interval between deletions.       *)
(***************************************************************************)
EXTENDS NonceDb, TLAPS

NonceObj == [Nonce : Nonces, Expiration : Int, Aux : Auxs \cup {NoAux}]

Calls == [pc : {"idle", "clock", "delete", "find", "check"},
          op : {"none", "Search", "SearchAndDelete", "DeleteOld"},
          nonce : Nonces \cup {Nil}, time : Nat, obj : Nat \cup {Nil}]

Types ==
    /\ now \in Nat
    /\ objs \in Seq(NonceObj)
    /\ nonceObjsByNonce \in [Nonces -> 1 .. Len(objs) \cup {Nil}]
    /\ noncesHeap \subseteq 1 .. Len(objs)
    /\ deleteCounter \in Nat
    /\ call \in [Procs -> Calls]
    /\ taken \in [1 .. Len(objs) -> Nat]

(* A call that looks a nonce up has one.                                   *)
CallInv == \A p \in Procs : /\ call[p].pc = "find" => call[p].nonce \in Nonces
                            /\ call[p].pc \in {"clock", "delete"} /\ call[p].op # "DeleteOld"
                                  => call[p].nonce \in Nonces

(* What the map has under a nonce is an object of that nonce that is in    *)
(* the heap and that SearchAndDelete has not found.                        *)
MapInv ==
    \A n \in Nonces : nonceObjsByNonce[n] # Nil =>
        /\ nonceObjsByNonce[n] \in noncesHeap
        /\ objs[nonceObjsByNonce[n]].Nonce = n
        /\ taken[nonceObjsByNonce[n]] = 0

TakenInv == \A o \in 1 .. Len(objs) : taken[o] <= 1

DbInv == Types /\ CallInv /\ MapInv /\ TakenInv

-----------------------------------------------------------------------------
LEMMA InitInv == Init => DbInv
BY NonceDbAssumption DEF NonceDbAssumption, Init, Idle, DbInv, Types, Calls, CallInv, MapInv, TakenInv

(* A new object has a number of its own.                                   *)
LEMMA AddInv ==
    ASSUME DbInv, NEW n \in Nonces, NEW delta \in Deltas, NEW aux \in Auxs \cup {NoAux},
           Add(n, delta, aux)
    PROVE  DbInv'
<1> DEFINE o == Len(objs) + 1
           obj == [Nonce |-> n, Expiration |-> now + delta, Aux |-> aux]
<1>1. now + delta \in Int
  BY NonceDbAssumption DEF NonceDbAssumption, DbInv, Types
<1>2. obj \in NonceObj
  BY <1>1 DEF NonceObj
<1> HIDE DEF obj
<1>3. objs \in Seq(NonceObj) /\ objs' = Append(objs, obj)
  BY DEF Add, DbInv, Types, obj
<1>4. /\ objs' \in Seq(NonceObj)
      /\ Len(objs') = o /\ o \in Nat
      /\ \A i \in 1 .. Len(objs) : objs'[i] = objs[i]
      /\ objs'[o] = obj
  BY <1>2, <1>3
<1>5. obj.Nonce = n
  BY DEF obj
<1>6. /\ nonceObjsByNonce' = [nonceObjsByNonce EXCEPT ![n] = o]
      /\ noncesHeap' = noncesHeap \cup {o}
      /\ UNCHANGED <<now, deleteCounter, call>>
  BY <1>4 DEF Add, Pushed
<1>7. /\ taken' \in [1 .. o -> Nat]
      /\ \A i \in 1 .. Len(objs) : taken'[i] = taken[i]
      /\ taken'[o] = 0
  <2>1. taken \in Seq(Nat) /\ Len(taken) = Len(objs)
    BY <1>3 DEF DbInv, Types
  <2>2. taken' = Append(taken, 0)
    BY DEF Add
  <2>3. taken' \in Seq(Nat) /\ Len(taken') = o
    BY <2>1, <2>2
  <2>4. \A i \in 1 .. Len(objs) : taken'[i] = taken[i]
    BY <2>1, <2>2
  <2>5. taken'[o] = 0
    BY <2>1, <2>2
  <2>6. taken' \in [1 .. o -> Nat]
    BY <2>3
  <2> QED
    BY <2>4, <2>5, <2>6
<1>8. Len(objs) \in Nat /\ 1 .. Len(objs) \subseteq 1 .. o /\ o \in 1 .. o
      /\ \A i \in 1 .. o : i # o => i \in 1 .. Len(objs)
  BY <1>3
<1> HIDE DEF o
<1>9. Types'
  BY <1>4, <1>6, <1>7, <1>8 DEF DbInv, Types
<1>10. MapInv'
  <2> SUFFICES ASSUME NEW m \in Nonces, nonceObjsByNonce'[m] # Nil
               PROVE  /\ nonceObjsByNonce'[m] \in noncesHeap'
                      /\ objs'[nonceObjsByNonce'[m]].Nonce = m
                      /\ taken'[nonceObjsByNonce'[m]] = 0
    BY DEF MapInv
  <2>1. CASE m = n
    BY <1>4, <1>5, <1>6, <1>7, <2>1 DEF DbInv, Types
  <2>2. CASE m # n
    <3>1. nonceObjsByNonce'[m] = nonceObjsByNonce[m] /\ nonceObjsByNonce[m] \in 1 .. Len(objs)
      BY <1>6, <2>2 DEF DbInv, Types
    <3> QED
      BY <1>4, <1>6, <1>7, <3>1 DEF DbInv, MapInv
  <2> QED
    BY <2>1, <2>2
<1>11. TakenInv'
  BY <1>4, <1>7, <1>8 DEF DbInv, TakenInv
<1> QED
  BY <1>6, <1>9, <1>10, <1>11 DEF DbInv, CallInv

LEMMA AddAuxInv ==
    ASSUME DbInv, NEW n \in Nonces, NEW aux \in Auxs, AddAux(n, aux)
    PROVE  DbInv'
<1> DEFINE o == nonceObjsByNonce[n]
<1>1. objs \in Seq(NonceObj) /\ o \in 1 .. Len(objs)
  BY DEF AddAux, DbInv, Types
<1>2. objs' = [objs EXCEPT ![o] = [objs[o] EXCEPT !.Aux = aux]]
  BY DEF AddAux
<1> HIDE DEF o
<1>3. objs[o] \in NonceObj
  BY <1>1
<1>5. [objs[o] EXCEPT !.Aux = aux] \in NonceObj /\ [objs[o] EXCEPT !.Aux = aux].Nonce = objs[o].Nonce
  BY <1>3 DEF NonceObj
<1>4. /\ objs' \in Seq(NonceObj)
      /\ Len(objs') = Len(objs)
      /\ \A i \in 1 .. Len(objs) : objs'[i].Nonce = objs[i].Nonce
  BY <1>1, <1>2, <1>5
<1> QED
  BY <1>4 DEF AddAux, DbInv, Types, CallInv, MapInv, TakenInv

(* Only a call changes.                                                    *)
LEMMA CallsInv ==
    ASSUME DbInv, NEW p \in Procs, NEW c \in Calls,
           call' = [call EXCEPT ![p] = c], UNCHANGED <<now, db>>, deleteCounter' \in Nat,
           c.pc = "find" => c.nonce \in Nonces,
           c.pc \in {"clock", "delete"} /\ c.op # "DeleteOld" => c.nonce \in Nonces
    PROVE  DbInv'
<1>1. Types' /\ MapInv' /\ TakenInv'
  BY DEF DbInv, Types, MapInv, TakenInv, db
<1>2. CallInv'
  BY DEF DbInv, Types, CallInv
<1> QED
  BY <1>1, <1>2 DEF DbInv

LEMMA IdleCall == Idle \in Calls
BY DEF Idle, Calls

LEMMA BeginInv ==
    ASSUME DbInv, NEW p \in Procs, NEW n \in Nonces, NEW op \in {"Search", "SearchAndDelete"},
           Begin(p, op, n)
    PROVE  DbInv'
<1> DEFINE c == [Idle EXCEPT !.pc = IF MustDelete(deleteCounter) THEN "clock" ELSE "find",
                             !.op = op, !.nonce = n]
<1>1. c \in Calls /\ c.nonce \in Nonces
  BY DEF Idle, Calls
<1>2. deleteCounter' \in Nat
  BY DEF Begin, Count, DbInv, Types
<1>3. call' = [call EXCEPT ![p] = c] /\ UNCHANGED <<now, db>>
  BY DEF Begin
<1> HIDE DEF c
<1> QED
  BY <1>1, <1>2, <1>3, CallsInv

LEMMA BeginDeleteOldInv ==
    ASSUME DbInv, NEW p \in Procs, BeginDeleteOld(p)
    PROVE  DbInv'
<1> DEFINE c == [call[p] EXCEPT !.pc = "clock", !.op = "DeleteOld"]
<1>1. c \in Calls /\ c.pc = "clock" /\ c.op = "DeleteOld"
  BY DEF DbInv, Types, Calls
<1>2. call' = [call EXCEPT ![p] = c] /\ UNCHANGED <<now, db>> /\ deleteCounter' \in Nat
  BY DEF BeginDeleteOld, DbInv, Types
<1> HIDE DEF c
<1> QED
  BY <1>1, <1>2, CallsInv

LEMMA DeleteOldClockInv ==
    ASSUME DbInv, NEW p \in Procs, DeleteOldClock(p)
    PROVE  DbInv'
<1> DEFINE c == [call[p] EXCEPT !.pc = "delete", !.time = now]
<1>1. c \in Calls /\ c.pc = "delete" /\ c.op = call[p].op /\ c.nonce = call[p].nonce
  BY DEF DbInv, Types, Calls
<1>2. call' = [call EXCEPT ![p] = c] /\ UNCHANGED <<now, db>> /\ deleteCounter' \in Nat
  BY DEF DeleteOldClock, DbInv, Types
<1>3. c.op # "DeleteOld" => c.nonce \in Nonces
  BY <1>1 DEF DeleteOldClock, DbInv, CallInv
<1> HIDE DEF c
<1> QED
  BY <1>1, <1>2, <1>3, CallsInv

(* What is popped leaves the map with every object of its nonce, so that   *)
(* what stays in the map stays in the heap.                                *)
LEMMA DeleteOldInv ==
    ASSUME DbInv, NEW p \in Procs, DeleteOld(p)
    PROVE  DbInv'
<1> DEFINE old == Popped(call[p].time)
           c == IF call[p].op = "DeleteOld" THEN Idle ELSE [call[p] EXCEPT !.pc = "find", !.time = 0]
<1>1. /\ noncesHeap' = noncesHeap \ old
      /\ nonceObjsByNonce' = [n \in Nonces |->
             IF \E o \in old : objs[o].Nonce = n THEN Nil ELSE nonceObjsByNonce[n]]
      /\ call' = [call EXCEPT ![p] = c]
      /\ UNCHANGED <<now, objs, deleteCounter, taken>>
      /\ call[p].pc = "delete"
  BY DEF DeleteOld
<1>2. c \in Calls /\ (c.pc = "find" => c.nonce \in Nonces) /\ c.pc \in {"idle", "find"}
  BY <1>1 DEF Idle, Calls, DbInv, Types, CallInv
<1> HIDE DEF old, c
<1>3. Types'
  BY <1>1, <1>2 DEF DbInv, Types
<1>4. CallInv'
  BY <1>1, <1>2 DEF DbInv, Types, CallInv
<1>5. MapInv'
  BY <1>1 DEF DbInv, Types, MapInv
<1> QED
  BY <1>1, <1>3, <1>4, <1>5 DEF DbInv, TakenInv

(* SearchAndDelete takes the object from the map, and no other nonce has   *)
(* the same object.                                                        *)
LEMMA FindInv ==
    ASSUME DbInv, NEW p \in Procs, Find(p)
    PROVE  DbInv'
<1> DEFINE n == call[p].nonce
           o == nonceObjsByNonce[n]
<1>1. n \in Nonces /\ UNCHANGED <<now, objs, noncesHeap, deleteCounter>>
  BY DEF Find, DbInv, CallInv
<1>2. CASE o = Nil
  <2>1. call' = [call EXCEPT ![p] = Idle] /\ UNCHANGED <<now, db>> /\ deleteCounter' \in Nat
    BY <1>1, <1>2 DEF Find, db, DbInv, Types
  <2>2. Idle.pc = "idle"
    BY DEF Idle
  <2> QED
    BY <2>1, <2>2, IdleCall, CallsInv
<1>3. CASE o # Nil
  <2> DEFINE c == [call[p] EXCEPT !.pc = "check", !.obj = o]
  <2>1. /\ nonceObjsByNonce' = Left(call[p].op, n)
        /\ taken' = IF call[p].op = "SearchAndDelete" THEN [taken EXCEPT ![o] = taken[o] + 1] ELSE taken
        /\ call' = [call EXCEPT ![p] = c]
    BY <1>3 DEF Find
  <2>2. o \in 1 .. Len(objs) /\ taken[o] = 0 /\ Len(objs) \in Nat
    BY <1>1, <1>3 DEF DbInv, Types, MapInv
  <2>3. c \in Calls /\ c.pc = "check"
    <3>1. call[p] \in Calls /\ o \in Nat
      BY <2>2 DEF DbInv, Types
    <3> HIDE DEF o
    <3> QED
      BY <3>1 DEF Calls
  <2>4. \A m \in Nonces : m # n /\ nonceObjsByNonce[m] # Nil => nonceObjsByNonce[m] # o
    BY <1>1, <1>3 DEF DbInv, MapInv
  <2> HIDE DEF c, o, n
  <2>5. call' \in [Procs -> Calls] /\ CallInv'
    BY <2>1, <2>3 DEF DbInv, Types, CallInv
  <2>6. CASE call[p].op = "SearchAndDelete"
    <3>1. /\ nonceObjsByNonce' = [nonceObjsByNonce EXCEPT ![n] = Nil]
          /\ taken' = [taken EXCEPT ![o] = 1]
      BY <2>1, <2>2, <2>6 DEF Left
    <3> QED
      BY <1>1, <2>2, <2>4, <2>5, <3>1 DEF DbInv, Types, MapInv, TakenInv
  <2>7. CASE call[p].op # "SearchAndDelete"
    <3>1. UNCHANGED <<nonceObjsByNonce, taken>>
      BY <2>1, <2>7 DEF Left
    <3> QED
      BY <1>1, <2>5, <3>1 DEF DbInv, Types, MapInv, TakenInv
  <2> QED
    BY <2>6, <2>7
<1> QED
  BY <1>2, <1>3

LEMMA CheckInv ==
    ASSUME DbInv, NEW p \in Procs, Check(p)
    PROVE  DbInv'
<1>1. call' = [call EXCEPT ![p] = Idle] /\ UNCHANGED <<now, db>> /\ deleteCounter' \in Nat
  BY DEF Check, DbInv, Types
<1>2. Idle.pc = "idle"
  BY DEF Idle
<1> QED
  BY <1>1, <1>2, IdleCall, CallsInv

(* Map, heap and the count of uses agree in every behaviour.               *)
THEOREM DbInvariance == Spec => []DbInv
<1>1. DbInv /\ [Next]_vars => DbInv'
  <2> SUFFICES ASSUME DbInv, [Next]_vars PROVE DbInv'
    OBVIOUS
  <2>1. CASE Tick
    BY <2>1 DEF Tick, DbInv, Types, CallInv, MapInv, TakenInv
  <2>2. CASE UNCHANGED vars
    BY <2>2 DEF vars, DbInv, Types, CallInv, MapInv, TakenInv
  <2>3. ASSUME NEW p \in Procs, ProcStep(p) PROVE DbInv'
    BY <2>3, DeleteOldClockInv, DeleteOldInv, FindInv, CheckInv DEF ProcStep
  <2> QED
    BY <2>1, <2>2, <2>3, AddInv, AddAuxInv, BeginInv, BeginDeleteOldInv DEF Next
<1> QED
  BY <1>1, InitInv, PTL DEF Spec

(* No two SearchAndDelete find the same object, whatever the goroutines    *)
(* do in between: a nonce is used once for each time it was added.         *)
THEOREM NonceUsedOnce == Spec => []UsedOnce
<1>1. DbInv => UsedOnce
  BY DEF DbInv, Types, TakenInv, UsedOnce
<1> QED
  BY <1>1, DbInvariance, PTL

-----------------------------------------------------------------------------
(* The map has the newest object of a nonce, and an object that is in the  *)
(* heap and no longer in the map has been used, or one of its nonce before *)
(* it was.                                                                 *)
UsedUpTo(n, o) == \E q \in 1 .. o : objs[q].Nonce = n /\ taken[q] = 1

NewestInMap ==
    \A n \in Nonces : nonceObjsByNonce[n] # Nil =>
        \A o \in 1 .. Len(objs) : objs[o].Nonce = n => o <= nonceObjsByNonce[n]

LeftInHeap ==
    \A o \in noncesHeap, n \in Nonces :
        objs[o].Nonce = n => nonceObjsByNonce[n] = o \/ UsedUpTo(n, o)

HeapInv == NewestInMap /\ LeftInHeap

(* An object keeps its nonce and what is used stays used.                  *)
LEMMA StaysUsed ==
    ASSUME Types, NEW n, NEW o \in 1 .. Len(objs), UsedUpTo(n, o),
           \A q \in 1 .. Len(objs) : objs'[q].Nonce = objs[q].Nonce,
           \A q \in 1 .. Len(objs) : taken[q] = 1 => taken'[q] = 1
    PROVE  UsedUpTo(n, o)'
<1>1. PICK q \in 1 .. o : objs[q].Nonce = n /\ taken[q] = 1
  BY DEF UsedUpTo
<1>2. q \in 1 .. Len(objs)
  BY <1>1 DEF Types
<1>3. objs'[q].Nonce = n /\ taken'[q] = 1
  BY <1>1, <1>2
<1> QED
  BY <1>3 DEF UsedUpTo

LEMMA AddHeap ==
    ASSUME DbInv, HeapInv, NEW n \in Nonces, NEW delta \in Deltas,
           NEW aux \in Auxs \cup {NoAux}, Add(n, delta, aux)
    PROVE  HeapInv'
<1> DEFINE o == Len(objs) + 1
           obj == [Nonce |-> n, Expiration |-> now + delta, Aux |-> aux]
<1>1. /\ Types /\ objs \in Seq(NonceObj) /\ noncesHeap \subseteq 1 .. Len(objs)
      /\ nonceObjsByNonce \in [Nonces -> 1 .. Len(objs) \cup {Nil}]
      /\ taken \in [1 .. Len(objs) -> Nat]
  BY DEF DbInv, Types
<1>2. /\ objs' = Append(objs, obj) /\ taken' = Append(taken, 0) /\ obj.Nonce = n
      /\ nonceObjsByNonce[n] = Nil
      /\ nonceObjsByNonce' = [nonceObjsByNonce EXCEPT ![n] = Len(objs')]
      /\ noncesHeap' = noncesHeap \cup {Len(objs')}
  BY DEF Add, Pushed
<1> HIDE DEF obj
<1>3. /\ Len(objs) \in Nat /\ Len(objs') = o
      /\ \A q \in 1 .. Len(objs) : objs'[q] = objs[q]
      /\ objs'[o].Nonce = n
  BY <1>1, <1>2
<1>4. \A q \in 1 .. Len(objs) : taken'[q] = taken[q]
  <2>1. taken \in Seq(Nat) /\ Len(taken) = Len(objs)
    BY <1>1
  <2> QED
    BY <1>2, <2>1
<1>5. \A q \in 1 .. o : q = o \/ q \in 1 .. Len(objs)
  BY <1>3
<1>6. nonceObjsByNonce'[n] = o /\ \A m \in Nonces : m # n => nonceObjsByNonce'[m] = nonceObjsByNonce[m]
  BY <1>1, <1>2, <1>3
<1>7. o \in Nat /\ \A q \in 1 .. o : q <= o
  BY <1>3
<1> HIDE DEF o
<1>8. NewestInMap'
  <2> SUFFICES ASSUME NEW m \in Nonces, nonceObjsByNonce'[m] # Nil,
                      NEW q \in 1 .. o, objs'[q].Nonce = m
               PROVE  q <= nonceObjsByNonce'[m]
    BY <1>3 DEF NewestInMap
  <2>1. CASE m = n
    BY <1>6, <1>7, <2>1
  <2>2. CASE m # n
    BY <1>3, <1>5, <1>6, <2>2 DEF HeapInv, NewestInMap
  <2> QED
    BY <2>1, <2>2
<1>9. LeftInHeap'
  <2> SUFFICES ASSUME NEW q \in noncesHeap', NEW m \in Nonces, objs'[q].Nonce = m,
                      nonceObjsByNonce'[m] # q
               PROVE  UsedUpTo(m, q)'
    BY DEF LeftInHeap
  <2>1. q \in noncesHeap /\ q \in 1 .. Len(objs)
    BY <1>1, <1>2, <1>3, <1>6
  <2>2. objs[q].Nonce = m /\ nonceObjsByNonce[m] # q
    <3>1. objs[q].Nonce = m
      BY <1>3, <2>1
    <3>2. Nil # q
      BY <2>1, NonceDbAssumption DEF NonceDbAssumption
    <3> QED
      BY <1>2, <1>6, <3>1, <3>2
  <2>3. UsedUpTo(m, q)
    BY <2>1, <2>2 DEF HeapInv, LeftInHeap
  <2> QED
    BY <1>1, <1>3, <1>4, <2>1, <2>3, StaysUsed
<1> QED
  BY <1>8, <1>9 DEF HeapInv

(* What an expired object takes along from the map is newer than it.       *)
LEMMA DeleteOldHeap ==
    ASSUME DbInv, HeapInv, NEW p \in Procs, DeleteOld(p)
    PROVE  /\ HeapInv'
           /\ \A n \in Nonces : nonceObjsByNonce[n] # Nil =>
                 IF Expired(nonceObjsByNonce[n], call[p].time) THEN nonceObjsByNonce'[n] = Nil
                 ELSE \/ nonceObjsByNonce'[n] = nonceObjsByNonce[n]
                      \/ UsedBefore(nonceObjsByNonce[n])
<1> DEFINE old == Popped(call[p].time)
<1>1. /\ noncesHeap' = noncesHeap \ old
      /\ \A n \in Nonces : nonceObjsByNonce'[n] =
             IF \E o \in old : objs[o].Nonce = n THEN Nil ELSE nonceObjsByNonce[n]
      /\ UNCHANGED <<objs, taken>>
      /\ Types /\ noncesHeap \subseteq 1 .. Len(objs) /\ Len(objs) \in Nat
      /\ nonceObjsByNonce \in [Nonces -> 1 .. Len(objs) \cup {Nil}]
  BY DEF DeleteOld, DbInv, Types
<1>2. old = {o \in noncesHeap : Expired(o, call[p].time)}
  BY DEF Popped
<1> HIDE DEF old
<1>3. NewestInMap'
  BY <1>1 DEF HeapInv, NewestInMap
<1>4. ASSUME NEW n \in Nonces, NEW o, o = nonceObjsByNonce[n], o # Nil,
             NEW q \in old, objs[q].Nonce = n, q # o
      PROVE  q \in 1 .. o - 1 /\ UsedUpTo(n, q)
  <2>1. q \in noncesHeap /\ q \in 1 .. Len(objs) /\ o \in 1 .. Len(objs)
    BY <1>1, <1>2, <1>4
  <2>2. q <= o
    BY <1>4, <2>1 DEF HeapInv, NewestInMap
  <2>3. UsedUpTo(n, q)
    BY <1>4, <2>1 DEF HeapInv, LeftInHeap
  <2> QED
    BY <1>1, <1>4, <2>1, <2>2, <2>3
<1>5. LeftInHeap'
  <2> SUFFICES ASSUME NEW o \in noncesHeap', NEW n \in Nonces, objs'[o].Nonce = n,
                      nonceObjsByNonce'[n] # o
               PROVE  UsedUpTo(n, o)'
    BY DEF LeftInHeap
  <2>1. o \in noncesHeap /\ o \notin old /\ o \in 1 .. Len(objs) /\ objs[o].Nonce = n
    BY <1>1
  <2>2. CASE nonceObjsByNonce[n] # o
    <3>1. UsedUpTo(n, o)
      BY <2>1, <2>2 DEF HeapInv, LeftInHeap
    <3> QED
      BY <1>1, <2>1, <3>1, StaysUsed
  <2>3. CASE nonceObjsByNonce[n] = o
    <3>1. o # Nil
      BY <2>1, NonceDbAssumption DEF NonceDbAssumption
    <3>2. PICK q \in old : objs[q].Nonce = n
      BY <1>1, <2>3
    <3>3. q \in 1 .. o - 1 /\ UsedUpTo(n, q)
      BY <1>4, <2>1, <2>3, <3>1, <3>2
    <3>4. UsedUpTo(n, o)
      BY <1>1, <2>1, <3>3 DEF UsedUpTo
    <3> QED
      BY <1>1, <2>1, <3>4, StaysUsed
  <2> QED
    BY <2>2, <2>3
<1>6. ASSUME NEW n \in Nonces, nonceObjsByNonce[n] # Nil
      PROVE  IF Expired(nonceObjsByNonce[n], call[p].time) THEN nonceObjsByNonce'[n] = Nil
             ELSE \/ nonceObjsByNonce'[n] = nonceObjsByNonce[n]
                  \/ UsedBefore(nonceObjsByNonce[n])
  <2> DEFINE o == nonceObjsByNonce[n]
  <2>1. o \in noncesHeap /\ objs[o].Nonce = n /\ o \in 1 .. Len(objs)
    BY <1>1, <1>6 DEF DbInv, MapInv
  <2>2. CASE Expired(o, call[p].time)
    <3>1. o \in old
      BY <1>2, <2>1, <2>2
    <3> QED
      BY <1>1, <2>1, <2>2, <3>1
  <2>3. CASE ~Expired(o, call[p].time) /\ \E q \in old : objs[q].Nonce = n
    <3>1. PICK q \in old : objs[q].Nonce = n
      BY <2>3
    <3>2. q # o
      BY <1>2, <2>3, <3>1
    <3>3. q \in 1 .. o - 1 /\ UsedUpTo(n, q)
      BY <1>4, <1>6, <3>1, <3>2
    <3> HIDE DEF o
    <3>4. UsedBefore(o)
      BY <1>1, <2>1, <3>3 DEF UsedUpTo, UsedBefore
    <3> QED
      BY <2>3, <3>4 DEF o
  <2>4. CASE ~Expired(o, call[p].time) /\ ~\E q \in old : objs[q].Nonce = n
    BY <1>1, <2>4
  <2> QED
    BY <2>2, <2>3, <2>4
<1> QED
  BY <1>3, <1>5, <1>6 DEF HeapInv

LEMMA FindHeap ==
    ASSUME DbInv, HeapInv, NEW p \in Procs, Find(p)
    PROVE  HeapInv'
<1> DEFINE n == call[p].nonce
           o == nonceObjsByNonce[n]
<1>1. n \in Nonces /\ UNCHANGED <<objs, noncesHeap>> /\ Types
      /\ noncesHeap \subseteq 1 .. Len(objs)
  BY DEF Find, DbInv, CallInv, Types
<1>2. CASE UNCHANGED <<nonceObjsByNonce, taken>>
  BY <1>1, <1>2 DEF HeapInv, NewestInMap, LeftInHeap, UsedUpTo
<1>3. CASE /\ o # Nil
           /\ nonceObjsByNonce' = [nonceObjsByNonce EXCEPT ![n] = Nil]
           /\ taken' = [taken EXCEPT ![o] = taken[o] + 1]
  <2>1. o \in 1 .. Len(objs) /\ taken[o] = 0 /\ objs[o].Nonce = n /\ Len(objs) \in Nat
    BY <1>1, <1>3 DEF DbInv, Types, MapInv
  <2> HIDE DEF o, n
  <2>2. taken'[o] = 1 /\ \A q \in 1 .. Len(objs) : q # o => taken'[q] = taken[q]
    BY <1>3, <2>1 DEF DbInv, Types
  <2>3. nonceObjsByNonce'[n] = Nil /\ \A m \in Nonces : m # n => nonceObjsByNonce'[m] = nonceObjsByNonce[m]
    BY <1>1, <1>3 DEF DbInv, Types
  <2>4. NewestInMap'
    BY <1>1, <2>3 DEF HeapInv, NewestInMap
  <2>5. \A q \in 1 .. Len(objs) : taken[q] = 1 => taken'[q] = 1
    BY <2>1, <2>2
  <2>6. LeftInHeap'
    <3> SUFFICES ASSUME NEW q \in noncesHeap, NEW m \in Nonces, objs[q].Nonce = m,
                        nonceObjsByNonce'[m] # q
                 PROVE  UsedUpTo(m, q)'
      BY <1>1 DEF LeftInHeap
    <3>1. q \in 1 .. Len(objs)
      BY <1>1
    <3>2. CASE q = o
      <4>1. o \in 1 .. o /\ m = n
        BY <2>1, <3>2
      <4> QED
        BY <1>1, <2>1, <2>2, <3>2, <4>1 DEF UsedUpTo
    <3>3. CASE q # o
      <4>1. nonceObjsByNonce[m] # q
        BY <2>3, <3>3 DEF o, n
      <4>2. UsedUpTo(m, q)
        BY <4>1 DEF HeapInv, LeftInHeap
      <4> QED
        BY <1>1, <2>5, <3>1, <4>2, StaysUsed
    <3> QED
      BY <3>2, <3>3
  <2> QED
    BY <2>4, <2>6 DEF HeapInv
<1> QED
  BY <1>2, <1>3 DEF Find, Left

LEMMA HeapStep == DbInv /\ HeapInv /\ [Next]_vars => HeapInv'
<1> SUFFICES ASSUME DbInv, HeapInv, [Next]_vars
             PROVE  HeapInv'
  OBVIOUS
<1>1. ASSUME UNCHANGED <<objs, nonceObjsByNonce, noncesHeap, taken>>
      PROVE  HeapInv'
  BY <1>1 DEF HeapInv, NewestInMap, LeftInHeap, UsedUpTo
<1>2. ASSUME NEW n \in Nonces, NEW aux \in Auxs, AddAux(n, aux)
      PROVE  HeapInv'
  <2> DEFINE o == nonceObjsByNonce[n]
  <2>1. objs \in Seq(NonceObj) /\ o \in 1 .. Len(objs) /\ Types
        /\ noncesHeap \subseteq 1 .. Len(objs) /\ Len(objs) \in Nat
    BY <1>2 DEF AddAux, DbInv, Types
  <2>2. /\ objs' = [objs EXCEPT ![o] = [objs[o] EXCEPT !.Aux = aux]]
        /\ UNCHANGED <<nonceObjsByNonce, noncesHeap, taken>>
    BY <1>2 DEF AddAux
  <2> HIDE DEF o
  <2>3. objs[o] \in NonceObj
    BY <2>1
  <2>4. [objs[o] EXCEPT !.Aux = aux].Nonce = objs[o].Nonce
    BY <2>3 DEF NonceObj
  <2>5. Len(objs') = Len(objs) /\ \A q \in 1 .. Len(objs) : objs'[q].Nonce = objs[q].Nonce
    BY <2>1, <2>2, <2>4
  <2>6. NewestInMap'
    BY <2>2, <2>5 DEF HeapInv, NewestInMap
  <2>7. LeftInHeap'
    BY <2>1, <2>2, <2>5, StaysUsed DEF HeapInv, LeftInHeap
  <2> QED
    BY <2>6, <2>7 DEF HeapInv
<1>3. ASSUME NEW p \in Procs, ProcStep(p)
      PROVE  HeapInv'
  BY <1>1, <1>3, DeleteOldHeap, FindHeap DEF ProcStep, DeleteOldClock, Check, db
<1>4. ASSUME NEW p \in Procs, NEW n \in Nonces,
             Begin(p, "Search", n) \/ Begin(p, "SearchAndDelete", n)
      PROVE  HeapInv'
  BY <1>1, <1>4 DEF Begin, db
<1> QED
  BY <1>1, <1>2, <1>3, <1>4, AddHeap DEF Next, Tick, BeginDeleteOld, vars, db

(* DeleteOld leaves nothing in the map that was old when it read the clock,*)
(* and what it deletes before its time is a nonce that was used and added  *)
(* again.                                                                  *)
THEOREM DeleteOldExact == Spec => DeleteOldIsExact
<1> DEFINE Exact == \A p \in Procs : DeleteOld(p) =>
               \A n \in Nonces : nonceObjsByNonce[n] # Nil =>
                   IF Expired(nonceObjsByNonce[n], call[p].time) THEN nonceObjsByNonce'[n] = Nil
                   ELSE \/ nonceObjsByNonce'[n] = nonceObjsByNonce[n]
                        \/ UsedBefore(nonceObjsByNonce[n])
<1>1. Init => HeapInv
  BY DEF Init, HeapInv, NewestInMap, LeftInHeap
<1>2. DbInv /\ HeapInv => Exact
  BY DeleteOldHeap
<1> QED
  BY <1>1, <1>2, HeapStep, DbInvariance, PTL DEF Spec, DeleteOldIsExact

=============================================================================
