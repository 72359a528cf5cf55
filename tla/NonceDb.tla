------------------------------- MODULE NonceDb -------------------------------
(***************************************************************************)
(* utils/noncedb: nonces that can be used once, until they expire.         *)
(*                                                                         *)
(* Goroutines call it concurrently.  A critical section under a mutex is   *)
(* one action; the reads of the clock before and after it are others.  A   *)
(* nonce object is shared by pointer: the map and the heap hold its number *)
(* in objs, so that two objects of the same nonce are told apart.          *)
(***************************************************************************)
EXTENDS Integers, Sequences, FiniteSets

CONSTANTS
    Procs,     \* goroutines
    Nonces,    \* nonce strings
    Deltas,    \* lifetimes passed to Add
    Auxs,      \* auxiliary data
    NoAux,     \* a nil Aux
    Nil,       \* no object
    Every,     \* the 128 of DeleteOldOportunistic
    MaxObjs,   \* bound on the objects created
    MaxTime    \* bound on the clock

ASSUME NonceDbAssumption ==
    /\ Deltas \subseteq Int
    /\ NoAux \notin Auxs
    /\ Nil \notin Nat
    /\ Every \in Nat \ {0}
    /\ MaxObjs \in Nat
    /\ MaxTime \in Nat

VARIABLES
    now,
    objs,              \* the nonce objects created so far
    nonceObjsByNonce,  \* the map from nonces to (numbers of) objects
    noncesHeap,        \* the objects in the heap, least expiration first
    deleteCounter,
    call,              \* what each goroutine is doing
    taken              \* how often SearchAndDelete has found each object

vars == <<now, objs, nonceObjsByNonce, noncesHeap, deleteCounter, call, taken>>
db == <<objs, nonceObjsByNonce, noncesHeap, taken>>

Objs == 1 .. MaxObjs

Idle == [pc |-> "idle", op |-> "none", nonce |-> Nil, time |-> 0, obj |-> Nil]

(* Only objects that expire before the clock are old.                      *)
Expired(o, t) == objs[o].Expiration < t

-----------------------------------------------------------------------------
Init ==
    /\ now = 0
    /\ objs = <<>>
    /\ nonceObjsByNonce = [n \in Nonces |-> Nil]
    /\ noncesHeap = {}
    /\ deleteCounter = 0
    /\ call = [p \in Procs |-> Idle]
    /\ taken = <<>>

Tick == now < MaxTime /\ now' = now + 1
        /\ UNCHANGED <<objs, nonceObjsByNonce, noncesHeap, deleteCounter, call, taken>>

(* The heap after a Push; which object it would pop first is in Popped.    *)
Pushed(o) == noncesHeap \cup {o}

(* Add (New is Add of a nonce that no one else has); a nonce that is there *)
(* already is refused and nothing changes.  Add reads the clock before it  *)
(* takes the lock: one that waits adds a nonce that lives less than delta  *)
(* from now on, which is what a smaller delta does.                        *)
Add(n, delta, aux) ==
    /\ nonceObjsByNonce[n] = Nil
    /\ Len(objs) < MaxObjs
    /\ objs' = Append(objs, [Nonce |-> n, Expiration |-> now + delta, Aux |-> aux])
    /\ nonceObjsByNonce' = [nonceObjsByNonce EXCEPT ![n] = Len(objs')]
    /\ noncesHeap' = Pushed(Len(objs'))
    /\ taken' = Append(taken, 0)
    /\ UNCHANGED <<now, deleteCounter, call>>

(* AddAux: only if there is no Aux already.                                *)
AddAux(n, aux) ==
    /\ nonceObjsByNonce[n] # Nil
    /\ objs[nonceObjsByNonce[n]].Aux = NoAux
    /\ objs' = [objs EXCEPT ![nonceObjsByNonce[n]].Aux = aux]
    /\ UNCHANGED <<now, nonceObjsByNonce, noncesHeap, deleteCounter, call, taken>>

-----------------------------------------------------------------------------
(* DeleteOldOportunistic counts the calls of Search and SearchAndDelete,   *)
(* and every so often the call deletes first.                              *)
Count(c) == IF c + 1 >= Every THEN 0 ELSE c + 1

MustDelete_Never(c) == FALSE
MustDelete(c) == c + 1 >= Every

Begin(p, op, n) ==
    /\ call[p] = Idle
    /\ deleteCounter' = Count(deleteCounter)
    /\ call' = [call EXCEPT ![p] =
                  [Idle EXCEPT !.pc = IF MustDelete(deleteCounter) THEN "clock" ELSE "find",
                               !.op = op, !.nonce = n]]
    /\ UNCHANGED <<now, db>>

(* DeleteOld called by itself.                                             *)
BeginDeleteOld(p) ==
    /\ call[p] = Idle
    /\ call' = [call EXCEPT ![p].pc = "clock", ![p].op = "DeleteOld"]
    /\ UNCHANGED <<now, deleteCounter, db>>

(* DeleteOld reads the clock before it takes the lock,                     *)
DeleteOldClock(p) ==
    /\ call[p].pc = "clock"
    /\ call' = [call EXCEPT ![p].pc = "delete", ![p].time = now]
    /\ UNCHANGED <<now, deleteCounter, db>>

(* and pops what is older from the heap, each time deleting from the map   *)
(* what it has under the nonce of the popped object.                       *)
Popped_First(t) ==
    {o \in noncesHeap : Expired(o, t) /\ \A q \in noncesHeap : objs[o].Expiration <= objs[q].Expiration}
Popped(t) == {o \in noncesHeap : Expired(o, t)}

DeleteOld(p) ==
    LET old == Popped(call[p].time) IN
    /\ call[p].pc = "delete"
    /\ noncesHeap' = noncesHeap \ old
    /\ nonceObjsByNonce' = [n \in Nonces |->
           IF \E o \in old : objs[o].Nonce = n THEN Nil ELSE nonceObjsByNonce[n]]
    /\ call' = [call EXCEPT ![p] = IF call[p].op = "DeleteOld" THEN Idle
                                   ELSE [call[p] EXCEPT !.pc = "find", !.time = 0]]
    /\ UNCHANGED <<now, objs, deleteCounter, taken>>

(* What a lookup of n leaves in the map.                                   *)
Left_NotDeleted(op, n) == nonceObjsByNonce
Left(op, n) == IF op = "SearchAndDelete" THEN [nonceObjsByNonce EXCEPT ![n] = Nil]
                                         ELSE nonceObjsByNonce

Find(p) ==
    LET n == call[p].nonce
        o == nonceObjsByNonce[n] IN
    /\ call[p].pc = "find"
    /\ \/ /\ o = Nil
          /\ call' = [call EXCEPT ![p] = Idle]
          /\ UNCHANGED <<nonceObjsByNonce, taken>>
       \/ /\ o # Nil
          /\ nonceObjsByNonce' = Left(call[p].op, n)
          /\ taken' = IF call[p].op = "SearchAndDelete"
                      THEN [taken EXCEPT ![o] = taken[o] + 1] ELSE taken
          /\ call' = [call EXCEPT ![p].pc = "check", ![p].obj = o]
    /\ UNCHANGED <<now, objs, noncesHeap, deleteCounter>>

(* The expiration is compared with the clock after the unlock; the call    *)
(* returns the object, and whether it is still valid.                      *)
Check(p) ==
    /\ call[p].pc = "check"
    /\ call' = [call EXCEPT ![p] = Idle]
    /\ UNCHANGED <<now, deleteCounter, db>>

-----------------------------------------------------------------------------
ProcStep(p) == DeleteOldClock(p) \/ DeleteOld(p) \/ Find(p) \/ Check(p)

Next ==
    \/ Tick
    \/ \E n \in Nonces, delta \in Deltas, aux \in Auxs \cup {NoAux} : Add(n, delta, aux)
    \/ \E n \in Nonces, aux \in Auxs : AddAux(n, aux)
    \/ \E p \in Procs, n \in Nonces :
          Begin(p, "Search", n) \/ Begin(p, "SearchAndDelete", n)
    \/ \E p \in Procs : BeginDeleteOld(p)
    \/ \E p \in Procs : ProcStep(p)

Spec == Init /\ [][Next]_vars

(* A call that has begun comes to its end, and Search is called from time  *)
(* to time.                                                                *)
LiveSpec ==
    /\ Spec
    /\ \A p \in Procs : /\ WF_vars(ProcStep(p))
                        /\ \A n \in Nonces : WF_vars(Begin(p, "Search", n))

-----------------------------------------------------------------------------
(* A nonce is used once: no two SearchAndDelete find the same object.      *)
UsedOnce == \A o \in DOMAIN taken : taken[o] <= 1

(* DeleteOld leaves no nonce that was old when it read the clock, although *)
(* others add and delete between that and the lock; and what it deletes    *)
(* was old then, or was added again after it had been used: then an object *)
(* of an earlier life, that SearchAndDelete left in the heap, may take it  *)
(* along before its time, and nothing else may.                            *)
UsedBefore(o) == \E q \in 1 .. o - 1 : objs[q].Nonce = objs[o].Nonce /\ taken[q] = 1

DeleteOldIsExact ==
    [][\A p \in Procs : DeleteOld(p) =>
         \A n \in Nonces : nonceObjsByNonce[n] # Nil =>
             IF Expired(nonceObjsByNonce[n], call[p].time) THEN nonceObjsByNonce'[n] = Nil
             ELSE \/ nonceObjsByNonce'[n] = nonceObjsByNonce[n]
                  \/ UsedBefore(nonceObjsByNonce[n])]_vars

(* The map does not keep what has expired: as long as Search is called, an *)
(* expired object leaves it.                                               *)
ExpiredLeaves ==
    \A o \in Objs :
        (o \in DOMAIN objs /\ Expired(o, now)) ~> (\A n \in Nonces : nonceObjsByNonce[n] # o)

=============================================================================
