---------------------------- MODULE ShStackProofs ----------------------------
(***************************************************************************)
(* Theorems about the shared-memory stack, for any number of processes.    *)
(***************************************************************************)
EXTENDS ShStack, TLAPS, FiniteSetTheorems

(* Steps that leave the segment, the semaphores or the clients alone.        *)
LEMMA ShmSame == ShmType /\ UNCHANGED shmVars => ShmType'
BY DEF ShmType, shmVars

(* The same of the semaphores.                                                *)
LEMMA SemSame == SemType /\ UNCHANGED semVars => SemType'
BY DEF SemType, semVars

(* The results of GETVAL, and the semaphores after SETVAL and semop, have    *)
(* their types.                                                              *)
LEMMA GetvalType ==
  ASSUME SemType, NEW p \in Procs, NEW i \in SIZE..MUTEX
  PROVE  Getval(p, i) \in -1..SemMax
<1> USE ConstantsAssumption
<1>1. sem[i] \in 0..SemMax BY DEF SemType
<1> QED BY <1>1 DEF Getval

(* SETVAL keeps the types.                                                    *)
LEMMA SetvalType ==
  ASSUME SemType, NEW p \in Procs, NEW i \in SIZE..MUTEX, NEW v \in Int, Setval(p, i, v),
         UNCHANGED <<semKey, nsem>>
  PROVE  SemType'
BY DEF Setval, SemType

(* semop keeps the types.                                                     *)
LEMMA SemopType ==
  ASSUME SemType, NEW p \in Procs, NEW i \in SIZE..MUTEX, NEW d \in Int, Semop(p, i, d),
         UNCHANGED <<semKey, nsem>>
  PROVE  SemType'
BY DEF Semop, SemType

(* shmget keeps the types, and gives the handle an identifier or none.        *)
LEMMA ShmgetType ==
  ASSUME ShmType, NEW p \in Procs, ShmgetCreat(p), loc[p].size \in Sizes
  PROVE  ShmType' /\ \E id \in Ids1 : h' = [h EXCEPT ![p].shm = id]
<1> USE ConstantsAssumption
<1> DEFINE new == FirstId + nshm
           size == loc[p].size
<1>1. CASE /\ shmKey = NoId /\ nshm < MaxIds
           /\ shmKey' = new /\ nshm' = nshm + 1
           /\ segSize' = [segSize EXCEPT ![new] = size]
           /\ mem' = [mem EXCEPT ![new] = Blank(size)]
           /\ h' = [h EXCEPT ![p].shm = new]
  <2>1. new \in Ids /\ nshm' \in 0..MaxIds
    BY <1>1 DEF ShmType, Ids
  <2>2. segSize' \in [Ids -> Sizes \cup {0}]
    BY <1>1, <2>1 DEF ShmType
  <2>3. DOMAIN mem' = Ids
    BY <1>1 DEF ShmType
  <2>4. Blank(size) \in [0..(Slots(size) - 1) -> Vals \cup {NoVal}]
    BY DEF Blank
  <2>5. ASSUME NEW i \in Ids
        PROVE  mem'[i] \in [0..(Slots(segSize'[i]) - 1) -> Vals \cup {NoVal}]
    <3>1. CASE i = new
      BY <1>1, <2>1, <2>4, <3>1 DEF ShmType
    <3>2. CASE i # new
      <4>1. mem'[i] = mem[i] /\ segSize'[i] = segSize[i]
        BY <1>1, <2>1, <3>2 DEF ShmType
      <4> QED BY <4>1 DEF ShmType
    <3> QED BY <3>1, <3>2
  <2> QED BY <1>1, <2>1, <2>2, <2>3, <2>5 DEF Ids1, ShmType
<1>2. CASE /\ shmKey # NoId
           /\ h' = [h EXCEPT ![p].shm = IF Found(size) THEN shmKey ELSE NoId]
           /\ UNCHANGED shmVars
  BY <1>2, ShmSame DEF ShmType, Ids1
<1> QED BY <1>1, <1>2 DEF ShmgetCreat

(* An access outside the segment, and a write inside it.                     *)
LEMMA StrayType ==
  ASSUME ClientType, NEW p \in Procs, NEW l \in Stages \ {"get", "create"}, Stray(p, l)
  PROVE  /\ h' \in [Procs -> Handles] /\ pc' \in [Procs -> Places]
         /\ pc'[p] \notin {"get", "create"} /\ \A q \in Procs \ {p} : pc'[q] = pc[q]
<1>1. Closed \in Handles
  BY DEF Closed, Handles, Ids1
<1> QED BY <1>1 DEF Stray, ClientType, Go, Places

(* A store into the segment keeps the types.                                  *)
LEMMA WriteType ==
  ASSUME ShmType, NEW id \in Ids, NEW i \in DOMAIN mem[id], NEW v \in Vals \cup {NoVal},
         mem' = [mem EXCEPT ![id][i] = v], UNCHANGED <<shmKey, segSize, nshm>>
  PROVE  ShmType'
<1>1. ASSUME NEW k \in Ids
      PROVE  mem'[k] \in [0..(Slots(segSize'[k]) - 1) -> Vals \cup {NoVal}]
  <2>1. CASE k = id
    <3>1. mem'[id] = [mem[id] EXCEPT ![i] = v] BY DEF ShmType
    <3> QED BY <2>1, <3>1 DEF ShmType
  <2>2. CASE k # id
    <3>1. mem'[k] = mem[k] BY <2>2 DEF ShmType
    <3> QED BY <3>1 DEF ShmType
  <2> QED BY <2>1, <2>2
<1> QED BY <1>1 DEF ShmType

(* The updates of a handle that attach_stack and mark_destruct make, and the *)
(* size argument of SETVAL.                                                  *)
LEMMA HandleUpdates ==
  ASSUME NEW r \in Handles, NEW m \in Ids1, NEW o \in BOOLEAN
  PROVE  [r EXCEPT !.map = m] \in Handles /\ [r EXCEPT !.map = m, !.open = o] \in Handles
BY DEF Handles

(* A local size is a number.                                                  *)
LEMMA SizeInt ==
  ASSUME NEW r \in Locals
  PROVE  r.size \in Int
<1>1. Sizes \cup (-1..SemMax) \subseteq Int
  BY ConstantsAssumption
<1> QED BY <1>1 DEF Locals

(* The strengthening of TypeOK: where shmget may create, size is a size.     *)
CreatesWithSize == \A p \in Procs : pc[p] \in {"get", "create"} => loc[p].size \in Sizes
TypeInv == TypeOK /\ CreatesWithSize

(* Both initial predicates have the types.                                    *)
LEMMA TypeInit == Init \/ InitAttached => TypeInv
<1> USE ConstantsAssumption
<1>1. ASSUME NEW size \in Nat
      PROVE  Blank(size) \in [0..(Slots(size) - 1) -> Vals \cup {NoVal}]
  BY DEF Blank
<1>2. ASSUME Idle, h \in [Procs -> Handles]
      PROVE  ClientType /\ CreatesWithSize
  BY <1>2 DEF Idle, ClientType, CreatesWithSize, Locals, Outcomes, Places, Outcome
<1>3. ASSUME Init PROVE TypeInv
  <2>1. h \in [Procs -> Handles]
    BY <1>3 DEF Init, Closed, Handles, Ids1
  <2>2. ShmType
    BY <1>1, <1>3 DEF Init, ShmType, Ids1
  <2>3. SemType
    BY <1>3 DEF Init, SemType, Ids1, Zeros, SIZE, MUTEX
  <2> QED BY <1>2, <1>3, <2>1, <2>2, <2>3 DEF Init, TypeInv, TypeOK
<1>4. ASSUME InitAttached PROVE TypeInv
  <2>1. PICK size \in Sizes, w \in [Procs -> Waits] :
          /\ size <= SemMax /\ FirstId \in Ids
          /\ shmKey = FirstId /\ nshm = 1
          /\ segSize = [i \in Ids |-> IF i = FirstId THEN size ELSE 0]
          /\ mem = [i \in Ids |-> Blank(IF i = FirstId THEN size ELSE 0)]
          /\ semKey = FirstId /\ nsem = 1
          /\ sem = [i \in SIZE..MUTEX |-> IF i = SIZE THEN size ELSE IF i = COUNT THEN 0 ELSE 1]
          /\ h = [p \in Procs |-> [shm |-> FirstId, sem |-> FirstId, wait |-> w[p],
                                   map |-> FirstId, open |-> TRUE]]
          /\ Idle
    BY <1>4 DEF InitAttached
  <2>2. 1 \in 0..MaxIds
    BY <2>1 DEF Ids
  <2>3. ASSUME NEW i \in Ids
        PROVE  mem[i] \in [0..(Slots(segSize[i]) - 1) -> Vals \cup {NoVal}]
    BY <1>1, <2>1
  <2>4. SemType
    BY <2>1, <2>2 DEF SIZE, COUNT, MUTEX, SemType, Ids1
  <2>5. h \in [Procs -> Handles]
    BY <2>1 DEF Handles, Ids1
  <2> QED BY <1>2, <2>1, <2>2, <2>3, <2>4, <2>5 DEF TypeInv, TypeOK, ShmType, Ids1
<1> QED BY <1>3, <1>4

(* Every step keeps them.                                                     *)
LEMMA TypeStep ==
  ASSUME TypeInv, NEW p \in Procs, Step(p)
  PROVE  TypeInv'
<1> USE ConstantsAssumption, ShmSame, SemSame
    DEF TypeInv, TypeOK, ClientType, CreatesWithSize, At, Go, Places, Stages, history
<1>0. Closed \in Handles
  BY DEF Closed, Handles, Ids1
<1>1. ASSUME AttachProbe(p) PROVE TypeInv'
  BY <1>0, <1>1, SMTT(30) DEF AttachProbe, Begin, Ops, Locals
<1>2. ASSUME AttachGet(p) PROVE TypeInv'
  <2>1. PICK id \in Ids1 : h' = [h EXCEPT ![p].shm = id]
    BY <1>2, ShmgetType DEF AttachGet
  <2>2. h' \in [Procs -> Handles]
    BY <2>1, SMTT(30) DEF Handles
  <2>3. ShmType'
    BY <1>2, ShmgetType DEF AttachGet
  <2> QED BY <1>2, <2>2, <2>3 DEF AttachGet
<1>3. ASSUME AttachSemget(p) PROVE TypeInv'
  <2>1. h' = [h EXCEPT ![p].sem = semKey] /\ semKey \in Ids1
    BY <1>3 DEF AttachSemget, SemType
  <2>2. h' \in [Procs -> Handles]
    BY <2>1, SMTT(30) DEF Handles
  <2> QED BY <1>3, <2>2 DEF AttachSemget
<1>4. ASSUME AttachReset(p) PROVE TypeInv'
  <2>1. SemType'
    BY <1>4, SetvalType DEF AttachReset, SIZE, MUTEX
  <2> QED BY <1>4, <2>1 DEF AttachReset
<1>5. ASSUME AttachCreate(p) PROVE TypeInv'
  <2>1. PICK id \in Ids1 : h' = [h EXCEPT ![p].shm = id]
    BY <1>5, ShmgetType DEF AttachCreate
  <2>2. h' \in [Procs -> Handles]
    BY <2>1, SMTT(30) DEF Handles
  <2>3. ShmType'
    BY <1>5, ShmgetType DEF AttachCreate
  <2> QED BY <1>5, <2>2, <2>3 DEF AttachCreate
<1>6. ASSUME AttachSemcreate(p) PROVE TypeInv'
  <2>1. SemType'
    BY <1>6 DEF AttachSemcreate, SemType, semVars, Ids1, Ids, Zeros, SIZE, MUTEX
  <2>2. h' \in [Procs -> Handles]
    <3>1. h' = [h EXCEPT ![p].sem = semKey'] /\ semKey' \in Ids1
      BY <1>6, <2>1 DEF AttachSemcreate, SemType
    <3> QED BY <3>1, SMTT(30) DEF Handles
  <2> QED BY <1>6, <2>1, <2>2 DEF AttachSemcreate
<1>7. ASSUME AttachSet(p) PROVE TypeInv'
  <2>1. loc[p] \in Locals
    OBVIOUS
  <2>2. loc[p].size \in Int
    BY <2>1, SizeInt
  <2>3. SemType'
    BY <1>7, <2>2, SetvalType DEF AttachSet, SIZE, COUNT, MUTEX
  <2> QED BY <1>7, <2>3 DEF AttachSet
<1>8. ASSUME AttachMap(p) PROVE TypeInv'
  <2>1. PICK m \in Ids1, o \in BOOLEAN : h' = [h EXCEPT ![p].map = m, ![p].open = o]
    <3>1. h[p].shm \in Ids1 /\ NoId \in Ids1 /\ (h[p].shm > 0) \in BOOLEAN
      BY DEF Handles, Ids1
    <3> QED BY <1>8, <3>1 DEF AttachMap
  <2>2. h' \in [Procs -> Handles]
    <3>1. h' = [h EXCEPT ![p] = [@ EXCEPT !.map = m, !.open = o]]
      BY <2>1
    <3> QED BY <3>1, HandleUpdates
  <2> QED BY <1>8, <2>2, SMTT(30) DEF AttachMap
<1>9. ASSUME Detach(p) PROVE TypeInv'
  BY <1>0, <1>9 DEF Detach, Begin, Ops
<1>10. ASSUME SetWait(p) PROVE TypeInv'
  BY <1>10 DEF SetWait, Begin, Ops, Handles
<1>11. ASSUME DestructUnmap(p) PROVE TypeInv'
  <2>1. h' \in [Procs -> Handles]
    <3>1. h' = [h EXCEPT ![p] = [@ EXCEPT !.map = NoId]] /\ NoId \in Ids1
      BY <1>11 DEF DestructUnmap, Ids1
    <3> QED BY <3>1, HandleUpdates
  <2> QED BY <1>11, <2>1 DEF DestructUnmap, Begin, Ops
<1>12. ASSUME DestructShm(p) PROVE TypeInv'
  BY <1>12 DEF DestructShm, ShmType, Ids1
<1>13. ASSUME DestructSem(p) PROVE TypeInv'
  <2>1. SemType'
    BY <1>13 DEF DestructSem, SemType, Ids1, Zeros, SIZE, MUTEX
  <2> QED BY <1>0, <1>13, <2>1 DEF DestructSem
<1>14. ASSUME Enter(p) PROVE TypeInv'
  <2>1. Getval(p, SIZE) \in -1..SemMax
    BY GetvalType DEF SIZE, MUTEX
  <2>2. calls[p] + 1 \in 1..MaxCalls /\ calls' \in [Procs -> 0..MaxCalls]
    BY <1>14 DEF Enter, Begin
  <2>3. <<p, calls[p] + 1>> \in Vals
    BY <2>2 DEF Vals
  <2>4. loc' \in [Procs -> Locals]
    BY <1>14, <2>1, <2>3 DEF Enter, Locals
  <2> QED BY <1>14, <2>2, <2>4 DEF Enter, Begin, Ops
<1>15. ASSUME ReadCount(p) PROVE TypeInv'
  <2>1. Getval(p, COUNT) \in -1..SemMax
    BY GetvalType DEF SIZE, COUNT, MUTEX
  <2>2. pc' \in [Procs -> Places] /\ pc'[p] \notin {"get", "create"}
        /\ \A q \in Procs \ {p} : pc'[q] = pc[q]
    BY <1>15 DEF ReadCount
  <2>3. res' \in [Procs -> Outcomes]
    BY <1>15 DEF ReadCount, Outcome, Outcomes
  <2>4. loc' = [loc EXCEPT ![p].count = Getval(p, COUNT)]
    BY <1>15 DEF ReadCount
  <2>5. loc' \in [Procs -> Locals]
    <3>1. loc \in [Procs -> Locals]
      OBVIOUS
    <3> QED BY ONLY <2>1, <2>4, <3>1, p \in Procs DEF Locals
  <2> QED BY <1>15, <2>2, <2>3, <2>4, <2>5 DEF ReadCount
<1>16. ASSUME Lock(p) PROVE TypeInv'
  <2>1. SemType'
    BY <1>16, SemopType DEF Lock, SIZE, MUTEX
  <2> QED BY <1>16, <2>1 DEF Lock
<1>17. ASSUME PushWrite(p) PROVE TypeInv'
  <2>1. CASE Inside(p, loc[p].count)
    <3>1. h[p].map \in Ids /\ loc[p].val \in Vals \cup {NoVal}
      BY <2>1 DEF Inside, Handles, Locals, Ids1
    <3>2. ShmType'
      BY <1>17, <2>1, <3>1, WriteType DEF PushWrite, Inside
    <3> QED BY <1>17, <2>1, <3>2 DEF PushWrite
  <2>2. CASE ~Inside(p, loc[p].count)
    <3>1. Stray(p, "move") /\ UNCHANGED shmVars
      BY <1>17, <2>2 DEF PushWrite, shmVars
    <3> QED BY <1>17, <3>1, StrayType DEF PushWrite
  <2> QED BY <2>1, <2>2
<1>18. ASSUME PopRead(p) PROVE TypeInv'
  <2>1. CASE Inside(p, loc[p].count - 1)
    <3>1. h[p].map \in Ids
      BY <2>1 DEF Inside, Handles, Ids1
    <3>2. mem[h[p].map][loc[p].count - 1] \in Vals \cup {NoVal}
      BY <2>1, <3>1 DEF Inside, ShmType
    <3>3. loc' \in [Procs -> Locals]
      BY <1>18, <2>1, <3>2, SMTT(30) DEF PopRead, Locals
    <3> QED BY <1>18, <2>1, <3>3 DEF PopRead
  <2>2. CASE ~Inside(p, loc[p].count - 1)
    <3>1. Stray(p, "move") /\ UNCHANGED loc
      BY <1>18, <2>2 DEF PopRead
    <3> QED BY <1>18, <3>1, StrayType DEF PopRead
  <2> QED BY <2>1, <2>2
<1>19. ASSUME PrintRead(p) PROVE TypeInv'
  <2>1. CASE Stray(p, "unlock")
    BY <1>19, <2>1, StrayType DEF PrintRead
  <2>2. CASE Go(p, "unlock") /\ UNCHANGED h
    BY <1>19, <2>2 DEF PrintRead
  <2> QED BY <1>19, <2>1, <2>2 DEF PrintRead
<1>20. ASSUME PushInc(p) PROVE TypeInv'
  <2>1. SemType'
    BY <1>20, SemopType DEF PushInc, SIZE, COUNT, MUTEX
  <2>2. loc[p].val \in Vals \cup {NoVal}
    BY DEF Locals
  <2>3. res' \in [Procs -> Outcomes]
    BY <1>20, <2>2 DEF PushInc, Outcome, Outcomes
  <2> QED BY <1>20, <2>1, <2>3 DEF PushInc
<1>21. ASSUME PopDec(p) PROVE TypeInv'
  <2>1. SemType'
    BY <1>21, SemopType DEF PopDec, SIZE, COUNT, MUTEX
  <2>2. loc[p].val \in Vals \cup {NoVal}
    BY DEF Locals
  <2>3. res' \in [Procs -> Outcomes]
    BY <1>21, <2>2 DEF PopDec, Outcome, Outcomes
  <2> QED BY <1>21, <2>1, <2>3 DEF PopDec
<1>22. ASSUME Unlock(p) PROVE TypeInv'
  <2>1. SemType'
    BY <1>22, SemopType DEF Unlock, SIZE, MUTEX
  <2> QED BY <1>22, <2>1 DEF Unlock
<1>23. ASSUME Kill(p) PROVE TypeInv'
  BY <1>0, <1>23 DEF Kill
<1> QED
  BY <1>1, <1>2, <1>3, <1>4, <1>5, <1>6, <1>7, <1>8, <1>9, <1>10, <1>11, <1>12, <1>13, <1>14,
     <1>15, <1>16, <1>17, <1>18, <1>19, <1>20, <1>21, <1>22, <1>23 DEF Step, Continue

(* Every variable keeps its type, in any environment the kernel of the model  *)
(* offers: attach_stack, mark_destruct and the rest in any order, from a      *)
(* fresh machine or from an attached stack.                                   *)
THEOREM TypeCorrect == (Spec \/ AttachedSpec) => []TypeOK
<1>1. Init \/ InitAttached => TypeInv
  BY TypeInit
<1>2. TypeInv /\ [Next]_vars => TypeInv'
  <2> SUFFICES ASSUME TypeInv, [Next]_vars PROVE TypeInv'
    OBVIOUS
  <2>1. CASE Next
    BY <2>1, TypeStep DEF Next
  <2>2. CASE UNCHANGED vars
    BY <2>2, ShmSame, SemSame DEF TypeInv, TypeOK, ClientType, CreatesWithSize, vars, history
  <2> QED BY <2>1, <2>2
<1>3. TypeInv => TypeOK
  BY DEF TypeInv
<1> QED BY <1>1, <1>2, <1>3, PTL DEF Spec, AttachedSpec
-----------------------------------------------------------------------------
(* Processes that have attached and only use the stack: nobody attaches,      *)
(* detaches or destroys any more.                                             *)
UsersOnly == \A p \in Procs : Menu[p] \subseteq {"push", "pop", "print", "set_wait"}

UseInv ==
  /\ semKey = FirstId
  /\ \A p \in Procs :
       /\ pc[p] \in {"idle", "dead", "count", "spin", "sleep", "lock", "access", "move", "unlock"}
       /\ call[p] \in {"none", "push", "pop", "print", "set_wait"}
       /\ pc[p] # "dead" => h[p].sem = FirstId

UseStep(p) == \/ SetWait(p) \/ Enter(p) \/ ReadCount(p) \/ Lock(p) \/ PushWrite(p) \/ PopRead(p)
              \/ PrintRead(p) \/ PushInc(p) \/ PopDec(p) \/ Unlock(p) \/ Kill(p)

(* Users stay in push, pop, print and set_wait.                               *)
LEMMA OnlyUseSteps ==
  ASSUME UsersOnly, UseInv, NEW p \in Procs, Step(p)
  PROVE  UseStep(p)
<1>1. ~AttachProbe(p) /\ ~Detach(p) /\ ~DestructUnmap(p)
  BY DEF UsersOnly, AttachProbe, Detach, DestructUnmap, Begin
<1>2. ~AttachGet(p) /\ ~AttachSemget(p) /\ ~AttachReset(p) /\ ~AttachCreate(p)
  BY DEF UseInv, AttachGet, AttachSemget, AttachReset, AttachCreate, At
<1>3. ~AttachSemcreate(p) /\ ~AttachSet(p) /\ ~AttachMap(p) /\ ~DestructShm(p) /\ ~DestructSem(p)
  BY DEF UseInv, AttachSemcreate, AttachSet, AttachMap, DestructShm, DestructSem, At
<1> QED BY <1>1, <1>2, <1>3 DEF Step, Continue, UseStep

(* The semaphores a user knows are there.                                     *)
LEMMA UseLive ==
  ASSUME UseInv, NEW p \in Procs, pc[p] # "dead"
  PROVE  Live(p)
BY ConstantsAssumption DEF UseInv, Live, NoId

(* Every step of a user keeps it.                                             *)
LEMMA UseInvStep ==
  ASSUME UsersOnly, TypeInv, UseInv, NEW p \in Procs, UseStep(p)
  PROVE  UseInv'
<1> USE DEF UseInv, TypeInv, TypeOK, ClientType, semVars, At, Go
<1>1. ASSUME SetWait(p) PROVE UseInv'
  <2>1. h' \in [Procs -> Handles] /\ \A q \in Procs : h'[q].sem = h[q].sem
    BY <1>1 DEF SetWait, Handles
  <2> QED BY <1>1, <2>1 DEF SetWait, Begin
<1>2. ASSUME Enter(p) PROVE UseInv'
  BY <1>2 DEF Enter, Begin
<1>3. ASSUME ReadCount(p) PROVE UseInv'
  BY <1>3 DEF ReadCount
<1>4. ASSUME Lock(p) PROVE UseInv'
  BY <1>4 DEF Lock
<1>5. ASSUME PushWrite(p) PROVE UseInv'
  BY <1>5 DEF PushWrite, Stray
<1>6. ASSUME PopRead(p) PROVE UseInv'
  BY <1>6 DEF PopRead, Stray
<1>7. ASSUME PrintRead(p) PROVE UseInv'
  BY <1>7 DEF PrintRead, Stray
<1>8. ASSUME PushInc(p) PROVE UseInv'
  BY <1>8 DEF PushInc
<1>9. ASSUME PopDec(p) PROVE UseInv'
  BY <1>9 DEF PopDec
<1>10. ASSUME Unlock(p) PROVE UseInv'
  BY <1>10 DEF Unlock
<1>11. ASSUME Kill(p) PROVE UseInv'
  BY <1>11 DEF Kill
<1> QED BY <1>1, <1>2, <1>3, <1>4, <1>5, <1>6, <1>7, <1>8, <1>9, <1>10, <1>11 DEF UseStep

(* Attached processes begin so.                                               *)
LEMMA UseInit == InitAttached => UseInv
BY DEF InitAttached, UseInv, Idle

(* A step that lets nobody in and leaves MUTEX alone keeps the exclusion.     *)
LEMMA MutexSame ==
  ASSUME MutualExclusion, Holders' \subseteq Holders, sem'[MUTEX] = sem[MUTEX]
  PROVE  MutualExclusion'
BY DEF MutualExclusion

(* Every step of a user keeps mutual exclusion.                               *)
LEMMA MutexStep ==
  ASSUME TypeInv, UseInv, MutualExclusion, NEW p \in Procs, UseStep(p)
  PROVE  MutualExclusion'
<1> USE DEF TypeInv, TypeOK, ClientType, SemType, semVars, At, Go
<1>0. SemMax >= 1 /\ sem[MUTEX] \in Int
  BY ConstantsAssumption DEF SIZE, MUTEX
<1>1. ASSUME SetWait(p) PROVE MutualExclusion'
  BY <1>1, MutexSame DEF SetWait, Holders
<1>2. ASSUME Enter(p) PROVE MutualExclusion'
  BY <1>2, MutexSame DEF Enter, Holders
<1>3. ASSUME ReadCount(p) PROVE MutualExclusion'
  BY <1>3, MutexSame DEF ReadCount, Holders
<1>4. ASSUME Lock(p) PROVE MutualExclusion'
  <2>1. Live(p)
    BY <1>4, UseLive DEF Lock
  <2>2. sem[MUTEX] = 1 /\ sem' = [sem EXCEPT ![MUTEX] = @ - 1]
    <3>1. sem[MUTEX] \in 0..SemMax /\ sem[MUTEX] <= 1
      BY DEF MutualExclusion, SIZE, MUTEX
    <3>2. sem[MUTEX] - 1 \in 0..SemMax /\ sem' = [sem EXCEPT ![MUTEX] = @ - 1]
      BY <1>4, <2>1, <3>1, ConstantsAssumption DEF Lock, Semop
    <3> QED BY <3>1, <3>2
  <2>3. Holders = {}
    BY <2>2 DEF MutualExclusion
  <2>4. Holders' = {p}
    BY <1>4, <2>3 DEF Lock, Holders
  <2>5. sem'[MUTEX] = 0
    BY <2>2 DEF SIZE, MUTEX
  <2> QED BY <2>4, <2>5 DEF MutualExclusion
<1>5. ASSUME PushWrite(p) PROVE MutualExclusion'
  BY <1>5, MutexSame DEF PushWrite, Stray, Holders
<1>6. ASSUME PopRead(p) PROVE MutualExclusion'
  BY <1>6, MutexSame DEF PopRead, Stray, Holders
<1>7. ASSUME PrintRead(p) PROVE MutualExclusion'
  BY <1>7, MutexSame DEF PrintRead, Stray, Holders
<1>8. ASSUME PushInc(p) PROVE MutualExclusion'
  <2>1. sem'[MUTEX] = sem[MUTEX]
    BY <1>8 DEF PushInc, Semop, SIZE, COUNT, MUTEX
  <2> QED BY <1>8, <2>1, MutexSame DEF PushInc, Holders
<1>9. ASSUME PopDec(p) PROVE MutualExclusion'
  <2>1. sem'[MUTEX] = sem[MUTEX]
    BY <1>9 DEF PopDec, Semop, SIZE, COUNT, MUTEX
  <2> QED BY <1>9, <2>1, MutexSame DEF PopDec, Holders
<1>10. ASSUME Unlock(p) PROVE MutualExclusion'
  <2>1. Live(p)
    BY <1>10, UseLive DEF Unlock
  <2>2. p \in Holders
    BY <1>10 DEF Unlock, Holders
  <2>3. sem[MUTEX] = 0 /\ Holders = {p}
    BY <2>2 DEF MutualExclusion
  <2>4. sem' = [sem EXCEPT ![MUTEX] = @ + 1]
    <3>1. ~(sem[MUTEX] + 1 > SemMax)
      BY <2>3, ConstantsAssumption
    <3> QED BY <1>10, <2>1, <3>1 DEF Unlock, Semop
  <2>5. sem'[MUTEX] = 1
    BY <2>3, <2>4 DEF SIZE, MUTEX
  <2>6. Holders' = {}
    BY <1>10, <2>3 DEF Unlock, Holders
  <2> QED BY <2>5, <2>6 DEF MutualExclusion
<1>11. ASSUME Kill(p) PROVE MutualExclusion'
  BY <1>11, MutexSame DEF Kill, Holders
<1> QED BY <1>1, <1>2, <1>3, <1>4, <1>5, <1>6, <1>7, <1>8, <1>9, <1>10, <1>11 DEF UseStep

(* At most one process is between taking and giving back the MUTEX semaphore, *)
(* whatever is called, by however many processes, and whoever is killed.      *)
THEOREM MutexHolds ==
  ASSUME UsersOnly
  PROVE  AttachedSpec => []MutualExclusion
<1> DEFINE Inv == TypeInv /\ UseInv /\ MutualExclusion
<1>1. InitAttached => Inv
  <2>1. InitAttached => MutualExclusion
    BY DEF InitAttached, Idle, MutualExclusion, Holders, SIZE, COUNT, MUTEX
  <2> QED BY <2>1, TypeInit, UseInit
<1>2. Inv /\ [Next]_vars => Inv'
  <2> SUFFICES ASSUME Inv, [Next]_vars PROVE Inv'
    OBVIOUS
  <2>1. CASE Next
    <3>1. PICK p \in Procs : Step(p)
      BY <2>1 DEF Next
    <3>2. UseStep(p)
      BY <3>1, OnlyUseSteps
    <3> QED BY <3>1, <3>2, TypeStep, UseInvStep, MutexStep
  <2>2. CASE UNCHANGED vars
    BY <2>2, ShmSame, SemSame
       DEF TypeInv, TypeOK, ClientType, CreatesWithSize, UseInv, MutualExclusion, Holders,
           vars, semVars, history
  <2> QED BY <2>1, <2>2
<1>3. Inv => MutualExclusion
  OBVIOUS
<1> QED BY <1>1, <1>2, <1>3, PTL DEF AttachedSpec
-----------------------------------------------------------------------------
(* The discipline of the stress test: pop only what one pushed, with room in  *)
(* the semaphore for every pointer.                                           *)
Disciplined == Rule = "own" /\ IsFiniteSet(Procs) /\ Cardinality(Vals) <= SemMax

Before == {"count", "spin", "sleep", "lock", "access", "move"}

(* A process never popped more than it pushed; a push under way has a token   *)
(* to come, and a pop under way has one to give.                              *)
OwnInv ==
  \A p \in Procs :
    /\ own[p] \in 0..MaxCalls
    /\ own[p] <= calls[p]
    /\ call[p] = "push" /\ pc[p] \in Before => own[p] < calls[p]
    /\ call[p] = "pop" /\ pc[p] \in Before => own[p] >= 1
    /\ call[p] = "pop" /\ pc[p] \in {"lock", "access", "move"} => loc[p].count >= 1

(* The elements are finitely many, and no more than SEMVMX.                   *)
LEMMA TokensFinite ==
  ASSUME Disciplined, OwnInv
  PROVE  /\ IsFiniteSet(Tokens) /\ Cardinality(Tokens) \in Nat
         /\ Tokens \subseteq Vals /\ Cardinality(Tokens) <= SemMax
<1>1. IsFiniteSet(1..MaxCalls)
  BY ConstantsAssumption, FS_Interval
<1>2. IsFiniteSet(Vals)
  BY <1>1, FS_Product DEF Disciplined, Vals
<1>3. ASSUME NEW p \in Procs PROVE 1..own[p] \subseteq 1..MaxCalls
  BY ConstantsAssumption DEF OwnInv
<1>4. Tokens \in SUBSET Vals
  BY <1>3 DEF Tokens, Vals
<1>5. IsFiniteSet(Tokens) /\ Cardinality(Tokens) <= Cardinality(Vals)
  BY <1>2, <1>4, FS_Subset
<1>6. Cardinality(Tokens) \in Nat /\ Cardinality(Vals) \in Nat
  BY <1>2, <1>5, FS_CardinalityType
<1> QED BY <1>4, <1>5, <1>6, ConstantsAssumption DEF Disciplined

(* A process that owns an element is one of the reasons for COUNT.            *)
LEMMA TokenThere ==
  ASSUME Disciplined, OwnInv, NEW p \in Procs, own[p] >= 1
  PROVE  Cardinality(Tokens) >= 1
<1>1. <<p, 1>> \in Tokens
  BY DEF Tokens, OwnInv
<1>2. Cardinality(Tokens) # 0
  BY <1>1, TokensFinite, FS_EmptySet
<1> QED BY <1>2, TokensFinite

(* A push adds one element.                                                   *)
LEMMA TokenAdded ==
  ASSUME Disciplined, OwnInv, OwnInv', NEW p \in Procs,
         own \in [Procs -> Int], own' = [own EXCEPT ![p] = @ + 1]
  PROVE  Cardinality(Tokens') = Cardinality(Tokens) + 1 /\ Cardinality(Tokens') <= SemMax
<1> DEFINE t == <<p, own[p] + 1>>
<1>1. own[p] \in Nat
  BY ConstantsAssumption DEF OwnInv
<1>2. Tokens' = Tokens \cup {t}
  BY <1>1 DEF Tokens
<1>3. t \notin Tokens
  BY <1>1 DEF Tokens
<1>4. Cardinality(Tokens') = Cardinality(Tokens) + 1
  BY <1>2, <1>3, TokensFinite, FS_AddElement
<1>5. IsFiniteSet(Vals) /\ Tokens' \in SUBSET Vals
  <2>1. IsFiniteSet(1..MaxCalls)
    BY ConstantsAssumption, FS_Interval
  <2>2. ASSUME NEW q \in Procs PROVE 1..own'[q] \subseteq 1..MaxCalls
    BY ConstantsAssumption DEF OwnInv
  <2>3. IsFiniteSet(Vals)
    BY <2>1, FS_Product DEF Disciplined, Vals
  <2>4. Tokens' \subseteq Vals
    BY <2>2 DEF Tokens, Vals
  <2> QED BY <2>3, <2>4
<1>6. Cardinality(Tokens') <= Cardinality(Vals) /\ Cardinality(Vals) \in Nat
  BY <1>5, FS_Subset, FS_CardinalityType
<1> QED BY <1>4, <1>6, TokensFinite, ConstantsAssumption DEF Disciplined

(* A pop takes one away.                                                      *)
LEMMA TokenRemoved ==
  ASSUME Disciplined, OwnInv, NEW p \in Procs, own[p] >= 1,
         own \in [Procs -> Int], own' = [own EXCEPT ![p] = @ - 1]
  PROVE  Cardinality(Tokens') = Cardinality(Tokens) - 1
<1> DEFINE t == <<p, own[p]>>
<1>1. own[p] \in Nat
  BY ConstantsAssumption DEF OwnInv
<1>2. Tokens' = Tokens \ {t} /\ t \in Tokens
  BY <1>1 DEF Tokens
<1> QED BY <1>2, TokensFinite, FS_RemoveElement

CountInv == OwnInv /\ CountAccounted

(* What leaves COUNT and the elements alone keeps the account.                *)
LEMMA CountSame ==
  ASSUME CountAccounted, sem'[COUNT] = sem[COUNT], own' = own
  PROVE  CountAccounted'
BY DEF CountAccounted, Tokens

(* Every step of a disciplined user keeps the account.                        *)
LEMMA CountStep ==
  ASSUME Disciplined, TypeInv, UseInv, CountInv, NEW p \in Procs, UseStep(p)
  PROVE  CountInv'
<1> USE DEF TypeInv, TypeOK, ClientType, semVars, history, At, Go, CountInv, Before
<1>0. own[p] \in Int /\ calls[p] \in 0..MaxCalls
  OBVIOUS
<1>1. ASSUME SetWait(p) PROVE CountInv'
  BY <1>1, ConstantsAssumption, CountSame DEF SetWait, Begin, OwnInv
<1>2. ASSUME Enter(p) PROVE CountInv'
  <2>1. CASE call'[p] = "pop"
    <3>1. own[p] > 0
      BY <1>2, <2>1 DEF Enter, Begin, Allowed, Disciplined
    <3> QED BY <1>0, <1>2, <2>1, <3>1, ConstantsAssumption, CountSame DEF Enter, Begin, OwnInv
  <2>2. CASE call'[p] # "pop"
    BY <1>0, <1>2, <2>2, ConstantsAssumption, CountSame DEF Enter, Begin, OwnInv
  <2> QED BY <2>1, <2>2
<1>3. ASSUME ReadCount(p) PROVE CountInv'
  <2>1. Live(p) /\ own' = own /\ sem' = sem /\ call' = call /\ calls' = calls
        /\ pc[p] \in Before
    BY <1>3, UseLive DEF ReadCount
  <2>2. \A q \in Procs \ {p} : loc'[q] = loc[q] /\ pc'[q] = pc[q]
    BY <1>3 DEF ReadCount
  <2>3. loc'[p].count = sem[COUNT]
    BY <1>3, <2>1 DEF ReadCount, Getval, Locals
  <2>4. call[p] = "pop" => loc'[p].count >= 1
    BY <2>1, <2>3, TokenThere DEF OwnInv, CountAccounted
  <2>5. OwnInv'
    BY <2>1, <2>2, <2>4 DEF OwnInv
  <2> QED BY <2>1, <2>5, CountSame
<1>4. ASSUME Lock(p) PROVE CountInv'
  <2>1. sem'[COUNT] = sem[COUNT]
    BY <1>4 DEF Lock, Semop, SemType, SIZE, COUNT, MUTEX
  <2> QED BY <1>4, <2>1, CountSame DEF Lock, OwnInv
<1>5. ASSUME PushWrite(p) PROVE CountInv'
  BY <1>5, CountSame DEF PushWrite, Stray, OwnInv
<1>6. ASSUME PopRead(p) PROVE CountInv'
  <2>1. \A q \in Procs : loc'[q].count = loc[q].count
    BY <1>6 DEF PopRead, Locals
  <2> QED BY <1>6, <2>1, CountSame DEF PopRead, Stray, OwnInv
<1>7. ASSUME PrintRead(p) PROVE CountInv'
  BY <1>7, CountSame DEF PrintRead, Stray, OwnInv
<1>8. ASSUME PushInc(p) PROVE CountInv'
  <2>1. OwnInv'
    BY <1>8, <1>0, ConstantsAssumption DEF PushInc, OwnInv
  <2>2. Live(p)
    BY <1>8, UseLive DEF PushInc
  <2>3. Cardinality(Tokens') = Cardinality(Tokens) + 1 /\ Cardinality(Tokens') <= SemMax
    BY <1>8, <2>1, TokenAdded DEF PushInc
  <2>4. sem' = [sem EXCEPT ![COUNT] = @ + 1]
    <3>1. sem[COUNT] + 1 <= SemMax /\ sem[COUNT] + 1 \in Int
      BY <2>3, TokensFinite DEF CountAccounted
    <3>2. ~(sem[COUNT] + 1 > SemMax)
      BY <3>1, ConstantsAssumption
    <3> QED BY <1>8, <2>2, <3>2 DEF PushInc, Semop
  <2>5. sem'[COUNT] = sem[COUNT] + 1
    BY <2>4 DEF SemType, SIZE, COUNT, MUTEX
  <2> QED BY <2>1, <2>3, <2>5 DEF CountAccounted
<1>9. ASSUME PopDec(p) PROVE CountInv'
  <2>1. own[p] >= 1
    BY <1>9 DEF PopDec, OwnInv
  <2>2. OwnInv'
    BY <1>9, <1>0, <2>1, ConstantsAssumption DEF PopDec, OwnInv
  <2>3. Live(p)
    BY <1>9, UseLive DEF PopDec
  <2>4. Cardinality(Tokens') = Cardinality(Tokens) - 1
    BY <1>9, <2>1, TokenRemoved DEF PopDec
  <2>5. sem' = [sem EXCEPT ![COUNT] = @ - 1]
    <3>1. sem[COUNT] \in 0..SemMax
      BY DEF SemType, SIZE, COUNT, MUTEX
    <3>2. ~(sem[COUNT] + (-1) > SemMax)
      BY <3>1, ConstantsAssumption
    <3>3. sem' = [sem EXCEPT ![COUNT] = @ + (-1)]
      BY <1>9, <2>3, <3>2 DEF PopDec, Semop
    <3> QED BY <3>1, <3>3 DEF SemType
  <2>6. sem'[COUNT] = sem[COUNT] - 1
    BY <2>5 DEF SemType, SIZE, COUNT, MUTEX
  <2> QED BY <2>2, <2>4, <2>6 DEF CountAccounted
<1>10. ASSUME Unlock(p) PROVE CountInv'
  <2>1. sem'[COUNT] = sem[COUNT]
    BY <1>10 DEF Unlock, Semop, SemType, SIZE, COUNT, MUTEX
  <2> QED BY <1>10, <2>1, CountSame DEF Unlock, OwnInv
<1>11. ASSUME Kill(p) PROVE CountInv'
  BY <1>11, CountSame DEF Kill, OwnInv
<1> QED BY <1>1, <1>2, <1>3, <1>4, <1>5, <1>6, <1>7, <1>8, <1>9, <1>10, <1>11 DEF UseStep

(* The accounting implies that no pop meets an empty stack.                   *)
LEMMA CountImpliesNeverEmpty ==
  ASSUME Disciplined, CountInv
  PROVE  PopNeverEmpty
<1> SUFFICES ASSUME NEW p \in Procs, call[p] = "pop"
             PROVE  /\ pc[p] \in {"lock", "access", "move"} => loc[p].count >= 1
                    /\ pc[p] = "move" => sem[COUNT] >= 1
  BY DEF PopNeverEmpty
<1>1. pc[p] \in {"lock", "access", "move"} => loc[p].count >= 1
  BY DEF CountInv, OwnInv
<1>2. pc[p] = "move" => sem[COUNT] >= 1
  BY TokenThere DEF CountInv, OwnInv, CountAccounted, Before
<1> QED BY <1>1, <1>2

(* With the discipline of the stress test the COUNT semaphore is exact, and   *)
(* no pop reads below the stack or sleeps on COUNT with the mutex in hand,    *)
(* for any number of processes, even if some are killed.                      *)
THEOREM CountExact ==
  ASSUME UsersOnly, Disciplined
  PROVE  AttachedSpec => [](CountAccounted /\ PopNeverEmpty)
<1> DEFINE Inv == TypeInv /\ UseInv /\ CountInv
<1>1. InitAttached => Inv
  <2> SUFFICES ASSUME InitAttached PROVE CountInv
    BY TypeInit, UseInit
  <2>1. \A p \in Procs : own[p] = 0 /\ calls[p] = 0 /\ call[p] = "none"
    BY DEF InitAttached, Idle
  <2>2. OwnInv
    BY <2>1, ConstantsAssumption DEF OwnInv
  <2>3. Tokens = {}
    BY <2>1 DEF Tokens
  <2>4. sem[COUNT] = 0
    BY DEF InitAttached, SIZE, COUNT, MUTEX
  <2> QED BY <2>2, <2>3, <2>4, FS_EmptySet DEF CountInv, CountAccounted
<1>2. Inv /\ [Next]_vars => Inv'
  <2> SUFFICES ASSUME Inv, [Next]_vars PROVE Inv'
    OBVIOUS
  <2>1. CASE Next
    <3>1. PICK p \in Procs : Step(p)
      BY <2>1 DEF Next
    <3>2. UseStep(p)
      BY <3>1, OnlyUseSteps
    <3> QED BY <3>1, <3>2, TypeStep, UseInvStep, CountStep
  <2>2. CASE UNCHANGED vars
    BY <2>2, ShmSame, SemSame
       DEF TypeInv, TypeOK, ClientType, CreatesWithSize, UseInv, CountInv, OwnInv,
           CountAccounted, Tokens, vars, semVars, history
  <2> QED BY <2>1, <2>2
<1>3. Inv => CountAccounted /\ PopNeverEmpty
  BY CountImpliesNeverEmpty DEF CountInv
<1> QED BY <1>1, <1>2, <1>3, PTL DEF AttachedSpec

(* In particular a pop that is past its test never reads sh_stack[-1], nor     *)
(* does it sleep on the COUNT semaphore with the mutex in its hands.           *)
THEOREM PopsFindElements ==
  ASSUME UsersOnly, Disciplined
  PROVE  AttachedSpec => []PopNeverEmpty
<1>1. AttachedSpec => [](CountAccounted /\ PopNeverEmpty)
  BY CountExact
<1> QED BY <1>1, PTL


(* One call at a time, of processes that are not killed, choose one of the    *)
(* three ways to wait that stack.h names and agree on the size, which has     *)
(* room in the segment and in a semaphore.                                    *)
SerialUse ==
  /\ Rule = "serial" /\ ~Mortal /\ FirstId > 0 /\ Waits \subseteq -1..1
  /\ \A s \in Sizes : Sizes = {s} /\ s <= SemMax /\ s <= Slots(s)

(* The stack the key names is complete, with the mutex at m; there is none;   *)
(* or mark_destruct has removed its segment and not yet its semaphores.       *)
Whole(m) == /\ shmKey \in Ids /\ segSize[shmKey] \in Sizes
            /\ semKey \in Ids /\ sem[SIZE] \in Sizes /\ sem[COUNT] <= sem[SIZE] /\ sem[MUTEX] = m
Gone == shmKey = NoId /\ semKey = NoId
Halfway == shmKey = NoId /\ semKey # NoId

Resting(q) == pc[q] \in {"idle", "dead"}
RmStages == {"rm_shm", "rm_sem"}

(* An open handle is for one stack: the one that the key names, or one that   *)
(* was destroyed.                                                             *)
Fits(q) == /\ h[q].shm \in Ids /\ h[q].sem \in Ids
           /\ pc[q] \notin RmStages => h[q].map = h[q].shm
           /\ Halfway \/ (h[q].shm = shmKey <=> h[q].sem = semKey)
Current(p) == h[p].map = shmKey /\ h[p].shm = shmKey /\ h[p].sem = semKey

(* New objects get identifiers that no handle has.                            *)
Given == /\ shmKey < FirstId + nshm /\ semKey < FirstId + nsem
         /\ \A q \in Procs : h[q].shm < FirstId + nshm /\ h[q].sem < FirstId + nsem

(* What the one process that is in a call has done and found so far.          *)
Attaching(p) ==
  /\ call[p] = "attach" /\ ~h[p].open
  /\ pc[p] \in {"get", "semget", "reset", "map"} => Whole(1)
  /\ pc[p] \notin {"get", "create"} => h[p].shm = shmKey /\ shmKey \in Ids
  /\ pc[p] \in {"reset", "set_size", "set_count", "set_mutex", "map"} => h[p].sem = semKey
  /\ pc[p] \notin {"get", "semget", "reset", "map"} => loc[p].size \in Sizes
  /\ pc[p] = "create" => Gone
  /\ pc[p] = "semcreate" => semKey = NoId /\ segSize[shmKey] \in Sizes
  /\ pc[p] \in {"set_size", "set_count", "set_mutex"} =>
       /\ semKey \in Ids /\ segSize[shmKey] \in Sizes /\ sem[COUNT] = 0 /\ sem[MUTEX] = 0
       /\ sem[SIZE] = IF pc[p] = "set_size" THEN 0 ELSE loc[p].size
Destroying(p) ==
  /\ call[p] = "destruct" /\ h[p].open /\ h[p].map = NoId
  /\ pc[p] = "rm_shm" => Whole(1) \/ Gone
  /\ pc[p] = "rm_sem" => \/ Halfway /\ h[p].sem = semKey
                         \/ (Whole(1) \/ Gone) /\ h[p].sem # semKey

(* At work on the stack of the key.                                           *)
Working(p) ==
  /\ Whole(IF pc[p] \in {"access", "move", "unlock"} THEN 0 ELSE 1)
  /\ loc[p].size = sem[SIZE] /\ (call[p] = "push" => loc[p].val \in Vals)
  /\ pc[p] \in {"lock", "access", "move"} =>
       /\ loc[p].count = sem[COUNT] /\ (call[p] = "push" => loc[p].count < sem[SIZE])
       /\ call[p] = "pop" => loc[p].count > 0
  /\ pc[p] = "move" =>
       \/ call[p] = "push" /\ mem[shmKey][loc[p].count] = loc[p].val
       \/ call[p] = "pop" /\ mem[shmKey][loc[p].count - 1] = loc[p].val
(* Or with a handle for a destroyed one, of which every GETVAL is -1.         *)
Straying(p) ==
  /\ Whole(1) \/ Gone
  /\ loc[p].size = -1 /\ (call[p] = "push" => pc[p] \in {"count", "spin", "sleep"})
  /\ pc[p] \in {"lock", "access", "move"} => loc[p].count = -1
  /\ call[p] = "pop" => loc[p].val = NoVal
  /\ pc[p] = "move" => call[p] = "pop"

AttachStages == {"get", "semget", "reset", "create", "semcreate", "set_size", "set_count", "set_mutex", "map"}
WorkStages == {"count", "spin", "sleep", "lock", "access", "move", "unlock"}
SerialPart(p) ==
  /\ pc[p] \in AttachStages => Attaching(p)
  /\ pc[p] \in RmStages => Destroying(p)
  /\ pc[p] \in WorkStages => /\ call[p] \in {"push", "pop", "print"} /\ h[p].open
                             /\ IF h[p].sem = semKey THEN Working(p) ELSE Straying(p)
  /\ IF h[p].open THEN Fits(p) ELSE h[p].map = NoId
SerialInv ==
  /\ \A p, q \in Procs : ~Resting(p) /\ ~Resting(q) => p = q
  /\ (\A p \in Procs : Resting(p)) => Whole(1) \/ Gone
  /\ Given
  /\ \A p \in Procs : SerialPart(p)
-----------------------------------------------------------------------------
(* The types, as the steps below need them.                                   *)
LEMMA SerialFacts ==
  ASSUME SerialUse, TypeInv
  PROVE  /\ sem \in [0..2 -> 0..SemMax] /\ SIZE = 0 /\ COUNT = 1 /\ MUTEX = 2
         /\ NoId \notin Ids /\ (\A id \in Ids : id \in Nat /\ id > 0)
         /\ shmKey \in Ids \cup {NoId} /\ semKey \in Ids \cup {NoId}
         /\ h \in [Procs -> Handles] /\ loc \in [Procs -> Locals]
         /\ call \in [Procs -> Ops \cup {"none"}] /\ pc \in [Procs -> Places]
         /\ \A s \in Sizes : s \in Nat \ {0} /\ s <= SemMax /\ s <= Slots(s) /\ \A t \in Sizes : t = s
<1>1. \A id \in Ids : id \in Nat /\ id > 0
  BY ConstantsAssumption DEF SerialUse, Ids
<1>2. NoId \notin Ids
  BY <1>1 DEF NoId
<1>3. sem \in [0..2 -> 0..SemMax] /\ shmKey \in Ids \cup {NoId} /\ semKey \in Ids \cup {NoId}
  BY DEF TypeInv, TypeOK, ShmType, SemType, Ids1, SIZE, MUTEX
<1>4. h \in [Procs -> Handles] /\ loc \in [Procs -> Locals]
         /\ call \in [Procs -> Ops \cup {"none"}] /\ pc \in [Procs -> Places]
  BY DEF TypeInv, TypeOK, ClientType
<1>5. \A s \in Sizes : s \in Nat \ {0} /\ s <= SemMax /\ s <= Slots(s) /\ \A t \in Sizes : t = s
  BY ConstantsAssumption DEF SerialUse
<1> QED BY <1>1, <1>2, <1>3, <1>4, <1>5 DEF SIZE, COUNT, MUTEX

(* Counters of identifiers only grow, and handles take what the key names.    *)
LEMMA GivenStep ==
  ASSUME SerialUse, TypeInv, Given, NEW p \in Procs, Step(p)
  PROVE  Given'
<1>0. /\ h \in [Procs -> Handles] /\ FirstId \in Nat /\ FirstId > 0 /\ nshm \in Nat /\ nsem \in Nat
      /\ shmKey \in Int /\ semKey \in Int /\ NoId = -1
      /\ \A q \in Procs : h[q].shm \in Int /\ h[q].sem \in Int
  BY ConstantsAssumption DEF SerialUse, TypeInv, TypeOK, ClientType, ShmType, SemType, Handles, Ids1, Ids, NoId
<1>1. ASSUME UNCHANGED <<nshm, nsem, semKey>>, shmKey' \in {shmKey, NoId},
             \A q \in Procs : /\ h'[q].shm \in {h[q].shm, shmKey, NoId}
                              /\ h'[q].sem \in {h[q].sem, semKey, NoId}
      PROVE  Given'
  BY <1>0, <1>1 DEF Given
<1>2. ASSUME h' = h \/ h' = [h EXCEPT ![p] = Closed] \/ (\E w : h' = [h EXCEPT ![p].wait = w])
             \/ (\E id : h' = [h EXCEPT ![p].map = id]) \/ (\E id, b : h' = [h EXCEPT ![p].map = id, ![p].open = b])
      PROVE  \A q \in Procs : /\ h'[q].shm \in {h[q].shm, shmKey, NoId}
                              /\ h'[q].sem \in {h[q].sem, semKey, NoId}
  <2>1. CASE h' = h \/ h' = [h EXCEPT ![p] = Closed]
    BY <1>0, <2>1 DEF Closed
  <2>2. CASE \E w : h' = [h EXCEPT ![p].wait = w]
    BY <1>0, <2>2 DEF Handles
  <2>3. CASE \E id : h' = [h EXCEPT ![p].map = id]
    BY <1>0, <2>3 DEF Handles
  <2>4. ASSUME NEW id, NEW b, h' = [h EXCEPT ![p].map = id, ![p].open = b]
        PROVE  \A q \in Procs : h'[q].shm = h[q].shm /\ h'[q].sem = h[q].sem
    BY <1>0, <2>4, SMTT(30) DEF Handles
  <2> QED BY <1>2, <2>1, <2>2, <2>3, <2>4
<1> USE DEF shmVars, semVars
<1>3. CASE AttachProbe(p) \/ Detach(p) \/ SetWait(p) \/ DestructUnmap(p) \/ Kill(p) \/ AttachMap(p)
  <2>1. UNCHANGED <<nshm, nsem, semKey, shmKey>>
    BY <1>3 DEF AttachProbe, Detach, SetWait, DestructUnmap, Kill, AttachMap
  <2>2. h' = h \/ h' = [h EXCEPT ![p] = Closed] \/ (\E w : h' = [h EXCEPT ![p].wait = w])
        \/ (\E id : h' = [h EXCEPT ![p].map = id]) \/ (\E id, b : h' = [h EXCEPT ![p].map = id, ![p].open = b])
    BY <1>3, Zenon DEF AttachProbe, Detach, SetWait, DestructUnmap, Kill, AttachMap
  <2> QED BY <1>1, <1>2, <2>1, <2>2
<1>4. CASE AttachReset(p) \/ AttachSet(p) \/ DestructShm(p) \/ DestructSem(p)
  <2>1. UNCHANGED <<nshm, nsem>> /\ semKey' \in {semKey, NoId} /\ shmKey' \in {shmKey, NoId}
    BY <1>4 DEF AttachReset, AttachSet, DestructShm, DestructSem
  <2>2. h' = h \/ h' = [h EXCEPT ![p] = Closed]
    BY <1>4, Zenon DEF AttachReset, AttachSet, DestructShm, DestructSem
  <2> QED BY <1>0, <2>1, <2>2 DEF Given, Closed
<1>5. CASE Enter(p) \/ ReadCount(p) \/ Lock(p) \/ PushWrite(p) \/ PopRead(p) \/ PrintRead(p)
           \/ PushInc(p) \/ PopDec(p) \/ Unlock(p)
  <2>1. UNCHANGED <<nshm, nsem, semKey, shmKey>>
    BY <1>5 DEF Enter, ReadCount, Lock, PushWrite, PopRead, PrintRead, PushInc, PopDec, Unlock
  <2>2. h' = h \/ h' = [h EXCEPT ![p] = Closed]
    BY <1>5, Zenon DEF Enter, ReadCount, Lock, PushWrite, PopRead, PrintRead, PushInc, PopDec, Unlock, Stray
  <2> QED BY <1>1, <1>2, <2>1, <2>2
<1>6. CASE AttachGet(p) \/ AttachCreate(p)
  <2>1. ShmgetCreat(p) /\ UNCHANGED <<nsem, semKey>>
    BY <1>6 DEF AttachGet, AttachCreate
  <2>2. \/ /\ shmKey' = FirstId + nshm /\ nshm' = nshm + 1
           /\ h' = [h EXCEPT ![p].shm = FirstId + nshm]
        \/ /\ UNCHANGED <<shmKey, nshm>>
           /\ h' = [h EXCEPT ![p].shm = shmKey] \/ h' = [h EXCEPT ![p].shm = NoId]
    BY <2>1 DEF ShmgetCreat
  <2> QED BY <1>0, <2>1, <2>2 DEF Given, Handles
<1>7. CASE AttachSemget(p) \/ AttachSemcreate(p)
  <2>1. /\ UNCHANGED <<nshm, shmKey>> /\ h' = [h EXCEPT ![p].sem = semKey']
        /\ \/ UNCHANGED <<nsem, semKey>>
           \/ semKey' = FirstId + nsem /\ nsem' = nsem + 1
    <3>1. CASE AttachSemget(p)
      BY <3>1 DEF AttachSemget
    <3>2. CASE AttachSemcreate(p)
      BY <3>2 DEF AttachSemcreate
    <3> QED BY <1>7, <3>1, <3>2
  <2> QED BY <1>0, <2>1 DEF Given, Handles
<1> QED BY <1>3, <1>4, <1>5, <1>6, <1>7 DEF Step, Continue

(* The others rest, and what is true of the process that moves is enough.     *)
LEMMA SerialKept ==
  ASSUME SerialInv, Given', NEW p \in Procs,
         \A q \in Procs \ {p} : pc'[q] = pc[q] /\ h'[q] = h[q] /\ Resting(q),
         \/ UNCHANGED <<shmKey, semKey>>
         \/ \A q \in Procs \ {p} : h[q].open => Fits(q)',
         Resting(p)' => Whole(1)' \/ Gone',
         SerialPart(p)'
  PROVE  SerialInv'
<1>1. ASSUME NEW q \in Procs \ {p} PROVE SerialPart(q)'
  <2>1. pc'[q] \notin AttachStages \cup WorkStages \cup RmStages
    BY DEF Resting, AttachStages, WorkStages, RmStages
  <2>2. SerialPart(q) /\ h'[q] = h[q] /\ pc'[q] = pc[q]
    BY DEF SerialInv
  <2>3. h[q].open => Fits(q)'
    BY <2>2 DEF SerialPart, Fits, Halfway
  <2> QED BY <2>1, <2>2, <2>3 DEF SerialPart
<1>2. \A q \in Procs \ {p} : Resting(q)'
  BY DEF Resting
<1>3. \A q \in Procs : SerialPart(q)'
  BY <1>1
<1> QED BY <1>2, <1>3 DEF SerialInv

(* A process that begins a call is alone, and the stack is complete or absent.*)
LEMMA BeginsAlone ==
  ASSUME SerialUse, TypeInv, SerialInv, NEW p \in Procs, NEW o, Begin(p, o)
  PROVE  /\ pc[p] = "idle" /\ (\A q \in Procs \ {p} : Resting(q)) /\ (Whole(1) \/ Gone) /\ ~Halfway
         /\ h[p].open <=> o # "attach"
         /\ IF h[p].open THEN Fits(p) ELSE h[p].map = NoId
<1>1. pc[p] = "idle" /\ \A q \in Procs : Resting(q)
  BY DEF Begin, Allowed, SerialUse, Resting
<1>2. Whole(1) \/ Gone
  BY <1>1 DEF SerialInv
<1>3. ~Halfway
  BY <1>2, SerialFacts DEF Whole, Gone, Halfway
<1> QED BY <1>1, <1>2, <1>3 DEF Begin, SerialInv, SerialPart

(* A process in the middle of a call is the only one.                         *)
LEMMA ContinuesAlone ==
  ASSUME SerialInv, NEW p \in Procs, ~Resting(p)
  PROVE  \A q \in Procs \ {p} : Resting(q)
BY DEF SerialInv

(* What the abstract stack is made of.                                        *)
Top0 == IF Alive THEN sem[COUNT] ELSE 0
Cap0 == IF Alive THEN sem[SIZE] ELSE 0

(* A step that leaves the elements, the capacity, the attached processes and  *)
(* the results is none of the abstract stack.                                 *)
LEMMA AbsSame ==
  ASSUME Top0' = Top0, Cap0' = Cap0, UNCHANGED res, Attached' = Attached,
         \A k \in 1..Top0 : mem'[shmKey'][k - 1] = mem[shmKey][k - 1]
  PROVE  UNCHANGED Abs!vars
<1>1. [k \in 1..Top0' |-> mem'[shmKey'][k - 1]] = [k \in 1..Top0 |-> mem[shmKey][k - 1]]
  OBVIOUS
<1> QED BY <1>1 DEF Abs!vars, Top0, Cap0, Alive

(* Nobody comes or goes where the segments that are mapped stay.              *)
LEMMA AttachedSame ==
  ASSUME UNCHANGED shmKey, \A q \in Procs : h'[q].map = h[q].map
  PROVE  Attached' = Attached
BY DEF Attached

(* Attaching creates the abstract stack, or leaves it.                        *)
LEMMA AttachStep ==
  ASSUME SerialUse, TypeInv, SerialInv, NEW p \in Procs,
         \/ AttachProbe(p) \/ AttachGet(p) \/ AttachSemget(p) \/ AttachReset(p) \/ AttachCreate(p)
         \/ AttachSemcreate(p) \/ AttachSet(p) \/ AttachMap(p)
  PROVE  SerialInv' /\ [Abs!Next]_(Abs!vars)
<1>0. /\ sem \in [0..2 -> 0..SemMax] /\ SIZE = 0 /\ COUNT = 1 /\ MUTEX = 2
      /\ NoId \notin Ids /\ (\A id \in Ids : id \in Nat /\ id > 0)
      /\ shmKey \in Ids \cup {NoId} /\ semKey \in Ids \cup {NoId}
      /\ h \in [Procs -> Handles] /\ loc \in [Procs -> Locals]
      /\ call \in [Procs -> Ops \cup {"none"}] /\ pc \in [Procs -> Places]
      /\ \A s \in Sizes : s \in Nat \ {0} /\ s <= SemMax /\ s <= Slots(s) /\ \A t \in Sizes : t = s
  BY SerialFacts
<1>g. Given /\ Given'
  <2>1. Step(p)
    BY DEF Step, Continue
  <2> QED BY <2>1, GivenStep DEF SerialInv
<1>1. CASE AttachProbe(p)
  <2>1. PICK size \in Sizes :
          /\ Begin(p, "attach") /\ loc' = [loc EXCEPT ![p].size = size]
          /\ h' = [h EXCEPT ![p] = Closed]
          /\ Go(p, IF Found(size) /\ shmKey > 0 THEN "get" ELSE "create")
          /\ UNCHANGED <<shmVars, semVars, history>>
    BY <1>1 DEF AttachProbe
  <2>2. UNCHANGED <<shmKey, segSize, mem, semKey, sem, res>> /\ call' = [call EXCEPT ![p] = "attach"]
    BY <2>1 DEF shmVars, semVars, history, Begin
  <2>3. /\ pc[p] = "idle" /\ (\A q \in Procs \ {p} : Resting(q)) /\ (Whole(1) \/ Gone)
        /\ h[p].map = NoId /\ \A q \in Procs : h'[q].map = h[q].map
    <3>1. pc[p] = "idle" /\ (\A q \in Procs \ {p} : Resting(q)) /\ (Whole(1) \/ Gone) /\ h[p].map = NoId
      BY <2>1, BeginsAlone
    <3> QED BY <1>0, <2>1, <3>1 DEF Closed
  <2>4. h'[p] = Closed /\ (\A q \in Procs \ {p} : h'[q] = h[q] /\ pc'[q] = pc[q])
        /\ call'[p] = "attach" /\ loc'[p].size = size
    BY <1>0, <2>1, <2>2, <2>3 DEF Go
  <2>5. CASE Whole(1)
    <3>1. pc'[p] = "get"
      BY <1>0, <2>1, <2>5 DEF Go, Found, Whole
    <3>2. Attaching(p)'
      BY <2>2, <2>4, <2>5, <3>1 DEF Attaching, Whole, Closed
    <3>3. SerialInv'
      BY <2>2, <2>3, <2>4, <3>1, <3>2, <1>g, SerialKept DEF SerialPart, Resting, Closed, AttachStages, WorkStages, RmStages
    <3> QED BY <2>2, <2>3, <3>3, AbsSame, AttachedSame DEF Top0, Cap0, Alive
  <2>6. CASE Gone
    <3>1. pc'[p] = "create"
      BY <1>0, <2>1, <2>6 DEF Go, Found, Gone
    <3>3. Attaching(p)'
      BY <2>2, <2>4, <2>6, <3>1 DEF Attaching, Gone, Closed
    <3>4. SerialInv'
      BY <2>2, <2>3, <2>4, <3>1, <3>3, <1>g, SerialKept DEF SerialPart, Resting, Closed, AttachStages, WorkStages, RmStages
    <3> QED BY <2>2, <2>3, <3>4, AbsSame, AttachedSame DEF Top0, Cap0, Alive
  <2> QED BY <2>3, <2>5, <2>6
<1>2. ASSUME NEW l \in AttachStages, At(p, "attach", l)
      PROVE  /\ pc[p] = l /\ Attaching(p) /\ call' = call /\ ~h[p].open /\ h[p].map = NoId
             /\ \A q \in Procs \ {p} : Resting(q)
  <2>1. pc[p] = l /\ call' = call /\ ~Resting(p)
    BY <1>2 DEF At, AttachStages, Resting
  <2>2. Attaching(p) /\ h[p].map = NoId
    BY <1>2, <2>1 DEF SerialInv, SerialPart, Attaching
  <2> QED BY <2>1, <2>2, ContinuesAlone DEF Attaching
<1>3. CASE AttachGet(p)
  <2>1. /\ pc[p] = "get" /\ Attaching(p) /\ call' = call /\ ~h[p].open /\ h[p].map = NoId
        /\ \A q \in Procs \ {p} : Resting(q)
    BY <1>2, <1>3 DEF AttachGet, AttachStages
  <2>2. Whole(1) /\ loc[p].size \in Sizes
    BY <2>1 DEF Attaching, TypeInv, CreatesWithSize
  <2>3. h' = [h EXCEPT ![p].shm = shmKey] /\ UNCHANGED <<shmKey, segSize, mem, semKey, sem, res, loc>>
    BY <1>0, <1>3, <2>2 DEF AttachGet, ShmgetCreat, Found, Whole, shmVars, semVars, history
  <2>4. pc'[p] = "semget" /\ (\A q \in Procs \ {p} : h'[q] = h[q] /\ pc'[q] = pc[q])
        /\ h'[p].shm = shmKey /\ ~h'[p].open /\ h'[p].sem = h[p].sem
    BY <1>0, <1>3, <2>1, <2>3 DEF AttachGet, Go, Handles
  <2>5. Attaching(p)'
    BY <2>1, <2>2, <2>3, <2>4 DEF Attaching, Whole
  <2>6. SerialInv'
    BY <2>1, <2>3, <2>4, <2>5, <1>g, SerialKept DEF SerialPart, Resting, AttachStages, WorkStages, RmStages
  <2> QED BY <2>3, <2>6, AbsSame, AttachedSame DEF Top0, Cap0, Alive
<1>4. CASE AttachSemget(p)
  <2>1. /\ pc[p] = "semget" /\ Attaching(p) /\ call' = call /\ ~h[p].open /\ h[p].map = NoId
        /\ \A q \in Procs \ {p} : Resting(q)
    BY <1>2, <1>4 DEF AttachSemget, AttachStages
  <2>3. h' = [h EXCEPT ![p].sem = semKey] /\ UNCHANGED <<shmKey, segSize, mem, semKey, sem, res, loc>>
    BY <1>4 DEF AttachSemget, shmVars, semVars, history
  <2>4. pc'[p] = "reset" /\ (\A q \in Procs \ {p} : h'[q] = h[q] /\ pc'[q] = pc[q])
        /\ h'[p].shm = h[p].shm /\ ~h'[p].open /\ h'[p].sem = semKey
    BY <1>0, <1>4, <2>1, <2>3 DEF AttachSemget, Go, Handles
  <2>5. Attaching(p)'
    BY <2>1, <2>3, <2>4 DEF Attaching, Whole
  <2>6. SerialInv'
    BY <2>1, <2>3, <2>4, <2>5, <1>g, SerialKept DEF SerialPart, Resting, AttachStages, WorkStages, RmStages
  <2> QED BY <2>3, <2>6, AbsSame, AttachedSame DEF Top0, Cap0, Alive
<1>5. CASE AttachReset(p)
  <2>1. /\ pc[p] = "reset" /\ Attaching(p) /\ call' = call /\ ~h[p].open /\ h[p].map = NoId
        /\ \A q \in Procs \ {p} : Resting(q)
    BY <1>2, <1>5 DEF AttachReset, AttachStages
  <2>2. Whole(1) /\ h[p].shm = shmKey /\ h[p].sem = semKey
    BY <2>1 DEF Attaching
  <2>3. UNCHANGED <<shmKey, segSize, mem, semKey, res, loc, h>>
    BY <1>5 DEF AttachReset, shmVars, history
  <2>4. sem' = [sem EXCEPT ![2] = 1]
    BY <1>0, <1>5, <2>2, ConstantsAssumption DEF AttachReset, Setval, Live, Whole
  <2>5. pc'[p] = "map" /\ (\A q \in Procs \ {p} : pc'[q] = pc[q]) /\ Whole(1)'
        /\ sem'[0] = sem[0] /\ sem'[1] = sem[1]
    BY <1>0, <1>5, <2>1, <2>2, <2>3, <2>4 DEF AttachReset, Go, Whole
  <2>6. Attaching(p)'
    BY <2>1, <2>2, <2>3, <2>5 DEF Attaching
  <2>7. SerialInv'
    BY <2>1, <2>3, <2>5, <2>6, <1>g, SerialKept DEF SerialPart, Resting, AttachStages, WorkStages, RmStages
  <2> QED BY <1>0, <2>3, <2>5, <2>7, AbsSame, AttachedSame DEF Top0, Cap0, Alive
<1>6. CASE AttachCreate(p)
  <2>1. /\ pc[p] = "create" /\ Attaching(p) /\ call' = call /\ ~h[p].open /\ h[p].map = NoId
        /\ \A q \in Procs \ {p} : Resting(q)
    BY <1>2, <1>6 DEF AttachCreate, AttachStages
  <2>2. Gone /\ loc[p].size \in Sizes
    BY <2>1 DEF Attaching
  <2> DEFINE new == FirstId + nshm
  <2>3. /\ nshm < MaxIds /\ shmKey' = new /\ segSize' = [segSize EXCEPT ![new] = loc[p].size]
        /\ h' = [h EXCEPT ![p].shm = new] /\ UNCHANGED <<semKey, sem, res, loc>>
    BY <1>6, <2>2 DEF AttachCreate, ShmgetCreat, Gone, semVars, history
  <2>4. new \in Ids /\ segSize'[new] = loc[p].size
    BY <2>3, ConstantsAssumption DEF TypeInv, TypeOK, ShmType, Ids
  <2>5. pc'[p] = "semcreate" /\ (\A q \in Procs \ {p} : h'[q] = h[q] /\ pc'[q] = pc[q])
        /\ h'[p].shm = new /\ ~h'[p].open
    BY <1>0, <1>6, <2>1, <2>3 DEF AttachCreate, Go, Handles
  <2>6. Attaching(p)'
    BY <2>1, <2>2, <2>3, <2>4, <2>5 DEF Attaching, Gone
  <2>q. ASSUME NEW q \in Procs \ {p}
        PROVE  (h[q].open => Fits(q)') /\ h[q].map # new
    <3>1. Resting(q) /\ h'[q] = h[q] /\ pc'[q] = pc[q] /\ SerialPart(q)
      BY <2>1, <2>5 DEF SerialInv
    <3>2. h[q].shm < new
      BY <1>g DEF Given
    <3>3. new \in Nat /\ new > 0
      BY <1>0, <2>4
    <3>4. h[q].map = NoId \/ h[q].map = h[q].shm
      BY <3>1 DEF SerialPart, Fits, Resting, RmStages
    <3>5. h[q].open => Fits(q)'
      BY <1>0, <2>2, <2>3, <2>4, <3>1, <3>2, <3>3 DEF SerialPart, Fits, Halfway, Gone
    <3>6. h[q].shm \in Int /\ h[q].map \in Int /\ NoId = -1
      BY <1>0, ConstantsAssumption DEF Handles, Ids1, Ids, NoId
    <3> QED BY <3>2, <3>3, <3>4, <3>5, <3>6
  <2>7. SerialInv'
    BY <2>1, <2>2, <2>3, <2>5, <2>6, <2>q, <1>g, SerialKept DEF SerialPart, Resting, AttachStages, WorkStages, RmStages
  <2>8. ~Alive /\ ~Alive'
    BY <2>2, <2>3 DEF Gone, Alive
  <2>9. h'[p].map = NoId /\ new # NoId
    BY <1>0, <2>1, <2>3, <2>4 DEF Handles
  <2>10. Attached = {} /\ Attached' = {}
    BY <2>2, <2>3, <2>5, <2>9, <2>q DEF Attached, Gone
  <2> QED BY <2>3, <2>7, <2>8, <2>10, AbsSame DEF Top0, Cap0
<1>7. CASE AttachSemcreate(p)
  <2>1. /\ pc[p] = "semcreate" /\ Attaching(p) /\ call' = call /\ ~h[p].open /\ h[p].map = NoId
        /\ \A q \in Procs \ {p} : Resting(q)
    BY <1>2, <1>7 DEF AttachSemcreate, AttachStages
  <2>2. semKey = NoId /\ loc[p].size \in Sizes /\ h[p].shm = shmKey /\ shmKey \in Ids
        /\ segSize[shmKey] \in Sizes
    BY <2>1 DEF Attaching
  <2>3. /\ nsem < MaxIds /\ semKey' = FirstId + nsem /\ sem' = Zeros /\ UNCHANGED <<shmKey, segSize, mem, res, loc>>
        /\ h' = [h EXCEPT ![p].sem = semKey']
    BY <1>7, <2>2 DEF AttachSemcreate, shmVars, history
  <2>4. semKey' \in Ids /\ sem'[0] = 0 /\ sem'[1] = 0 /\ sem'[2] = 0
    BY <1>0, <2>3, ConstantsAssumption DEF TypeInv, TypeOK, SemType, Ids, Zeros
  <2>5. pc'[p] = "set_size" /\ (\A q \in Procs \ {p} : h'[q] = h[q] /\ pc'[q] = pc[q])
        /\ h'[p].shm = shmKey /\ ~h'[p].open /\ h'[p].sem = semKey'
    BY <1>0, <1>7, <2>1, <2>2, <2>3 DEF AttachSemcreate, Go, Handles
  <2>6. Attaching(p)'
    BY <1>0, <2>1, <2>2, <2>3, <2>4, <2>5 DEF Attaching
  <2>q. ASSUME NEW q \in Procs \ {p}, h[q].open PROVE Fits(q)'
    <3>1. Resting(q) /\ h'[q] = h[q] /\ pc'[q] = pc[q] /\ Fits(q)
      BY <2>1, <2>5, <2>q DEF SerialInv, SerialPart
    <3>2. h[q].sem < semKey' /\ h[q].sem \in Int /\ semKey' \in Int
      <4>1. h[q].sem \in Ids /\ semKey' \in Ids
        BY <2>4, <3>1 DEF Fits
      <4>2. h[q].sem < FirstId + nsem
        BY <1>g DEF Given
      <4> QED BY <1>0, <2>3, <4>1, <4>2
    <3>3. ~Halfway
      BY <2>2, <1>0 DEF Halfway
    <3> QED BY <1>0, <2>2, <2>3, <2>4, <3>1, <3>2, <3>3 DEF Fits
  <2>7. SerialInv'
    BY <2>1, <2>2, <2>3, <2>5, <2>6, <2>q, <1>g, SerialKept DEF SerialPart, Resting, AttachStages, WorkStages, RmStages
  <2>8. Top0 = 0 /\ Top0' = 0 /\ Cap0 = 0 /\ Cap0' = 0
    BY <1>0, <2>2, <2>4 DEF Top0, Cap0, Alive
  <2>9. \A q \in Procs : h'[q].map = h[q].map
    BY <1>0, <2>3 DEF Handles
  <2> QED BY <2>3, <2>7, <2>8, <2>9, AbsSame, AttachedSame
<1>8. CASE AttachSet(p)
  <2>1. /\ pc[p] \in {"set_size", "set_count", "set_mutex"} /\ Attaching(p) /\ call' = call /\ ~h[p].open /\ h[p].map = NoId
        /\ \A q \in Procs \ {p} : Resting(q)
    BY <1>2, <1>8 DEF AttachSet, AttachStages
  <2>2. /\ semKey \in Ids /\ loc[p].size \in Sizes /\ h[p].shm = shmKey /\ shmKey \in Ids
        /\ segSize[shmKey] \in Sizes /\ h[p].sem = semKey /\ sem[1] = 0 /\ sem[2] = 0
        /\ sem[0] = IF pc[p] = "set_size" THEN 0 ELSE loc[p].size
    BY <1>0, <2>1 DEF Attaching
  <2>3. UNCHANGED <<shmKey, segSize, mem, semKey, res, loc, h>> /\ \A q \in Procs \ {p} : pc'[q] = pc[q]
    <3>1. UNCHANGED <<shmKey, segSize, mem, semKey, res, loc, h>>
      BY <1>8 DEF AttachSet, shmVars, history
    <3>2. \E l : pc' = [pc EXCEPT ![p] = l]
      BY <1>8 DEF AttachSet, Go
    <3> QED BY <1>0, <2>1, <3>1, <3>2
  <2>4. Live(p) /\ loc[p].size \in 0..SemMax /\ 0 \in 0..SemMax /\ 1 \in 0..SemMax
    <3>1. Live(p)
      BY <1>0, <2>2 DEF Live
    <3>2. SemMax \in Nat \ {0}
      BY ConstantsAssumption
    <3>3. loc[p].size \in Nat \ {0} /\ loc[p].size <= SemMax
      BY <2>2, SerialFacts
    <3> QED BY <3>1, <3>2, <3>3
  <2>5. \/ pc[p] = "set_size" /\ pc'[p] = "set_count" /\ sem' = [sem EXCEPT ![0] = loc[p].size]
        \/ pc[p] = "set_count" /\ pc'[p] = "set_mutex" /\ sem' = [sem EXCEPT ![1] = 0]
        \/ pc[p] = "set_mutex" /\ pc'[p] = "map" /\ sem' = [sem EXCEPT ![2] = 1]
    BY <1>0, <1>8, <2>4 DEF AttachSet, Setval, At, Go
  <2>6. sem'[1] = 0 /\ sem'[0] = loc[p].size /\ sem'[2] = IF pc'[p] = "map" THEN 1 ELSE 0
    BY <1>0, <2>2, <2>5
  <2>7. Attaching(p)'
    BY <1>0, <2>1, <2>2, <2>3, <2>5, <2>6 DEF Attaching, Whole
  <2>8. SerialInv'
    BY <2>1, <2>2, <2>3, <2>5, <2>7, <1>g, SerialKept DEF SerialPart, Resting, AttachStages, WorkStages, RmStages
  <2>9. Alive /\ Alive' /\ Top0 = 0 /\ Top0' = 0
    BY <1>0, <2>2, <2>3, <2>6 DEF Alive, Top0
  <2>10. CASE pc[p] = "set_size"
    <3>1. Cap0 = 0 /\ Cap0' \in Sizes
      BY <1>0, <2>2, <2>6, <2>9, <2>10 DEF Cap0
    <3>2. [k \in 1..0 |-> mem'[shmKey'][k - 1]] = [k \in 1..0 |-> mem[shmKey][k - 1]]
      OBVIOUS
    <3>3. Abs!Create
      BY <2>3, <2>9, <3>1, <3>2, AttachedSame DEF Abs!Create, Cap0, Top0
    <3> QED BY <2>8, <3>3 DEF Abs!Next
  <2>11. CASE pc[p] # "set_size"
    <3>1. Cap0' = Cap0
      BY <1>0, <2>2, <2>6, <2>9, <2>11 DEF Cap0
    <3> QED BY <2>3, <2>8, <2>9, <3>1, AbsSame, AttachedSame
  <2> QED BY <2>10, <2>11
<1>9. CASE AttachMap(p)
  <2>1. /\ pc[p] = "map" /\ Attaching(p) /\ call' = call /\ ~h[p].open /\ h[p].map = NoId
        /\ \A q \in Procs \ {p} : Resting(q)
    BY <1>2, <1>9 DEF AttachMap, AttachStages
  <2>2. Whole(1) /\ h[p].shm = shmKey /\ h[p].sem = semKey
    BY <2>1 DEF Attaching
  <2>3. UNCHANGED <<shmKey, segSize, mem, semKey, sem, res, loc>>
        /\ h' = [h EXCEPT ![p].map = shmKey, ![p].open = TRUE]
    BY <1>0, <1>9, <2>2 DEF AttachMap, shmVars, semVars, history, Whole
  <2>4. pc'[p] = "idle" /\ (\A q \in Procs \ {p} : h'[q] = h[q] /\ pc'[q] = pc[q])
        /\ h'[p].shm = shmKey /\ h'[p].map = shmKey /\ h'[p].sem = semKey
    BY <1>0, <1>9, <2>1, <2>2, <2>3 DEF AttachMap, Go, Handles
  <2>5. Whole(1)' /\ Current(p)' /\ shmKey' \in Ids /\ semKey' \in Ids
    BY <2>2, <2>3, <2>4 DEF Whole, Current
  <2>e. h'[p].open /\ Fits(p)'
    BY <1>0, <2>3, <2>5 DEF Fits, Current, Handles
  <2>6. SerialInv'
    BY <2>1, <2>3, <2>4, <2>5, <2>e, <1>g, SerialKept DEF SerialPart, Resting, AttachStages, WorkStages, RmStages
  <2>7. Attached' = Attached \cup {p}
    BY <1>0, <2>2, <2>3, <2>4 DEF Attached, Whole
  <2>8. Abs!Attach(p)
    <3>1. Cap0 # 0
      BY <1>0, <2>2 DEF Cap0, Alive, Whole
    <3> QED BY <2>3, <2>7, <3>1 DEF Abs!Attach, Cap0, Alive
  <2> QED BY <2>6, <2>8 DEF Abs!Next
<1> QED BY <1>1, <1>3, <1>4, <1>5, <1>6, <1>7, <1>8, <1>9

(* Detaching, choosing how to wait and destroying.                            *)
LEMMA HandleStep ==
  ASSUME SerialUse, TypeInv, SerialInv, NEW p \in Procs,
         Detach(p) \/ SetWait(p) \/ DestructUnmap(p) \/ DestructShm(p) \/ DestructSem(p)
  PROVE  SerialInv' /\ [Abs!Next]_(Abs!vars)
<1>0. /\ sem \in [0..2 -> 0..SemMax] /\ SIZE = 0 /\ COUNT = 1 /\ MUTEX = 2
      /\ NoId \notin Ids /\ (\A id \in Ids : id \in Nat /\ id > 0)
      /\ shmKey \in Ids \cup {NoId} /\ semKey \in Ids \cup {NoId}
      /\ h \in [Procs -> Handles] /\ loc \in [Procs -> Locals]
      /\ call \in [Procs -> Ops \cup {"none"}] /\ pc \in [Procs -> Places]
  BY SerialFacts
<1>g. Given'
  <2>1. Step(p)
    BY DEF Step, Continue
  <2> QED BY <2>1, GivenStep DEF SerialInv
(* Whoever leaves is not attached any more, and nothing else is different.    *)
<1>d. ASSUME UNCHANGED <<shmKey, segSize, mem, semKey, sem, res>>, h'[p].map = NoId,
             \A q \in Procs \ {p} : h'[q] = h[q]
      PROVE  [Abs!Next]_(Abs!vars)
  <2>1. Attached' = Attached \ {p}
    BY <1>0, <1>d DEF Attached
  <2>2. Abs!Detach(p)
    BY <1>d, <2>1 DEF Abs!Detach, Alive
  <2> QED BY <2>2 DEF Abs!Next
<1>1. CASE Detach(p)
  <2>1. /\ Begin(p, "detach") /\ h' = [h EXCEPT ![p] = Closed]
        /\ UNCHANGED <<shmKey, segSize, mem, semKey, sem, pc, loc, res>>
    BY <1>1 DEF Detach, shmVars, semVars, history
  <2>2. pc[p] = "idle" /\ (\A q \in Procs \ {p} : Resting(q)) /\ (Whole(1) \/ Gone)
    BY <2>1, BeginsAlone
  <2>3. h'[p] = Closed /\ \A q \in Procs \ {p} : h'[q] = h[q] /\ pc'[q] = pc[q]
    BY <1>0, <2>1
  <2>4. Whole(1)' \/ Gone'
    BY <2>1, <2>2 DEF Whole, Gone
  <2>5. SerialInv'
    BY <2>1, <2>2, <2>3, <2>4, <1>g, SerialKept DEF SerialPart, Resting, AttachStages, WorkStages, RmStages, Closed
  <2> QED BY <2>1, <2>3, <2>5, <1>d DEF Closed
<1>2. CASE SetWait(p)
  <2>1. PICK w \in Waits : /\ Begin(p, "set_wait") /\ h' = [h EXCEPT ![p].wait = w]
                           /\ UNCHANGED <<shmKey, segSize, mem, semKey, sem, pc, loc, res>>
    BY <1>2 DEF SetWait, shmVars, semVars, history
  <2>2. pc[p] = "idle" /\ (\A q \in Procs \ {p} : Resting(q)) /\ (Whole(1) \/ Gone)
        /\ h[p].open /\ Fits(p)
    BY <2>1, BeginsAlone
  <2>3. (\A q \in Procs \ {p} : h'[q] = h[q] /\ pc'[q] = pc[q]) /\ h'[p].open = h[p].open /\ h'[p].shm = h[p].shm
        /\ h'[p].sem = h[p].sem /\ h'[p].map = h[p].map
    BY <1>0, <2>1 DEF Handles
  <2>4. (Whole(1)' \/ Gone') /\ Fits(p)'
    BY <2>1, <2>2, <2>3 DEF Whole, Gone, Fits, Halfway
  <2>5. SerialInv'
    BY <2>1, <2>2, <2>3, <2>4, <1>g, SerialKept DEF SerialPart, Resting, AttachStages, WorkStages, RmStages
  <2>6. \A q \in Procs : h'[q].map = h[q].map
    BY <2>3
  <2> QED BY <2>1, <2>5, <2>6, AbsSame, AttachedSame DEF Top0, Cap0, Alive
<1>3. CASE DestructUnmap(p)
  <2>1. /\ Begin(p, "destruct") /\ h' = [h EXCEPT ![p].map = NoId] /\ Go(p, "rm_shm")
        /\ UNCHANGED <<shmKey, segSize, mem, semKey, sem, loc, res>>
    BY <1>3 DEF DestructUnmap, shmVars, semVars, history
  <2>2. pc[p] = "idle" /\ (\A q \in Procs \ {p} : Resting(q)) /\ (Whole(1) \/ Gone) /\ h[p].open /\ Fits(p)
    BY <2>1, BeginsAlone
  <2>3. /\ (\A q \in Procs \ {p} : h'[q] = h[q] /\ pc'[q] = pc[q]) /\ h'[p].shm = h[p].shm
        /\ h'[p].sem = h[p].sem /\ pc'[p] = "rm_shm" /\ call'[p] = "destruct" /\ h'[p].map = NoId /\ h'[p].open
    BY <1>0, <2>1, <2>2 DEF Handles, Go, Begin
  <2>4. Destroying(p)' /\ Fits(p)'
    BY <2>1, <2>2, <2>3 DEF Whole, Gone, Destroying, Fits, Halfway, RmStages
  <2>5. SerialInv'
    BY <2>1, <2>2, <2>3, <2>4, <1>g, SerialKept DEF SerialPart, Resting, AttachStages, WorkStages, RmStages
  <2> QED BY <2>1, <2>3, <2>5, <1>d
<1>4. ASSUME NEW l \in {"rm_shm", "rm_sem"}, At(p, "destruct", l)
      PROVE  /\ pc[p] = l /\ Destroying(p) /\ call' = call /\ h[p].open /\ h[p].map = NoId /\ Fits(p)
             /\ \A q \in Procs \ {p} : Resting(q)
  <2>1. pc[p] = l /\ call' = call /\ ~Resting(p)
    BY <1>4 DEF At, Resting
  <2>2. Destroying(p) /\ SerialPart(p)
    BY <1>4, <2>1 DEF SerialInv, SerialPart, RmStages
  <2> QED BY <2>1, <2>2, ContinuesAlone DEF SerialPart, Destroying
<1>5. CASE DestructShm(p)
  <2>1. /\ pc[p] = "rm_shm" /\ Destroying(p) /\ call' = call /\ h[p].open /\ h[p].map = NoId /\ Fits(p)
        /\ \A q \in Procs \ {p} : Resting(q)
    BY <1>4, <1>5 DEF DestructShm
  <2>2. Whole(1) \/ Gone
    BY <2>1 DEF Destroying
  <2>3. shmKey' = (IF shmKey = h[p].shm THEN NoId ELSE shmKey) /\ UNCHANGED <<segSize, mem, semKey, sem, h, loc, res>>
    BY <1>5 DEF DestructShm, semVars, history
  <2>4. pc'[p] = "rm_sem" /\ \A q \in Procs \ {p} : pc'[q] = pc[q]
    BY <1>0, <1>5, <2>1 DEF DestructShm, Go
  <2>5. CASE shmKey = h[p].shm
    <3>1. Whole(1) /\ h[p].sem = semKey /\ shmKey # NoId /\ semKey # NoId
      BY <1>0, <2>1, <2>2, <2>5 DEF Gone, Fits, Halfway, Whole
    <3>2. Halfway' /\ shmKey' = NoId
      BY <2>3, <2>5, <3>1 DEF Halfway
    <3>3. Destroying(p)' /\ Fits(p)'
      BY <2>1, <2>3, <2>4, <3>1, <3>2 DEF Destroying, Fits, RmStages
    <3>4. ASSUME NEW q \in Procs \ {p}, h[q].open PROVE Fits(q)'
      <4>1. Fits(q)
        BY <3>4 DEF SerialInv, SerialPart
      <4> QED BY <2>3, <2>4, <3>2, <4>1 DEF Fits
    <3>5. SerialInv'
      BY <2>1, <2>3, <2>4, <3>3, <3>4, <1>g, SerialKept DEF SerialPart, Resting, AttachStages, WorkStages, RmStages
    <3>6. ~Alive' /\ Attached' = {}
      BY <3>2 DEF Alive, Attached
    <3>7. Abs!Destroy
      <4>1. [k \in 1..0 |-> mem'[shmKey'][k - 1]] = <<>>
        OBVIOUS
      <4> QED BY <2>3, <3>6, <4>1 DEF Abs!Destroy
    <3> QED BY <3>5, <3>7 DEF Abs!Next
  <2>6. CASE shmKey # h[p].shm
    <3>1. UNCHANGED shmKey /\ h[p].sem # semKey
      BY <1>0, <2>1, <2>2, <2>3, <2>6 DEF Fits, Halfway, Whole, Gone
    <3>2. Destroying(p)' /\ Fits(p)'
      BY <2>1, <2>2, <2>3, <2>4, <3>1 DEF Destroying, Fits, RmStages, Whole, Gone, Halfway
    <3>3. SerialInv'
      BY <2>1, <2>3, <2>4, <3>1, <3>2, <1>g, SerialKept DEF SerialPart, Resting, AttachStages, WorkStages, RmStages
    <3> QED BY <2>3, <3>1, <3>3, AbsSame, AttachedSame DEF Top0, Cap0, Alive
  <2> QED BY <2>5, <2>6
<1>6. CASE DestructSem(p)
  <2>1. /\ pc[p] = "rm_sem" /\ Destroying(p) /\ call' = call /\ h[p].open /\ h[p].map = NoId /\ Fits(p)
        /\ \A q \in Procs \ {p} : Resting(q)
    BY <1>4, <1>6 DEF DestructSem
  <2>2. h' = [h EXCEPT ![p] = Closed] /\ UNCHANGED <<shmKey, segSize, mem, loc, res>>
    BY <1>6 DEF DestructSem, shmVars, history
  <2>3. pc'[p] = "idle" /\ h'[p] = Closed /\ \A q \in Procs \ {p} : pc'[q] = pc[q] /\ h'[q] = h[q]
    BY <1>0, <1>6, <2>1, <2>2 DEF DestructSem, Go
  <2>4. \A q \in Procs : h'[q].map = h[q].map
    BY <2>1, <2>3 DEF Closed
  <2>5. CASE Halfway /\ h[p].sem = semKey
    <3>1. semKey' = NoId /\ Gone' /\ ~Alive /\ ~Alive'
      BY <1>6, <2>2, <2>5 DEF DestructSem, Live, Halfway, Gone, Alive
    <3>2. ASSUME NEW q \in Procs \ {p}, h[q].open PROVE Fits(q)'
      <4>1. Fits(q)
        BY <3>2 DEF SerialInv, SerialPart
      <4> QED BY <1>0, <2>3, <3>1, <4>1 DEF Fits, Gone, Halfway
    <3>3. SerialInv'
      BY <2>1, <2>3, <3>1, <3>2, <1>g, SerialKept DEF SerialPart, Resting, Closed, AttachStages, WorkStages, RmStages
    <3> QED BY <2>2, <2>4, <3>1, <3>3, AbsSame, AttachedSame DEF Top0, Cap0
  <2>6. CASE (Whole(1) \/ Gone) /\ h[p].sem # semKey
    <3>1. UNCHANGED <<semKey, sem>>
      BY <1>6, <2>6 DEF DestructSem, Live
    <3>2. Whole(1)' \/ Gone'
      BY <2>2, <2>6, <3>1 DEF Whole, Gone
    <3>3. SerialInv'
      BY <2>1, <2>2, <2>3, <3>1, <3>2, <1>g, SerialKept DEF SerialPart, Resting, Closed, AttachStages, WorkStages, RmStages
    <3> QED BY <2>2, <2>4, <3>1, <3>3, AbsSame, AttachedSame DEF Top0, Cap0, Alive
  <2> QED BY <2>1, <2>5, <2>6 DEF Destroying
<1> QED BY <1>1, <1>2, <1>3, <1>5, <1>6

(* The elements below the count lie in the segment.                           *)
LEMMA CountInside ==
  ASSUME SerialUse, TypeInv, SerialInv, NEW p \in Procs, Current(p), NEW m, Whole(m),
         NEW k \in Nat, k < sem[SIZE]
  PROVE  /\ Inside(p, k) /\ k \in DOMAIN mem[shmKey] /\ mem[shmKey][k] \in Vals \cup {NoVal}
         /\ mem[shmKey] \in [DOMAIN mem[shmKey] -> Vals \cup {NoVal}]
<1>1. shmKey \in Ids /\ sem[SIZE] \in Nat /\ segSize[shmKey] = sem[SIZE] /\ sem[SIZE] <= Slots(segSize[shmKey])
      /\ shmKey # NoId
  BY SerialFacts DEF Whole
<1>2. mem[shmKey] \in [0..(Slots(segSize[shmKey]) - 1) -> Vals \cup {NoVal}]
  BY <1>1 DEF TypeInv, TypeOK, ShmType
<1>3. Slots(segSize[shmKey]) \in Int
  <2>1. segSize[shmKey] \in Nat
    BY <1>1
  <2> QED BY <2>1, ConstantsAssumption DEF Slots
<1>4. k \in 0..(Slots(segSize[shmKey]) - 1)
  BY <1>1, <1>3
<1> QED BY <1>1, <1>2, <1>4 DEF Inside, Current

(* push, pop and print on the stack of the key: the increment of a push and   *)
(* the decrement of a pop are the abstract operations.                        *)
LEMMA WorkStep ==
  ASSUME SerialUse, TypeInv, SerialInv, NEW p \in Procs, h[p].sem = semKey,
         \/ Enter(p) \/ ReadCount(p) \/ Lock(p) \/ PushWrite(p) \/ PopRead(p) \/ PrintRead(p)
         \/ PushInc(p) \/ PopDec(p) \/ Unlock(p)
  PROVE  SerialInv' /\ [Abs!Next]_(Abs!vars)
<1>0. /\ sem \in [0..2 -> 0..SemMax] /\ SIZE = 0 /\ COUNT = 1 /\ MUTEX = 2
      /\ NoId \notin Ids /\ (\A id \in Ids : id \in Nat /\ id > 0)
      /\ shmKey \in Ids \cup {NoId} /\ semKey \in Ids \cup {NoId}
      /\ h \in [Procs -> Handles] /\ loc \in [Procs -> Locals]
      /\ call \in [Procs -> Ops \cup {"none"}] /\ pc \in [Procs -> Places]
  BY SerialFacts
<1>g. Given'
  <2>1. Step(p)
    BY DEF Step, Continue
  <2> QED BY <2>1, GivenStep DEF SerialInv
<1>1. CASE Enter(p)
  <2>1. PICK o \in {"push", "pop", "print"} :
          /\ Begin(p, o) /\ Go(p, "count") /\ UNCHANGED <<shmKey, segSize, mem, semKey, sem, h, res>>
          /\ loc' = [loc EXCEPT ![p] = [size |-> Getval(p, SIZE), count |-> 0,
                       val |-> IF o = "push" THEN <<p, calls[p] + 1>> ELSE NoVal]]
    BY <1>1 DEF Enter, shmVars, semVars, history
  <2>2. pc[p] = "idle" /\ (\A q \in Procs \ {p} : Resting(q)) /\ Whole(1) /\ Current(p) /\ h[p].open
    <3>1. /\ pc[p] = "idle" /\ (\A q \in Procs \ {p} : Resting(q)) /\ (Whole(1) \/ Gone) /\ ~Halfway
          /\ h[p].open /\ Fits(p)
      BY <2>1, BeginsAlone
    <3>2. ~Gone /\ Current(p)
      BY <1>0, <3>1 DEF Gone, Fits, Current, RmStages
    <3> QED BY <3>1, <3>2
  <2>3. (\A q \in Procs \ {p} : pc'[q] = pc[q] /\ h'[q] = h[q]) /\ pc'[p] = "count" /\ call'[p] = o
        /\ loc'[p].size = Getval(p, SIZE) /\ loc'[p].val = IF o = "push" THEN <<p, calls[p] + 1>> ELSE NoVal
    BY <1>0, <2>1, <2>2 DEF Go, Begin
  <2>4. Getval(p, SIZE) = sem[SIZE]
    BY <1>0, <2>2 DEF Getval, Live, Current, Whole
  <2>5. <<p, calls[p] + 1>> \in Vals
    <3>1. calls[p] \in 0..MaxCalls /\ MaxCalls \in Nat /\ calls[p] < MaxCalls
      BY <2>1, ConstantsAssumption DEF Begin, TypeInv, TypeOK, ClientType
    <3>2. calls[p] + 1 \in 1..MaxCalls
      BY <3>1
    <3> QED BY <3>2 DEF Vals
  <2>6. Working(p)'
    BY <2>1, <2>2, <2>3, <2>4, <2>5 DEF Working, Whole
  <2>7. Fits(p)'
    BY <2>1, <2>2 DEF Current, Whole, Fits
  <2>8. SerialInv'
    BY <2>1, <2>2, <2>3, <2>6, <2>7, <1>g, SerialKept DEF SerialPart, Resting, AttachStages, WorkStages, RmStages
  <2> QED BY <2>1, <2>8, AbsSame, AttachedSame DEF Top0, Cap0, Alive
(* What the other actions begin with.                                         *)
<1> DEFINE Works == /\ Working(p) /\ Current(p) /\ Live(p) /\ call[p] \in {"push", "pop", "print"}
                    /\ h[p].open /\ shmKey \in Ids /\ semKey \in Ids /\ Alive
                    /\ Fits(p) /\ (\A q \in Procs \ {p} : Resting(q)) /\ p \in Attached
           m == IF pc[p] \in {"access", "move", "unlock"} THEN 0 ELSE 1
<1>2. ASSUME pc[p] \in WorkStages PROVE Works
  <2>1. /\ Working(p) /\ h[p].open /\ call[p] \in {"push", "pop", "print"} /\ Fits(p) /\ ~Resting(p)
        /\ pc[p] \notin RmStages
    BY <1>2 DEF SerialInv, SerialPart, WorkStages, Resting, RmStages
  <2>2. shmKey \in Ids /\ semKey \in Ids
    BY <2>1 DEF Working, Whole
  <2>3. Current(p)
    BY <1>0, <2>1, <2>2 DEF Fits, Halfway, Current
  <2>4. Live(p) /\ Alive /\ p \in Attached
    BY <1>0, <2>2, <2>3 DEF Live, Current, Alive, Attached
  <2> QED BY <2>1, <2>2, <2>3, <2>4, ContinuesAlone
(* What is left to show of them.                                              *)
<1>3. ASSUME Works, call' = call, h' = h, UNCHANGED <<shmKey, segSize, semKey>>,
             NEW l \in WorkStages \cup {"idle"}, pc' = [pc EXCEPT ![p] = l],
             l = "idle" => Whole(1)', l # "idle" => Working(p)'
      PROVE  SerialInv'
  <2>1. pc'[p] = l /\ \A q \in Procs \ {p} : pc'[q] = pc[q]
    BY <1>0, <1>3
  <2>2. Fits(p)'
    BY <1>3, <2>1 DEF Fits, Current, Halfway
  <2>3. (\A q \in Procs \ {p} : Resting(q)) /\ h'[p].open /\ h'[p].sem = semKey' /\ call'[p] \in {"push", "pop", "print"}
    BY <1>3
  <2> HIDE DEF Works
  <2> QED BY <1>3, <2>1, <2>2, <2>3, <1>g, SerialKept DEF SerialPart, Resting, AttachStages, WorkStages, RmStages
<1>4. CASE ReadCount(p)
  <2> DEFINE c == Getval(p, COUNT)
             w == CASE pc[p] = "spin" -> 0 [] pc[p] = "sleep" -> -1 [] OTHER -> h[p].wait
  <2>1. pc[p] \in {"count", "spin", "sleep"} /\ call' = call /\ h' = h
        /\ UNCHANGED <<shmKey, segSize, mem, semKey, sem>> /\ loc' = [loc EXCEPT ![p].count = c]
        /\ \/ (~Refused(p, c) \/ w \notin -1..1) /\ Go(p, "lock") /\ UNCHANGED res
           \/ Refused(p, c) /\ w = 0 /\ Go(p, "spin") /\ UNCHANGED res
           \/ Refused(p, c) /\ w = 1 /\ Go(p, "sleep") /\ UNCHANGED res
           \/ /\ Refused(p, c) /\ w = -1 /\ Go(p, "idle")
              /\ res' = [res EXCEPT ![p] = Outcome(IF call[p] = "push" THEN "full" ELSE "empty", NoVal)]
    BY <1>4 DEF ReadCount, shmVars, semVars
  <2>2. Works
    BY <1>2, <2>1 DEF WorkStages
  <2>3. Whole(1) /\ loc[p].size = sem[SIZE] /\ c = sem[COUNT] /\ (call[p] = "push" => loc[p].val \in Vals)
    BY <2>1, <2>2 DEF Working, Getval
  <2>4. w \in -1..1
    <3>1. h[p].wait \in Waits \cup {-1}
      BY <1>0 DEF Handles
    <3> QED BY <3>1 DEF SerialUse
  <2>5. loc'[p].size = loc[p].size /\ loc'[p].val = loc[p].val /\ loc'[p].count = c
    BY <1>0, <2>1 DEF Locals
  <2> HIDE DEF c, w, Works
  <2>6. Whole(1)'
    BY <2>1, <2>3 DEF Whole
  <2>7. CASE ~Refused(p, c) /\ Go(p, "lock") /\ UNCHANGED res
    <3>1. sem[SIZE] \in Nat /\ sem[COUNT] \in Nat /\ sem[COUNT] <= sem[SIZE]
      BY <1>0, <2>3, SerialFacts DEF Whole
    <3>2. /\ call[p] = "push" => loc'[p].count < sem'[SIZE]
          /\ call[p] = "pop" => loc'[p].count > 0
      BY <2>1, <2>3, <2>5, <2>7, <3>1 DEF Refused
    <3>3. pc'[p] = "lock"
      BY <1>0, <2>7 DEF Go
    <3>4. Working(p)'
      BY <2>1, <2>2, <2>3, <2>5, <2>6, <3>2, <3>3 DEF Working, Works
    <3>5. SerialInv'
      BY <1>3, <2>1, <2>2, <2>7, <3>4 DEF Go, WorkStages
    <3> QED BY <2>1, <2>7, <3>5, AbsSame, AttachedSame DEF Top0, Cap0, Alive
  <2>8. ASSUME NEW l \in {"spin", "sleep"}, Go(p, l), UNCHANGED res PROVE SerialInv' /\ [Abs!Next]_(Abs!vars)
    <3>1. pc'[p] = l
      BY <1>0, <2>8 DEF Go
    <3>2. Working(p)'
      BY <2>1, <2>2, <2>3, <2>5, <2>6, <3>1 DEF Working, Works
    <3>3. SerialInv'
      BY <1>3, <2>1, <2>2, <2>8, <3>2 DEF Go, WorkStages
    <3> QED BY <2>1, <2>8, <3>3, AbsSame, AttachedSame DEF Top0, Cap0, Alive
  <2>9. CASE /\ Refused(p, c) /\ w = -1 /\ Go(p, "idle")
             /\ res' = [res EXCEPT ![p] = Outcome(IF call[p] = "push" THEN "full" ELSE "empty", NoVal)]
    <3>1. SerialInv'
      BY <1>3, <2>1, <2>2, <2>6, <2>9 DEF Go
    <3>2. Top0 = sem[COUNT] /\ Cap0 = sem[SIZE] /\ Top0' = Top0 /\ Cap0' = Cap0 /\ Cap0 # 0 /\ Top0 \in Nat
      BY <1>0, <2>1, <2>2, <2>3, SerialFacts DEF Works, Top0, Cap0, Alive, Whole
    <3> DEFINE stk == [k \in 1..Top0 |-> mem[shmKey][k - 1]]
    <3>3. stk' = stk
      BY <2>1, <3>2
    <3>4. Len(stk) = Top0 /\ (Top0 = 0 => stk = <<>>)
      BY <3>2
    <3>a. p \in Attached /\ Attached' = Attached
      BY <2>1, <2>2, AttachedSame DEF Works
    <3>5. CASE call[p] = "push"
      <4>1. Len(stk) = Cap0
        BY <2>3, <2>9, <3>2, <3>4, <3>5 DEF Refused
      <4>2. Abs!PushFull(p)
        BY <2>9, <3>2, <3>3, <3>5, <3>a, <4>1 DEF Abs!PushFull, Cap0, Top0, Outcome, NoVal, Abs!Outcome, Abs!NoVal
      <4> QED BY <3>1, <4>2 DEF Abs!Next
    <3>6. CASE call[p] # "push"
      <4>1. stk = <<>>
        BY <2>3, <2>9, <3>2, <3>4, <3>6 DEF Refused
      <4>2. Abs!PopEmpty(p)
        BY <2>9, <3>2, <3>3, <3>6, <3>a, <4>1 DEF Abs!PopEmpty, Cap0, Top0, Outcome, NoVal, Abs!Outcome, Abs!NoVal
      <4> QED BY <3>1, <4>2 DEF Abs!Next
    <3> QED BY <3>5, <3>6
  <2> QED BY <2>1, <2>4, <2>7, <2>8, <2>9
<1>5. CASE Lock(p)
  <2>1. pc[p] = "lock" /\ call' = call /\ h' = h /\ UNCHANGED <<shmKey, segSize, mem, semKey, loc, res>>
        /\ pc' = [pc EXCEPT ![p] = "access"]
    BY <1>5 DEF Lock, shmVars, history, Go
  <2>2. Works
    BY <1>2, <2>1 DEF WorkStages
  <2>3. Whole(1)
    BY <2>1, <2>2 DEF Working
  <2>4. sem' = [sem EXCEPT ![2] = 0]
    BY <1>0, <1>5, <2>2, <2>3, ConstantsAssumption DEF Lock, Semop, Whole
  <2>5. sem'[0] = sem[0] /\ sem'[1] = sem[1] /\ sem'[2] = 0 /\ Whole(0)' /\ pc'[p] = "access"
    BY <1>0, <2>1, <2>3, <2>4 DEF Whole
  <2>6. Working(p)'
    BY <1>0, <2>1, <2>2, <2>5 DEF Working
  <2>7. SerialInv'
    BY <1>3, <2>1, <2>2, <2>6 DEF WorkStages
  <2> QED BY <1>0, <2>1, <2>5, <2>7, AbsSame, AttachedSame DEF Top0, Cap0, Alive
<1>6. CASE PushWrite(p)
  <2>1. pc[p] = "access" /\ call[p] = "push" /\ call' = call /\ UNCHANGED <<shmKey, segSize, semKey, sem, loc, res>>
    BY <1>6 DEF PushWrite, At, semVars, history
  <2>2. Works
    BY <1>2, <2>1 DEF WorkStages
  <2>3. /\ Whole(0) /\ loc[p].count = sem[COUNT] /\ loc[p].count < sem[SIZE] /\ loc[p].val \in Vals
        /\ loc[p].size = sem[SIZE] /\ sem[COUNT] \in Nat
    BY <1>0, <2>1, <2>2 DEF Working
  <2>4. Inside(p, loc[p].count) /\ loc[p].count \in DOMAIN mem[shmKey]
    BY <2>2, <2>3, CountInside
  <2>5. /\ mem' = [mem EXCEPT ![shmKey][loc[p].count] = loc[p].val] /\ h' = h
        /\ pc' = [pc EXCEPT ![p] = "move"]
    BY <1>6, <2>2, <2>4 DEF PushWrite, Current, Go
  <2>6. /\ mem'[shmKey][loc[p].count] = loc[p].val
        /\ \A k \in Int : k # loc[p].count => mem'[shmKey][k] = mem[shmKey][k]
    <3>1. DOMAIN mem = Ids /\ shmKey \in Ids
      BY <2>2 DEF TypeInv, TypeOK, ShmType
    <3>2. mem'[shmKey] = [mem[shmKey] EXCEPT ![loc[p].count] = loc[p].val]
      BY <2>5, <3>1
    <3> QED BY <2>4, <3>2
  <2>7. Working(p)'
    <3>1. Whole(0)' /\ pc'[p] = "move"
      BY <1>0, <2>1, <2>3, <2>5 DEF Whole
    <3> QED BY <2>1, <2>2, <2>3, <2>5, <2>6, <3>1 DEF Working
  <2>8. SerialInv'
    BY <1>3, <2>1, <2>2, <2>5, <2>7 DEF WorkStages
  <2>9. Top0 = sem[COUNT] /\ Top0' = Top0 /\ Cap0' = Cap0
    BY <2>1, <2>2 DEF Top0, Cap0, Alive
  <2>10. \A k \in 1..Top0 : mem'[shmKey'][k - 1] = mem[shmKey][k - 1]
    BY <2>1, <2>3, <2>6, <2>9
  <2> QED BY <2>1, <2>5, <2>8, <2>9, <2>10, AbsSame, AttachedSame
<1>7. CASE PopRead(p)
  <2>1. pc[p] = "access" /\ call[p] = "pop" /\ call' = call /\ UNCHANGED <<shmKey, segSize, mem, semKey, sem, res>>
    BY <1>7 DEF PopRead, At, shmVars, semVars, history
  <2>2. Works
    BY <1>2, <2>1 DEF WorkStages
  <2>3. /\ Whole(0) /\ loc[p].count = sem[COUNT] /\ loc[p].count > 0 /\ sem[COUNT] <= sem[SIZE]
        /\ loc[p].size = sem[SIZE] /\ sem[COUNT] \in Nat /\ sem[SIZE] \in Nat
    BY <1>0, <2>1, <2>2 DEF Working, Whole
  <2>4. Inside(p, loc[p].count - 1)
    <3>1. loc[p].count - 1 \in Nat /\ loc[p].count - 1 < sem[SIZE]
      BY <2>3
    <3> QED BY <2>2, <2>3, <3>1, CountInside
  <2>5. /\ loc' = [loc EXCEPT ![p].val = mem[shmKey][loc[p].count - 1]] /\ h' = h
        /\ pc' = [pc EXCEPT ![p] = "move"]
    BY <1>7, <2>2, <2>4 DEF PopRead, Current, Go
  <2>6. loc'[p].size = loc[p].size /\ loc'[p].count = loc[p].count /\ loc'[p].val = mem[shmKey][loc[p].count - 1]
    BY <1>0, <2>5 DEF Locals
  <2>7. Working(p)'
    <3>1. Whole(0)' /\ pc'[p] = "move"
      BY <1>0, <2>1, <2>3, <2>5 DEF Whole
    <3> QED BY <2>1, <2>2, <2>3, <2>5, <2>6, <3>1 DEF Working
  <2>8. SerialInv'
    BY <1>3, <2>1, <2>2, <2>5, <2>7 DEF WorkStages
  <2> QED BY <2>1, <2>5, <2>8, AbsSame, AttachedSame DEF Top0, Cap0, Alive
<1>8. CASE PrintRead(p)
  <2>1. pc[p] = "access" /\ call[p] = "print" /\ call' = call
        /\ UNCHANGED <<shmKey, segSize, mem, semKey, sem, loc, res>>
    BY <1>8 DEF PrintRead, At, shmVars, semVars, history
  <2>2. Works
    BY <1>2, <2>1 DEF WorkStages
  <2>3. /\ Whole(0) /\ loc[p].count = sem[COUNT] /\ sem[COUNT] <= sem[SIZE]
        /\ loc[p].size = sem[SIZE] /\ sem[COUNT] \in Nat /\ sem[SIZE] \in Nat
    BY <1>0, <2>1, <2>2 DEF Working, Whole
  <2>4. \A k \in 0..(loc[p].count - 1) : Inside(p, k)
    <3> TAKE k \in 0..(loc[p].count - 1)
    <3>1. k \in Nat /\ k < sem[SIZE]
      BY <2>3
    <3> QED BY <2>2, <2>3, <3>1, CountInside
  <2>5. h' = h /\ pc' = [pc EXCEPT ![p] = "unlock"]
    BY <1>8, <2>4 DEF PrintRead, Go
  <2>6. Working(p)'
    <3>1. Whole(0)' /\ pc'[p] = "unlock"
      BY <1>0, <2>1, <2>3, <2>5 DEF Whole
    <3> QED BY <2>1, <2>2, <2>3, <2>5, <3>1 DEF Working
  <2>7. SerialInv'
    BY <1>3, <2>1, <2>2, <2>5, <2>6 DEF WorkStages
  <2> QED BY <2>1, <2>5, <2>7, AbsSame, AttachedSame DEF Top0, Cap0, Alive
<1>9. CASE PushInc(p)
  <2>1. /\ pc[p] = "move" /\ call[p] = "push" /\ call' = call /\ h' = h
        /\ UNCHANGED <<shmKey, segSize, mem, semKey, loc>> /\ pc' = [pc EXCEPT ![p] = "unlock"]
        /\ res' = [res EXCEPT ![p] = Outcome("pushed", loc[p].val)]
    BY <1>9 DEF PushInc, At, shmVars, Go
  <2>2. Works
    BY <1>2, <2>1 DEF WorkStages
  <2>3. /\ Whole(0) /\ loc[p].count = sem[COUNT] /\ loc[p].count < sem[SIZE] /\ loc[p].val \in Vals
        /\ loc[p].size = sem[SIZE] /\ sem[COUNT] \in Nat /\ mem[shmKey][loc[p].count] = loc[p].val
        /\ sem[SIZE] \in Nat /\ sem[SIZE] <= SemMax
    BY <1>0, <2>1, <2>2, SerialFacts DEF Working, Whole
  <2>4. sem' = [sem EXCEPT ![1] = sem[1] + 1]
    BY <1>0, <1>9, <2>2, <2>3, ConstantsAssumption DEF PushInc, Semop
  <2>5. sem'[0] = sem[0] /\ sem'[1] = sem[1] + 1 /\ sem'[2] = sem[2] /\ Whole(0)' /\ pc'[p] = "unlock"
    BY <1>0, <2>1, <2>3, <2>4 DEF Whole
  <2>6. Working(p)'
    BY <1>0, <2>1, <2>2, <2>3, <2>5 DEF Working
  <2>7. SerialInv'
    BY <1>3, <2>1, <2>2, <2>6 DEF WorkStages
  <2> DEFINE n == sem[COUNT]
             stk == [k \in 1..Top0 |-> mem[shmKey][k - 1]]
  <2>8. Top0 = n /\ Top0' = n + 1 /\ Cap0 = sem[SIZE] /\ Cap0' = Cap0 /\ n \in Nat
    BY <1>0, <2>1, <2>2, <2>3, <2>5 DEF Top0, Cap0, Alive
  <2>9. stk' = Append(stk, loc[p].val) /\ Len(stk) = n
    <3>1. stk = [k \in 1..n |-> mem[shmKey][k - 1]] /\ stk' = [k \in 1..(n + 1) |-> mem[shmKey][k - 1]]
      BY <2>1, <2>8
    <3>2. mem[shmKey][n + 1 - 1] = loc[p].val
      BY <2>3, <2>8
    <3> HIDE DEF n, stk
    <3> QED BY <2>8, <3>1, <3>2
  <2>a. p \in Attached /\ Attached' = Attached
    BY <2>1, <2>2, AttachedSame
  <2>10. Abs!Push(p)
    BY <2>1, <2>3, <2>8, <2>9, <2>a, ZenonT(30) DEF Abs!Push, Cap0, Top0, Outcome, Abs!Outcome
  <2> QED BY <2>7, <2>10 DEF Abs!Next
<1>10. CASE PopDec(p)
  <2>1. /\ pc[p] = "move" /\ call[p] = "pop" /\ call' = call /\ h' = h
        /\ UNCHANGED <<shmKey, segSize, mem, semKey, loc>> /\ pc' = [pc EXCEPT ![p] = "unlock"]
        /\ res' = [res EXCEPT ![p] = Outcome("popped", loc[p].val)]
    BY <1>10 DEF PopDec, At, shmVars, Go
  <2>2. Works
    BY <1>2, <2>1 DEF WorkStages
  <2>3. /\ Whole(0) /\ loc[p].count = sem[COUNT] /\ loc[p].count > 0 /\ sem[COUNT] \in 0..SemMax
        /\ loc[p].size = sem[SIZE] /\ sem[COUNT] \in Nat /\ mem[shmKey][loc[p].count - 1] = loc[p].val
        /\ sem[SIZE] \in Nat
    BY <1>0, <2>1, <2>2, SerialFacts DEF Working, Whole
  <2>4. sem' = [sem EXCEPT ![1] = sem[1] - 1]
    BY <1>0, <1>10, <2>2, <2>3, ConstantsAssumption DEF PopDec, Semop
  <2>5. sem'[0] = sem[0] /\ sem'[1] = sem[1] - 1 /\ sem'[2] = sem[2] /\ Whole(0)' /\ pc'[p] = "unlock"
    BY <1>0, <2>1, <2>3, <2>4 DEF Whole
  <2>6. Working(p)'
    BY <1>0, <2>1, <2>2, <2>3, <2>5 DEF Working
  <2>7. SerialInv'
    BY <1>3, <2>1, <2>2, <2>6 DEF WorkStages
  <2> DEFINE n == sem[COUNT]
             stk == [k \in 1..Top0 |-> mem[shmKey][k - 1]]
  <2>8. Top0 = n /\ Top0' = n - 1 /\ Cap0' = Cap0 /\ n \in Nat /\ n > 0
    BY <1>0, <2>1, <2>2, <2>3, <2>5 DEF Top0, Cap0, Alive
  <2>9. stk' = SubSeq(stk, 1, Len(stk) - 1) /\ stk[Len(stk)] = loc[p].val /\ stk # <<>>
    <3>1. stk = [k \in 1..n |-> mem[shmKey][k - 1]] /\ stk' = [k \in 1..(n - 1) |-> mem[shmKey][k - 1]]
      BY <2>1, <2>8
    <3>2. mem[shmKey][n - 1] = loc[p].val
      BY <2>3, <2>8
    <3> HIDE DEF n, stk
    <3> QED BY <2>8, <3>1, <3>2
  <2>a. p \in Attached /\ Attached' = Attached
    BY <2>1, <2>2, AttachedSame
  <2>10. Abs!Pop(p)
    BY <2>1, <2>3, <2>8, <2>9, <2>a DEF Abs!Pop, Cap0, Top0, Outcome, Abs!Outcome
  <2> QED BY <2>7, <2>10 DEF Abs!Next
<1>11. CASE Unlock(p)
  <2>1. pc[p] = "unlock" /\ call' = call /\ h' = h /\ UNCHANGED <<shmKey, segSize, mem, semKey, loc, res>>
        /\ pc' = [pc EXCEPT ![p] = "idle"]
    BY <1>11 DEF Unlock, shmVars, history, Go
  <2>2. Works
    BY <1>2, <2>1 DEF WorkStages
  <2>3. Whole(0)
    BY <2>1, <2>2 DEF Working
  <2>4. sem' = [sem EXCEPT ![2] = 1]
    BY <1>0, <1>11, <2>2, <2>3, ConstantsAssumption DEF Unlock, Semop, Whole
  <2>5. sem'[0] = sem[0] /\ sem'[1] = sem[1] /\ Whole(1)'
    BY <1>0, <2>1, <2>3, <2>4 DEF Whole
  <2>6. SerialInv'
    BY <1>3, <2>1, <2>2, <2>5
  <2> QED BY <1>0, <2>1, <2>5, <2>6, AbsSame, AttachedSame DEF Top0, Cap0, Alive
<1> QED BY <1>1, <1>4, <1>5, <1>6, <1>7, <1>8, <1>9, <1>10, <1>11

(* push, pop and print with a handle for a stack that somebody has destroyed: *)
(* every semctl and semop fails, and the stack of the key stays as it is.     *)
LEMMA StrayStep ==
  ASSUME SerialUse, TypeInv, SerialInv, NEW p \in Procs, h[p].sem # semKey,
         \/ Enter(p) \/ ReadCount(p) \/ Lock(p) \/ PushWrite(p) \/ PopRead(p) \/ PrintRead(p)
         \/ PushInc(p) \/ PopDec(p) \/ Unlock(p)
  PROVE  SerialInv' /\ [Abs!Next]_(Abs!vars)
<1>0. /\ NoId \notin Ids /\ (\A id \in Ids : id \in Nat /\ id > 0) /\ COUNT = 1 /\ MUTEX = 2
      /\ h \in [Procs -> Handles] /\ loc \in [Procs -> Locals]
      /\ call \in [Procs -> Ops \cup {"none"}] /\ pc \in [Procs -> Places]
  BY SerialFacts
<1>g. Given'
  <2>1. Step(p)
    BY DEF Step, Continue
  <2> QED BY <2>1, GivenStep DEF SerialInv
<1>l. ~Live(p)
  BY DEF Live
(* What is left to show of them.                                              *)
<1> DEFINE Same == UNCHANGED <<shmKey, segSize, mem, semKey, sem>>
           Alone == /\ h[p].open /\ Fits(p) /\ (Whole(1) \/ Gone) /\ pc[p] \notin RmStages
                    /\ \A q \in Procs \ {p} : Resting(q)
<1>1. ASSUME Same, Alone, h' = h, call'[p] \in {"push", "pop", "print"},
             NEW l \in WorkStages \cup {"idle"}, pc' = [pc EXCEPT ![p] = l],
             l # "idle" => Straying(p)',
             \/ res' = res
             \/ \E op \in {"full", "popped"} : res' = [res EXCEPT ![p] = Outcome(op, NoVal)]
      PROVE  SerialInv' /\ [Abs!Next]_(Abs!vars)
  <2>1. pc'[p] = l /\ \A q \in Procs \ {p} : pc'[q] = pc[q] /\ h'[q] = h[q]
    BY <1>0, <1>1
  <2>2. Fits(p)' /\ (Whole(1)' \/ Gone') /\ h'[p].open /\ h'[p].sem # semKey'
    BY <1>1, <2>1 DEF Fits, Halfway, Whole, Gone
  <2>3. SerialInv'
    BY <1>1, <2>1, <2>2, <1>g, SerialKept DEF SerialPart, Resting, AttachStages, WorkStages, RmStages
  <2>4. p \notin Attached
    BY <1>0, <1>1 DEF Attached, Fits, Halfway, Whole, Gone
  <2>5. Attached' = Attached /\ Top0' = Top0 /\ Cap0' = Cap0
    BY <1>1, AttachedSame DEF Top0, Cap0, Alive
  <2>6. CASE res' = res
    BY <1>1, <2>3, <2>5, <2>6, AbsSame
  <2>7. CASE \E op \in {"full", "popped"} : res' = [res EXCEPT ![p] = Outcome(op, NoVal)]
    <3>1. Abs!Estranged(p)
      BY <1>1, <2>4, <2>5, <2>7 DEF Abs!Estranged, Alive, Abs!Outcome, Outcome, Abs!NoVal, NoVal
    <3> QED BY <2>3, <3>1 DEF Abs!Next
  <2> QED BY <1>1, <2>6, <2>7
<1>2. ASSUME pc[p] \in WorkStages PROVE Alone /\ Straying(p) /\ call[p] \in {"push", "pop", "print"}
  <2>1. SerialPart(p) /\ ~Resting(p) /\ pc[p] \notin RmStages
    BY <1>2 DEF SerialInv, WorkStages, Resting, RmStages
  <2>2. h[p].open /\ Straying(p) /\ call[p] \in {"push", "pop", "print"}
    BY <1>2, <2>1 DEF SerialPart
  <2> QED BY <2>1, <2>2, ContinuesAlone DEF SerialPart, Straying
<1>3. CASE Enter(p)
  <2>1. PICK o \in {"push", "pop", "print"} :
          /\ Begin(p, o) /\ pc' = [pc EXCEPT ![p] = "count"] /\ Same /\ h' = h /\ res' = res
          /\ loc' = [loc EXCEPT ![p] = [size |-> Getval(p, SIZE), count |-> 0,
                       val |-> IF o = "push" THEN <<p, calls[p] + 1>> ELSE NoVal]]
    BY <1>3 DEF Enter, shmVars, semVars, history, Go
  <2>2. Alone
    <3>1. pc[p] = "idle" /\ (\A q \in Procs \ {p} : Resting(q)) /\ (Whole(1) \/ Gone) /\ h[p].open /\ Fits(p)
      BY <2>1, BeginsAlone
    <3> QED BY <3>1 DEF RmStages
  <2>3. call'[p] = o /\ pc'[p] = "count" /\ loc'[p].size = -1 /\ (o # "push" => loc'[p].val = NoVal)
    BY <1>0, <1>l, <2>1 DEF Begin, Getval
  <2>4. Straying(p)'
    BY <2>1, <2>2, <2>3 DEF Straying, Whole, Gone
  <2> QED BY <1>1, <2>1, <2>2, <2>3, <2>4 DEF WorkStages
<1>4. CASE ReadCount(p)
  <2> DEFINE w == CASE pc[p] = "spin" -> 0 [] pc[p] = "sleep" -> -1 [] OTHER -> h[p].wait
  <2>1. pc[p] \in {"count", "spin", "sleep"} /\ call' = call /\ h' = h /\ Same
        /\ loc' = [loc EXCEPT ![p].count = -1]
        /\ \/ (~Refused(p, -1) \/ w \notin -1..1) /\ Go(p, "lock") /\ UNCHANGED res
           \/ Refused(p, -1) /\ w = 0 /\ Go(p, "spin") /\ UNCHANGED res
           \/ Refused(p, -1) /\ w = 1 /\ Go(p, "sleep") /\ UNCHANGED res
           \/ /\ Refused(p, -1) /\ w = -1 /\ Go(p, "idle")
              /\ res' = [res EXCEPT ![p] = Outcome(IF call[p] = "push" THEN "full" ELSE "empty", NoVal)]
    <3>1. Getval(p, COUNT) = -1
      BY <1>l DEF Getval
    <3> QED BY <1>4, <3>1 DEF ReadCount, shmVars, semVars
  <2>2. Alone /\ Straying(p) /\ call[p] \in {"push", "pop", "print"}
    BY <1>2, <2>1 DEF WorkStages
  <2>3. w \in -1..1
    <3>1. h[p].wait \in Waits \cup {-1}
      BY <1>0 DEF Handles
    <3> QED BY <3>1 DEF SerialUse
  <2>4. loc'[p].size = -1 /\ loc'[p].val = loc[p].val /\ loc'[p].count = -1
    BY <1>0, <2>1, <2>2 DEF Locals, Straying
  <2>5. Refused(p, -1) <=> call[p] = "push"
    BY <2>2 DEF Refused, Straying
  <2> HIDE DEF w
  <2>6. CASE call[p] # "push"
    <3>1. pc' = [pc EXCEPT ![p] = "lock"] /\ res' = res
      BY <2>1, <2>3, <2>5, <2>6 DEF Go
    <3>2. Straying(p)'
      BY <1>0, <2>1, <2>2, <2>4, <2>6, <3>1 DEF Straying, Whole, Gone
    <3> QED BY <1>1, <2>1, <2>2, <3>1, <3>2 DEF WorkStages
  <2>7. ASSUME NEW l \in {"spin", "sleep"}, Go(p, l), UNCHANGED res, call[p] = "push"
        PROVE  SerialInv' /\ [Abs!Next]_(Abs!vars)
    <3>1. pc' = [pc EXCEPT ![p] = l] /\ pc'[p] = l
      BY <1>0, <2>7 DEF Go
    <3>2. Straying(p)'
      BY <2>1, <2>2, <2>4, <2>7, <3>1 DEF Straying, Whole, Gone
    <3> QED BY <1>1, <2>1, <2>2, <2>7, <3>1, <3>2 DEF WorkStages
  <2>8. CASE call[p] = "push" /\ Go(p, "idle") /\ res' = [res EXCEPT ![p] = Outcome("full", NoVal)]
    BY <1>1, <2>1, <2>2, <2>8 DEF Go
  <2> QED BY <2>1, <2>3, <2>5, <2>6, <2>7, <2>8
<1>5. CASE Lock(p)
  <2>1. pc[p] = "lock" /\ call' = call /\ h' = h /\ UNCHANGED <<shmKey, segSize, mem, semKey, loc, res>>
        /\ pc' = [pc EXCEPT ![p] = "access"] /\ sem' = sem
    BY <1>5, <1>l DEF Lock, Semop, shmVars, history, Go
  <2>2. Alone /\ Straying(p) /\ call[p] \in {"push", "pop", "print"}
    BY <1>2, <2>1 DEF WorkStages
  <2>3. Straying(p)'
    BY <1>0, <2>1, <2>2 DEF Straying, Whole, Gone
  <2> QED BY <1>1, <2>1, <2>2, <2>3 DEF WorkStages
<1>6. CASE PushWrite(p) \/ PushInc(p)
  <2>1. pc[p] \in {"access", "move"} /\ call[p] = "push"
    BY <1>6 DEF PushWrite, PushInc, At
  <2> QED BY <1>2, <2>1 DEF WorkStages, Straying
<1>7. CASE PopRead(p)
  <2>1. pc[p] = "access" /\ call[p] = "pop" /\ call' = call /\ Same /\ res' = res
    BY <1>7 DEF PopRead, At, shmVars, semVars, history
  <2>2. Alone /\ Straying(p)
    BY <1>2, <2>1 DEF WorkStages
  <2>3. ~Inside(p, loc[p].count - 1)
    <3>1. loc[p].count = -1
      BY <2>1, <2>2 DEF Straying
    <3>2. h[p].map \in Ids
      BY <2>2 DEF Fits
    <3>3. mem[h[p].map] \in [0..(Slots(segSize[h[p].map]) - 1) -> Vals \cup {NoVal}]
      BY <3>2 DEF TypeInv, TypeOK, ShmType
    <3> DEFINE n == Slots(segSize[h[p].map]) - 1
    <3>4. DOMAIN mem[h[p].map] = 0..n
      BY <3>3
    <3> HIDE DEF n
    <3>5. -1 - 1 \notin 0..n
      OBVIOUS
    <3> QED BY <3>1, <3>4, <3>5 DEF Inside
  <2>4. loc' = loc /\ Stray(p, "move")
    BY <1>7, <2>3 DEF PopRead
  <2>5. CASE pc' = [pc EXCEPT ![p] = "move"] /\ h' = h
    <3>1. Straying(p)'
      BY <1>0, <2>1, <2>2, <2>4, <2>5 DEF Straying, Whole, Gone
    <3> QED BY <1>1, <2>1, <2>2, <2>5, <3>1 DEF WorkStages
  <2>6. CASE pc' = [pc EXCEPT ![p] = "dead"] /\ h' = [h EXCEPT ![p] = Closed]
    <3>1. pc'[p] = "dead" /\ h'[p] = Closed /\ \A q \in Procs \ {p} : pc'[q] = pc[q] /\ h'[q] = h[q]
      BY <1>0, <2>6
    <3>2. Whole(1)' \/ Gone'
      BY <2>1, <2>2 DEF Whole, Gone
    <3>3. SerialInv'
      BY <2>1, <2>2, <3>1, <3>2, <1>g, SerialKept DEF SerialPart, Resting, Closed, AttachStages, WorkStages, RmStages
    <3>4. p \notin Attached
      BY <1>0, <2>2 DEF Attached, Fits, Halfway, Whole, Gone
    <3>5. Attached' = Attached
      BY <1>0, <2>1, <3>1, <3>4 DEF Attached, Closed
    <3> QED BY <2>1, <3>3, <3>5, AbsSame DEF Top0, Cap0, Alive
  <2> QED BY <2>4, <2>5, <2>6 DEF Stray, Go
<1>8. CASE PrintRead(p)
  <2>1. pc[p] = "access" /\ call[p] = "print" /\ call' = call /\ Same /\ res' = res /\ loc' = loc
    BY <1>8 DEF PrintRead, At, shmVars, semVars, history
  <2>2. Alone /\ Straying(p)
    BY <1>2, <2>1 DEF WorkStages
  <2>3. loc[p].count = -1
    BY <2>1, <2>2 DEF Straying
  <2>4. h' = h /\ pc' = [pc EXCEPT ![p] = "unlock"]
    BY <1>8, <2>3 DEF PrintRead, Go
  <2>5. Straying(p)'
    BY <1>0, <2>1, <2>2, <2>4 DEF Straying, Whole, Gone
  <2> QED BY <1>1, <2>1, <2>2, <2>4, <2>5 DEF WorkStages
<1>9. CASE PopDec(p)
  <2>1. /\ pc[p] = "move" /\ call[p] = "pop" /\ call' = call /\ h' = h /\ sem' = sem
        /\ UNCHANGED <<shmKey, segSize, mem, semKey, loc>> /\ pc' = [pc EXCEPT ![p] = "unlock"]
        /\ res' = [res EXCEPT ![p] = Outcome("popped", loc[p].val)]
    BY <1>9, <1>l DEF PopDec, Semop, At, shmVars, Go
  <2>2. Alone /\ Straying(p) /\ loc[p].val = NoVal
    BY <1>2, <2>1 DEF WorkStages, Straying
  <2>3. Straying(p)'
    BY <1>0, <2>1, <2>2 DEF Straying, Whole, Gone
  <2> QED BY <1>1, <2>1, <2>2, <2>3 DEF WorkStages
<1>10. CASE Unlock(p)
  <2>1. pc[p] = "unlock" /\ call' = call /\ h' = h /\ UNCHANGED <<shmKey, segSize, mem, semKey, loc, res>>
        /\ pc' = [pc EXCEPT ![p] = "idle"] /\ sem' = sem
    BY <1>10, <1>l DEF Unlock, Semop, shmVars, history, Go
  <2>2. Alone /\ call[p] \in {"push", "pop", "print"}
    BY <1>2, <2>1 DEF WorkStages
  <2> QED BY <1>1, <2>1, <2>2
<1> QED BY <1>3, <1>4, <1>5, <1>6, <1>7, <1>8, <1>9, <1>10

(* Every step keeps the invariant and is an abstract step or none.            *)
LEMMA SerialStep ==
  ASSUME SerialUse, TypeInv /\ SerialInv, [Next]_vars
  PROVE  (TypeInv /\ SerialInv)' /\ [Abs!Next]_(Abs!vars)
<1>1. CASE UNCHANGED vars
  <2>1. TypeInv'
    BY <1>1, ShmSame, SemSame DEF TypeInv, TypeOK, ClientType, CreatesWithSize, vars, history
  <2>2. UNCHANGED <<shmKey, segSize, mem, nshm, semKey, sem, nsem, h, call, pc, loc, res>>
    BY <1>1 DEF vars, shmVars, semVars, history
  <2>3. SerialInv'
    BY <2>2 DEF SerialInv, SerialPart, Attaching, Destroying, Working, Straying, Whole, Gone, Halfway,
                Fits, Given, Resting
  <2> QED BY <2>1, <2>2, <2>3, AbsSame, AttachedSame DEF Top0, Cap0, Alive
<1>2. CASE Next
  <2>1. PICK p \in Procs : Step(p)
    BY <1>2 DEF Next
  <2>2. TypeInv'
    BY <2>1, TypeStep
  <2>3. ~Kill(p)
    BY DEF Kill, SerialUse
  <2>4. SerialInv' /\ [Abs!Next]_(Abs!vars)
    <3>1. CASE h[p].sem = semKey
      BY <2>1, <2>3, <3>1, AttachStep, HandleStep, WorkStep DEF Step, Continue
    <3>2. CASE h[p].sem # semKey
      BY <2>1, <2>3, <3>2, AttachStep, HandleStep, StrayStep DEF Step, Continue
    <3> QED BY <3>1, <3>2
  <2> QED BY <2>2, <2>4
<1> QED BY <1>1, <1>2

(* There is no stack at first.                                                *)
LEMMA SerialInit == SerialUse /\ Init => SerialInv /\ Abs!Init
<1> SUFFICES ASSUME SerialUse, Init PROVE SerialInv /\ Abs!Init
  OBVIOUS
<1>1. \A p \in Procs : pc[p] = "idle" /\ h[p] = Closed
  BY DEF Init, Idle
<1>2. Gone /\ ~Alive /\ Attached = {} /\ nshm = 0 /\ nsem = 0
  BY DEF Init, Gone, Alive, Attached
<1>3. SerialInv
  <2>1. Given
    BY <1>1, <1>2, ConstantsAssumption DEF SerialUse, Given, Gone, Closed, NoId
  <2> QED BY <1>1, <1>2, <2>1 DEF SerialInv, SerialPart, AttachStages, WorkStages, RmStages, Resting, Closed
<1>4. [k \in 1..0 |-> mem[shmKey][k - 1]] = <<>>
  OBVIOUS
<1>5. Abs!Init
  BY <1>2, <1>4 DEF Abs!Init, Init, Idle, Outcome, NoVal, Abs!Outcome, Abs!NoVal
<1> QED BY <1>3, <1>5

(* The invariant behind the next two: the one process that is in a call       *)
(* decides how far the stack that the key names is made, emptied or locked,   *)
(* and every handle is for that stack or for one that was destroyed.          *)
THEOREM SerialInvariant == SerialUse => (Spec => [](TypeInv /\ SerialInv))
<1> SUFFICES ASSUME SerialUse PROVE Spec => [](TypeInv /\ SerialInv)
  OBVIOUS
<1>1. Init => TypeInv /\ SerialInv
  BY TypeInit, SerialInit
<1>2. (TypeInv /\ SerialInv) /\ [Next]_vars => (TypeInv /\ SerialInv)'
  BY SerialStep
<1> QED BY <1>1, <1>2, PTL DEF Spec

(* HandlesWhole: with one call at a time no handle mixes two stacks, though   *)
(* mark_destruct (stack.c:53-55) destroys one that others have attached and   *)
(* attach_stack makes the next (stack.c:27-33); and the processes whose stack *)
(* is gone never touch the mutex of the one that the key names.               *)
THEOREM SerialHandles == SerialUse => (Spec => []HandlesWhole)
<1> SUFFICES ASSUME SerialUse PROVE Spec => []HandlesWhole
  OBVIOUS
<1>1. ASSUME TypeInv, SerialInv,
             \A p \in Procs : call[p] \in {"attach", "destruct"} => Resting(p)
      PROVE  /\ shmKey = NoId <=> semKey = NoId
             /\ \A p \in Procs : h[p].open => h[p].map = h[p].shm /\ (h[p].shm = shmKey <=> Live(p))
             /\ semKey # NoId => sem[MUTEX] = 1 - Cardinality({p \in Holders : Live(p)})
  <2> DEFINE InIt == {p \in Holders : Live(p)}
  <2>1. \A p \in Procs : Resting(p) \/ pc[p] \in WorkStages
    <3> SUFFICES ASSUME NEW p \in Procs, ~Resting(p) PROVE pc[p] \in WorkStages
      OBVIOUS
    <3>1. pc[p] \in AttachStages \cup WorkStages \cup RmStages
      BY <1>1, SerialFacts DEF Resting, Places, Stages, AttachStages, WorkStages, RmStages
    <3> QED BY <1>1, <3>1 DEF SerialInv, SerialPart, Attaching, Destroying
  <2>2. \A p \in Procs : pc[p] \notin RmStages
    BY <2>1 DEF Resting, WorkStages, RmStages
  <2>3. /\ Gone \/ \E m \in 0..1 : Whole(m)
        /\ semKey # NoId => sem[MUTEX] = 1 - Cardinality(InIt)
    <3>1. CASE \A p \in Procs : Resting(p)
      <4>1. Whole(1) \/ Gone
        BY <1>1, <3>1 DEF SerialInv
      <4>2. InIt = {}
        BY <3>1 DEF Holders, Resting
      <4> QED BY <4>1, <4>2, FS_EmptySet DEF Whole, Gone
    <3>2. ASSUME NEW p \in Procs, ~Resting(p)
          PROVE  /\ Gone \/ \E m \in 0..1 : Whole(m)
                 /\ semKey # NoId => sem[MUTEX] = 1 - Cardinality(InIt)
      <4>1. InIt \subseteq {p} /\ pc[p] \in WorkStages
        BY <1>1, <2>1, <3>2 DEF SerialInv, Holders, Resting
      <4>2. CASE h[p].sem = semKey /\ pc[p] \in {"access", "move", "unlock"}
        <5>1. Whole(0)
          BY <1>1, <4>1, <4>2 DEF SerialInv, SerialPart, Working
        <5>2. Live(p)
          BY <4>2, <5>1, <1>1, SerialFacts DEF Live, Whole
        <5>3. InIt = {p}
          BY <4>1, <4>2, <5>2 DEF Holders
        <5> HIDE DEF InIt
        <5> QED BY <5>1, <5>3, FS_Singleton DEF Whole
      <4>3. CASE h[p].sem # semKey \/ pc[p] \notin {"access", "move", "unlock"}
        <5>1. Whole(1) \/ Gone
          BY <1>1, <4>1, <4>3 DEF SerialInv, SerialPart, Working, Straying
        <5>2. InIt = {}
          BY <4>1, <4>3 DEF Holders, Live
        <5> HIDE DEF InIt
        <5> QED BY <5>1, <5>2, FS_EmptySet DEF Whole, Gone
      <4> QED BY <4>2, <4>3
    <3> QED BY <3>1, <3>2
  <2>4. (shmKey = NoId <=> semKey = NoId) /\ ~Halfway
    BY <1>1, <2>3, SerialFacts DEF Whole, Gone, Halfway
  <2>5. ASSUME NEW p \in Procs, h[p].open
        PROVE  h[p].map = h[p].shm /\ (h[p].shm = shmKey <=> Live(p))
    <3>1. Fits(p)
      BY <1>1, <2>5 DEF SerialInv, SerialPart
    <3> QED BY <1>1, <2>2, <2>4, <3>1, SerialFacts DEF Fits, Live
  <2> QED BY <2>3, <2>4, <2>5
<1>2. ASSUME TypeInv, SerialInv PROVE HandlesWhole
  BY <1>1, <1>2 DEF HandlesWhole, Resting
<1> QED BY <1>2, SerialInvariant, PTL

(* ImplementsStack: with one call at a time sh_stack is the bounded stack of  *)
(* stack.h:35-42 for those who have attached it.  The write of the pointer    *)
(* (stack.c:108) shows only with the count (stack.c:115), mark_destruct       *)
(* empties the stack with its first shmctl, whoever holds it, and             *)
(* attach_stack creates it when it sets SIZE.                                 *)
THEOREM SerialIsStack == SerialUse => (Spec => ImplementsStack)
<1> SUFFICES ASSUME SerialUse PROVE Spec => ImplementsStack
  OBVIOUS
<1>1. Init => Abs!Init
  BY SerialInit
<1>2. (TypeInv /\ SerialInv) /\ [Next]_vars => [Abs!Next]_(Abs!vars)
  BY SerialStep
<1> QED BY <1>1, <1>2, SerialInvariant, PTL DEF Spec, ImplementsStack, Abs!Spec
==============================================================================
