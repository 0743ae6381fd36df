------------------------------- MODULE ShStack -------------------------------
(***************************************************************************)
(* The shared-memory stack of sh_stack/stack.c: a System V segment holds   *)
(* the pointers, a System V set of three semaphores holds the size, the    *)
(* count and a mutex.  Every system call and every access to the segment   *)
(* is a step of its own, so that the processes interleave between them.    *)
(***************************************************************************)
EXTENDS Integers, FiniteSets, Sequences

CONSTANTS Procs,     \* the processes
          Menu,      \* Menu[p]: the functions p calls
          Waits,     \* the values passed to set_wait
          Sizes,     \* the sizes passed to attach_stack
          Page, Word, \* bytes of a page, bytes of a pointer
          SemMax,    \* SEMVMX, the largest value of a semaphore
          FirstId, MaxIds,  \* the kernel's first identifier, and how many it gives
          MaxCalls,  \* bound: calls a process makes
          Rule,      \* what the processes agree on: "any", "own", "serial"
          Mortal     \* whether a process may be killed in the middle of a call

Ops == {"attach", "detach", "destruct", "set_wait", "push", "pop", "print"}

ASSUME ConstantsAssumption ==
  /\ Menu \in [Procs -> SUBSET Ops]
  /\ Waits \subseteq Int /\ Sizes \subseteq Nat \ {0}
  /\ Page \in Nat \ {0} /\ Word \in 1..Page /\ SemMax \in Nat \ {0}
  /\ FirstId \in Nat /\ MaxIds \in Nat /\ MaxCalls \in Nat
  /\ Rule \in {"any", "own", "serial"} /\ Mortal \in BOOLEAN

SIZE == 0
COUNT == 1
MUTEX == 2
NoId == -1
NoVal == <<>>
Vals == Procs \X (1..MaxCalls)      \* the pointers: who pushed, in which call
Ids == FirstId..(FirstId + MaxIds - 1)
Outcome(o, v) == [op |-> o, val |-> v]

(* A segment is a whole number of pages, whatever size was asked for. *)
Slots(size) == ((size + Page - 1) \div Page) * (Page \div Word)

VARIABLES
  shmKey, segSize, mem, nshm,  \* the segment the key names; sizes, contents, number created
  semKey, sem, nsem,           \* the semaphore set the key names; its values, number created
  h,       \* h[p]: the struct stack_t of p (map: the attached segment, open: p holds the handle)
  call, pc, loc,               \* the function p is in, where, and its local variables
  calls,                       \* calls made, for the bound
  own, res                     \* history: completed pushes minus pops; last outcome

shmVars == <<shmKey, segSize, mem, nshm>>
semVars == <<semKey, sem, nsem>>
history == <<own, res>>
vars == <<shmVars, semVars, h, call, pc, loc, calls, history>>

Stages == {"get", "semget", "reset", "create", "semcreate", "set_size", "set_count",
           "set_mutex", "map", "count", "spin", "sleep", "lock", "access", "move",
           "unlock", "rm_shm", "rm_sem"}

Closed == [shm |-> NoId, sem |-> NoId, wait |-> -1, map |-> NoId, open |-> FALSE]
Zeros == [i \in SIZE..MUTEX |-> 0]
Blank(size) == [i \in 0..(Slots(size) - 1) |-> NoVal]

Idle == /\ call = [p \in Procs |-> "none"]
        /\ pc = [p \in Procs |-> "idle"]
        /\ loc = [p \in Procs |-> [size |-> 0, count |-> 0, val |-> NoVal]]
        /\ calls = [p \in Procs |-> 0]
        /\ own = [p \in Procs |-> 0]
        /\ res = [p \in Procs |-> Outcome("none", NoVal)]

(* No object has the key yet. *)
Init == /\ shmKey = NoId /\ nshm = 0
        /\ segSize = [i \in Ids |-> 0] /\ mem = [i \in Ids |-> Blank(0)]
        /\ semKey = NoId /\ sem = Zeros /\ nsem = 0
        /\ h = [p \in Procs |-> Closed]
        /\ Idle

(* Every process has attached an empty stack and chosen how it waits. *)
InitAttached ==
  \E size \in Sizes, w \in [Procs -> Waits] :
    /\ size <= SemMax /\ FirstId \in Ids
    /\ shmKey = FirstId /\ nshm = 1
    /\ segSize = [i \in Ids |-> IF i = FirstId THEN size ELSE 0]
    /\ mem = [i \in Ids |-> Blank(IF i = FirstId THEN size ELSE 0)]
    /\ semKey = FirstId /\ nsem = 1
    /\ sem = [i \in SIZE..MUTEX |-> IF i = SIZE THEN size ELSE IF i = COUNT THEN 0 ELSE 1]
    /\ h = [p \in Procs |-> [shm |-> FirstId, sem |-> FirstId, wait |-> w[p],
                             map |-> FirstId, open |-> TRUE]]
    /\ Idle
-----------------------------------------------------------------------------
(* The system calls.  A call on a set that was removed fails, and no caller *)
(* looks at the result.                                                     *)
Live(p) == h[p].sem # NoId /\ h[p].sem = semKey
Getval(p, i) == IF Live(p) THEN sem[i] ELSE -1
Setval(p, i, v) == sem' = IF Live(p) /\ v \in 0..SemMax THEN [sem EXCEPT ![i] = v] ELSE sem
Semop(p, i, d) ==
  \/ /\ Live(p) /\ sem[i] + d \in 0..SemMax
     /\ sem' = [sem EXCEPT ![i] = @ + d]
  \/ /\ ~Live(p) \/ sem[i] + d > SemMax
     /\ sem' = sem

Found(size) == shmKey # NoId /\ size <= segSize[shmKey]

(* shmget(key, size, IPC_CREAT): the existing segment unless it is too small. *)
ShmgetCreat(p) ==
  LET size == loc[p].size
      new == FirstId + nshm
  IN \/ /\ shmKey = NoId /\ nshm < MaxIds
        /\ shmKey' = new /\ nshm' = nshm + 1
        /\ segSize' = [segSize EXCEPT ![new] = size]
        /\ mem' = [mem EXCEPT ![new] = Blank(size)]
        /\ h' = [h EXCEPT ![p].shm = new]
     \/ /\ shmKey # NoId
        /\ h' = [h EXCEPT ![p].shm = IF Found(size) THEN shmKey ELSE NoId]
        /\ UNCHANGED shmVars

(* What the processes agree on: nothing; "own": pop only what one pushed, as *)
(* test.c does; "serial": one call at a time, of any function.                *)
Allowed(p, o) ==
  /\ Rule = "own" /\ o = "pop" => own[p] > 0
  /\ Rule = "serial" => \A q \in Procs \ {p} : pc[q] \in {"idle", "dead"}

Begin(p, o) ==
  /\ pc[p] = "idle" /\ o \in Menu[p] /\ calls[p] < MaxCalls /\ Allowed(p, o)
  /\ h[p].open <=> o # "attach"
  /\ calls' = [calls EXCEPT ![p] = @ + 1]
  /\ call' = [call EXCEPT ![p] = o]

At(p, o, l) == call[p] = o /\ pc[p] = l /\ UNCHANGED <<call, calls>>
Go(p, l) == pc' = [pc EXCEPT ![p] = l]
-----------------------------------------------------------------------------
(* attach_stack *)
AttachProbe(p) ==
  \E size \in Sizes :
    /\ Begin(p, "attach")
    /\ loc' = [loc EXCEPT ![p].size = size]
    /\ h' = [h EXCEPT ![p] = Closed]
    /\ Go(p, IF Found(size) /\ shmKey > 0 THEN "get" ELSE "create")
    /\ UNCHANGED <<shmVars, semVars, history>>

AttachGet(p) ==
  /\ At(p, "attach", "get") /\ ShmgetCreat(p) /\ Go(p, "semget")
  /\ UNCHANGED <<semVars, loc, history>>

AttachSemget(p) ==
  /\ At(p, "attach", "semget") /\ Go(p, "reset")
  /\ h' = [h EXCEPT ![p].sem = semKey]
  /\ UNCHANGED <<shmVars, semVars, loc, history>>

AttachReset(p) ==
  /\ At(p, "attach", "reset") /\ Setval(p, MUTEX, 1) /\ Go(p, "map")
  /\ UNCHANGED <<shmVars, semKey, nsem, h, loc, history>>

AttachCreate(p) ==
  /\ At(p, "attach", "create") /\ ShmgetCreat(p) /\ Go(p, "semcreate")
  /\ UNCHANGED <<semVars, loc, history>>

AttachSemcreate(p) ==
  /\ At(p, "attach", "semcreate") /\ Go(p, "set_size")
  /\ \/ /\ semKey = NoId /\ nsem < MaxIds
        /\ semKey' = FirstId + nsem /\ nsem' = nsem + 1 /\ sem' = Zeros
     \/ /\ semKey # NoId
        /\ UNCHANGED semVars
  /\ h' = [h EXCEPT ![p].sem = semKey']
  /\ UNCHANGED <<shmVars, loc, history>>

AttachSet(p) ==
  /\ \/ At(p, "attach", "set_size") /\ Setval(p, SIZE, loc[p].size) /\ Go(p, "set_count")
     \/ At(p, "attach", "set_count") /\ Setval(p, COUNT, 0) /\ Go(p, "set_mutex")
     \/ At(p, "attach", "set_mutex") /\ Setval(p, MUTEX, 1) /\ Go(p, "map")
  /\ UNCHANGED <<shmVars, semKey, nsem, h, loc, history>>

(* A segment that was removed and left by all cannot be attached; shmat's -1 *)
(* passes the test of line 37, an identifier that is not positive does not.  *)
AttachMap(p) ==
  LET id == h[p].shm
      there == id # NoId /\ (id = shmKey \/ \E q \in Procs : h[q].map = id)
  IN /\ At(p, "attach", "map") /\ Go(p, "idle")
     /\ h' = [h EXCEPT ![p].map = IF there THEN id ELSE NoId, ![p].open = id > 0]
     /\ UNCHANGED <<shmVars, semVars, loc, history>>

(* detach_stack, set_wait and mark_destruct *)
Detach(p) ==
  /\ Begin(p, "detach") /\ h' = [h EXCEPT ![p] = Closed]
  /\ UNCHANGED <<shmVars, semVars, pc, loc, history>>

SetWait(p) ==
  /\ Begin(p, "set_wait") /\ \E w \in Waits : h' = [h EXCEPT ![p].wait = w]
  /\ UNCHANGED <<shmVars, semVars, pc, loc, history>>

DestructUnmap(p) ==
  /\ Begin(p, "destruct") /\ Go(p, "rm_shm") /\ h' = [h EXCEPT ![p].map = NoId]
  /\ UNCHANGED <<shmVars, semVars, loc, history>>

(* Mutant: the call of shmctl(IPC_RMID) is lost. *)
DestructShmLost(p) ==
  /\ At(p, "destruct", "rm_shm") /\ Go(p, "rm_sem")
  /\ UNCHANGED <<shmVars, semVars, h, loc, history>>

DestructShm(p) ==
  /\ At(p, "destruct", "rm_shm") /\ Go(p, "rm_sem")
  /\ shmKey' = IF shmKey = h[p].shm THEN NoId ELSE shmKey
  /\ UNCHANGED <<segSize, mem, nshm, semVars, h, loc, history>>

DestructSem(p) ==
  /\ At(p, "destruct", "rm_sem") /\ Go(p, "idle")
  /\ \/ Live(p) /\ semKey' = NoId /\ sem' = Zeros
     \/ ~Live(p) /\ UNCHANGED <<semKey, sem>>
  /\ h' = [h EXCEPT ![p] = Closed]
  /\ UNCHANGED <<shmVars, nsem, loc, history>>
-----------------------------------------------------------------------------
(* push, pop and print_all *)
Enter(p) ==
  /\ \E o \in {"push", "pop", "print"} :
       /\ Begin(p, o)
       /\ loc' = [loc EXCEPT ![p] = [size |-> Getval(p, SIZE), count |-> 0,
                    val |-> IF o = "push" THEN <<p, calls[p] + 1>> ELSE NoVal]]
  /\ Go(p, "count")
  /\ UNCHANGED <<shmVars, semVars, h, history>>

(* The test that push and pop make on the count c, full or empty. *)
Refused(p, c) == \/ call[p] = "push" /\ c = loc[p].size
                 \/ call[p] = "pop" /\ c = 0

(* Reading the count, at the start, in the wait-0 loop, after the wait-1 sleep. *)
ReadCount(p) ==
  /\ pc[p] \in {"count", "spin", "sleep"} /\ UNCHANGED <<call, calls>>
  /\ LET c == Getval(p, COUNT)
         w == CASE pc[p] = "spin" -> 0 [] pc[p] = "sleep" -> -1 [] OTHER -> h[p].wait
         refused == Refused(p, c)
     IN /\ loc' = [loc EXCEPT ![p].count = c]
        /\ \/ (~refused \/ w \notin -1..1) /\ Go(p, "lock") /\ UNCHANGED res
           \/ refused /\ w = 0 /\ Go(p, "spin") /\ UNCHANGED res
           \/ refused /\ w = 1 /\ Go(p, "sleep") /\ UNCHANGED res
           \/ /\ refused /\ w = -1 /\ Go(p, "idle")
              /\ res' = [res EXCEPT ![p] =
                           Outcome(IF call[p] = "push" THEN "full" ELSE "empty", NoVal)]
  /\ UNCHANGED <<shmVars, semVars, h, own>>

(* Mutant: the mutex is decremented without waiting for it. *)
LockUnchecked(p) ==
  /\ pc[p] = "lock" /\ Go(p, "access")
  /\ sem' = [sem EXCEPT ![MUTEX] = @ - 1]
  /\ UNCHANGED <<shmVars, semKey, nsem, h, call, loc, calls, history>>

Lock(p) ==
  /\ pc[p] = "lock" /\ Semop(p, MUTEX, -1) /\ Go(p, "access")
  /\ UNCHANGED <<shmVars, semKey, nsem, h, call, loc, calls, history>>

Inside(p, i) == h[p].map # NoId /\ i \in DOMAIN mem[h[p].map]

(* An access outside the segment faults, or reaches some other mapping. *)
Stray(p, l) == \/ Go(p, l) /\ UNCHANGED h
               \/ Go(p, "dead") /\ h' = [h EXCEPT ![p] = Closed]

PushWrite(p) ==
  LET i == loc[p].count
  IN /\ At(p, "push", "access")
     /\ \/ /\ Inside(p, i) /\ Go(p, "move")
           /\ mem' = [mem EXCEPT ![h[p].map][i] = loc[p].val]
           /\ UNCHANGED h
        \/ ~Inside(p, i) /\ Stray(p, "move") /\ UNCHANGED mem
     /\ UNCHANGED <<shmKey, segSize, nshm, semVars, loc, history>>

(* Mutant: the element above the top is read. *)
PopReadAbove(p) ==
  /\ At(p, "pop", "access") /\ Go(p, "move")
  /\ Inside(p, loc[p].count)
  /\ loc' = [loc EXCEPT ![p].val = mem[h[p].map][loc[p].count]]
  /\ UNCHANGED <<shmVars, semVars, h, history>>

PopRead(p) ==
  LET i == loc[p].count - 1
  IN /\ At(p, "pop", "access")
     /\ \/ /\ Inside(p, i) /\ Go(p, "move")
           /\ loc' = [loc EXCEPT ![p].val = mem[h[p].map][i]]
           /\ UNCHANGED h
        \/ ~Inside(p, i) /\ Stray(p, "move") /\ UNCHANGED loc
     /\ UNCHANGED <<shmVars, semVars, history>>

PrintRead(p) ==
  /\ At(p, "print", "access")
  /\ \/ (\A i \in 0..(loc[p].count - 1) : Inside(p, i)) /\ Go(p, "unlock") /\ UNCHANGED h
     \/ (\E i \in 0..(loc[p].count - 1) : ~Inside(p, i)) /\ Stray(p, "unlock")
  /\ UNCHANGED <<shmVars, semVars, loc, history>>

(* Mutant: the count is stored with SETVAL from the value read earlier. *)
PushIncStored(p) ==
  /\ At(p, "push", "move") /\ Setval(p, COUNT, loc[p].count + 1) /\ Go(p, "unlock")
  /\ own' = [own EXCEPT ![p] = @ + 1]
  /\ res' = [res EXCEPT ![p] = Outcome("pushed", loc[p].val)]
  /\ UNCHANGED <<shmVars, semKey, nsem, h, loc>>

PushInc(p) ==
  /\ At(p, "push", "move") /\ Semop(p, COUNT, 1) /\ Go(p, "unlock")
  /\ own' = [own EXCEPT ![p] = @ + 1]
  /\ res' = [res EXCEPT ![p] = Outcome("pushed", loc[p].val)]
  /\ UNCHANGED <<shmVars, semKey, nsem, h, loc>>

PopDec(p) ==
  /\ At(p, "pop", "move") /\ Semop(p, COUNT, -1) /\ Go(p, "unlock")
  /\ own' = [own EXCEPT ![p] = @ - 1]
  /\ res' = [res EXCEPT ![p] = Outcome("popped", loc[p].val)]
  /\ UNCHANGED <<shmVars, semKey, nsem, h, loc>>

(* Mutant: sem_num still names the COUNT semaphore. *)
UnlockCount(p) ==
  /\ pc[p] = "unlock" /\ Semop(p, COUNT, 1) /\ Go(p, "idle")
  /\ UNCHANGED <<shmVars, semKey, nsem, h, call, loc, calls, history>>

Unlock(p) ==
  /\ pc[p] = "unlock" /\ Semop(p, MUTEX, 1) /\ Go(p, "idle")
  /\ UNCHANGED <<shmVars, semKey, nsem, h, call, loc, calls, history>>
-----------------------------------------------------------------------------
(* SIGKILL, as test.c sends: nothing is undone, no operation has SEM_UNDO. *)
Kill(p) ==
  /\ Mortal /\ pc[p] # "dead" /\ Go(p, "dead")
  /\ h' = [h EXCEPT ![p] = Closed]
  /\ UNCHANGED <<shmVars, semVars, call, loc, calls, history>>

Continue(p) ==
  \/ AttachGet(p) \/ AttachSemget(p) \/ AttachReset(p) \/ AttachCreate(p)
  \/ AttachSemcreate(p) \/ AttachSet(p) \/ AttachMap(p)
  \/ DestructShm(p) \/ DestructSem(p)
  \/ ReadCount(p) \/ Lock(p) \/ PushWrite(p) \/ PopRead(p) \/ PrintRead(p)
  \/ PushInc(p) \/ PopDec(p) \/ Unlock(p)

Step(p) ==
  \/ AttachProbe(p) \/ Detach(p) \/ SetWait(p) \/ DestructUnmap(p) \/ Enter(p)
  \/ Continue(p) \/ Kill(p)

Next == \E p \in Procs : Step(p)

Spec == Init /\ [][Next]_vars
AttachedSpec == InitAttached /\ [][Next]_vars

(* A process in a call keeps running, and Linux serves a semaphore's sleepers *)
(* in the order they came.  Nobody has to make a call.                        *)
Fairness == \A p \in Procs : WF_vars(Continue(p)) /\ SF_vars(Lock(p))
FairAttachedSpec == AttachedSpec /\ Fairness
-----------------------------------------------------------------------------
Ids1 == Ids \cup {NoId}
Places == Stages \cup {"idle", "dead"}
Handles == [shm : Ids1, sem : Ids1, wait : Waits \cup {-1}, map : Ids1, open : BOOLEAN]
Locals == [size : Sizes \cup (-1..SemMax), count : -1..SemMax, val : Vals \cup {NoVal}]
Outcomes == [op : {"none", "pushed", "popped", "full", "empty"}, val : Vals \cup {NoVal}]

ShmType == /\ shmKey \in Ids1 /\ nshm \in 0..MaxIds /\ segSize \in [Ids -> Sizes \cup {0}]
           /\ DOMAIN mem = Ids
           /\ \A i \in Ids : mem[i] \in [0..(Slots(segSize[i]) - 1) -> Vals \cup {NoVal}]
SemType == /\ semKey \in Ids1 /\ nsem \in 0..MaxIds /\ sem \in [SIZE..MUTEX -> 0..SemMax]
ClientType == /\ h \in [Procs -> Handles] /\ loc \in [Procs -> Locals]
              /\ call \in [Procs -> Ops \cup {"none"}] /\ pc \in [Procs -> Places]
              /\ calls \in [Procs -> 0..MaxCalls]
              /\ own \in [Procs -> Int] /\ res \in [Procs -> Outcomes]

(* Every variable keeps its type, whatever calls the processes make and       *)
(* however they interleave.                                                   *)
TypeOK == ShmType /\ SemType /\ ClientType

Holders == {p \in Procs : pc[p] \in {"access", "move", "unlock"}}

(* The MUTEX semaphore guards the segment: at most one process is between the *)
(* semop that takes it and the one that gives it back, it reads 0 meanwhile,  *)
(* and no sequence of pushes, pops, prints and kills ever raises it above 1.  *)
MutualExclusion ==
  /\ \A p, q \in Holders : p = q
  /\ Holders # {} => sem[MUTEX] = 0
  /\ sem[MUTEX] <= 1

(* Each process's completed pushes minus pops, one token for each. *)
Tokens == UNION {{p} \X (1..own[p]) : p \in Procs}

(* Processes that pop only what they pushed (test.c) keep the COUNT semaphore *)
(* equal to what they have pushed and not yet popped: when every process has  *)
(* popped as much as it pushed the stack is empty, which is what the stress   *)
(* test prints when it succeeds.                                              *)
CountAccounted == sem[COUNT] = Cardinality(Tokens)

(* With the same discipline a pop that is past its test read a count of at    *)
(* least one, so that it never reads sh_stack[-1], and it never sleeps on the *)
(* COUNT semaphore with the mutex in its hands.                               *)
PopNeverEmpty ==
  \A p \in Procs : call[p] = "pop" =>
    /\ pc[p] \in {"lock", "access", "move"} => loc[p].count >= 1
    /\ pc[p] = "move" => sem[COUNT] >= 1

(* Every call returns, as long as no process is killed in the middle of one:   *)
(* in the end the stress test prints its empty stack (sh_stack/readme.md:44).  *)
EveryCallReturns ==
  \A p \in Procs : pc[p] \in Stages ~> pc[p] = "idle" \/ \E q \in Procs : pc[q] = "dead"

(* While nobody attaches or destroys, the key names a segment and semaphores  *)
(* or neither, and no handle mixes two stacks: its segment and its semaphores *)
(* are both those of the key or both of a stack that was destroyed while the  *)
(* handle was held (stack.c:53-55).  The mutex of the key's stack is then     *)
(* taken by who is inside that one, and by nobody else.                       *)
HandlesWhole ==
  (\A p \in Procs : call[p] \in {"attach", "destruct"} => pc[p] \in {"idle", "dead"}) =>
    /\ shmKey = NoId <=> semKey = NoId
    /\ \A p \in Procs : h[p].open => h[p].map = h[p].shm /\ (h[p].shm = shmKey <=> Live(p))
    /\ semKey # NoId => sem[MUTEX] = 1 - Cardinality({p \in Holders : Live(p)})

(* What the clients of the stack that the key names see is a stack: each push, *)
(* pop and refusal takes effect at one instant, in the order of a last-in      *)
(* first-out store (stack.h:35-42).  Clients of a stack that somebody else has *)
(* destroyed meanwhile do not disturb it, whatever they call.                  *)
Alive == shmKey # NoId /\ semKey # NoId
Attached == {p \in Procs : shmKey # NoId /\ h[p].map = shmKey}
Abs == INSTANCE StackSpec WITH
         cap <- IF Alive THEN sem[SIZE] ELSE 0,
         stk <- [i \in 1..(IF Alive THEN sem[COUNT] ELSE 0) |-> mem[shmKey][i - 1]],
         holds <- Attached
ImplementsStack == Abs!Spec
==============================================================================
