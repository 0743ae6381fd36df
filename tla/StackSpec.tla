------------------------------ MODULE StackSpec ------------------------------
(***************************************************************************)
(* What stack.h promises of the shared stack to those who have attached    *)
(* it: a bounded last-in first-out store, created on the first attach,     *)
(* whose operations take effect at one instant between their call and      *)
(* their return.  One promise is weaker here: stack.h:29 destroys a stack  *)
(* after all have detached, this one destroys it at once and leaves those  *)
(* who held it without one, as stack.c:55 does.                            *)
(* res[p] is the outcome of the last push or pop of process p.             *)
(***************************************************************************)
EXTENDS Integers, Sequences

CONSTANTS Procs,   \* the processes that use the stack
          Sizes,   \* the sizes a stack can be created with
          Vals     \* the pointers that can be pushed

VARIABLES stk,     \* the stored pointers, bottom first
          cap,     \* the stack's size, 0 while there is no stack
          holds,   \* the processes that are attached to it
          res

vars == <<stk, cap, holds, res>>

Outcome(op, v) == [op |-> op, val |-> v]
NoVal == <<>>

Init == /\ stk = <<>>
        /\ cap \in Sizes \cup {0}
        /\ holds \subseteq Procs
        /\ res = [p \in Procs |-> Outcome("none", NoVal)]

Create == /\ cap = 0
          /\ cap' \in Sizes
          /\ UNCHANGED <<stk, holds, res>>

Attach(p) == /\ cap # 0
             /\ holds' = holds \cup {p}
             /\ UNCHANGED <<stk, cap, res>>

Detach(p) == /\ holds' = holds \ {p}
             /\ UNCHANGED <<stk, cap, res>>

Destroy == /\ cap' = 0 /\ stk' = <<>> /\ holds' = {}
           /\ UNCHANGED res

Push(p) == \E v \in Vals :
             /\ p \in holds /\ Len(stk) < cap
             /\ stk' = Append(stk, v)
             /\ res' = [res EXCEPT ![p] = Outcome("pushed", v)]
             /\ UNCHANGED <<cap, holds>>

PushFull(p) == /\ p \in holds /\ cap # 0 /\ Len(stk) = cap
               /\ res' = [res EXCEPT ![p] = Outcome("full", NoVal)]
               /\ UNCHANGED <<stk, cap, holds>>

Pop(p) == /\ p \in holds /\ stk # <<>>
          /\ stk' = SubSeq(stk, 1, Len(stk) - 1)
          /\ res' = [res EXCEPT ![p] = Outcome("popped", stk[Len(stk)])]
          /\ UNCHANGED <<cap, holds>>

PopEmpty(p) == /\ p \in holds /\ cap # 0 /\ stk = <<>>
               /\ res' = [res EXCEPT ![p] = Outcome("empty", NoVal)]
               /\ UNCHANGED <<stk, cap, holds>>

(* Whoever has no stack pushes in vain and pops what is no one's.           *)
Estranged(p) == /\ p \notin holds
                /\ \E op \in {"full", "popped"} :
                     res' = [res EXCEPT ![p] = Outcome(op, NoVal)]
                /\ UNCHANGED <<stk, cap, holds>>

Next == \/ Create \/ Destroy
        \/ \E p \in Procs : \/ Attach(p) \/ Detach(p) \/ Estranged(p)
                            \/ Push(p) \/ PushFull(p) \/ Pop(p) \/ PopEmpty(p)

Spec == Init /\ [][Next]_vars
==============================================================================
