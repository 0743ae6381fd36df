----------------------------- MODULE CircularList -----------------------------
(***************************************************************************)
(* The circular intrusive list of modules/field.h and list/main.c.  An     *)
(* item is a struct list; the head is one that is in no field.             *)
(***************************************************************************)
EXTENDS Integers, Sequences, FiniteSets

CONSTANTS ListItems, Head0
ASSUME ListAssumption == Head0 \notin ListItems /\ IsFiniteSet(ListItems)

VARIABLES links,    \* links.next[x], links.prev[x]
          linked,   \* the items that were added and not deleted
          headless, \* whether the head was deleted
          call      \* the last call and its item
listVars == <<links, linked, headless, call>>

Nodes == ListItems \cup {Head0}
Self == [x \in Nodes |-> x]

(* LIST_HEAD and list_init *)
ListInit == /\ links = [next |-> Self, prev |-> Self] /\ linked = {} /\ headless = FALSE
            /\ call = <<"list_init">>
-----------------------------------------------------------------------------
(* Mutant: the pointer back from what follows is forgotten. *)
LinkOneWay(l, item, prev, next) ==
  [next |-> [l.next EXCEPT ![prev] = item, ![item] = next],
   prev |-> [l.prev EXCEPT ![item] = prev]]

(* __list_add, list_add, list_add_back, list_del: assignments in this order *)
Link(l, item, prev, next) ==
  [next |-> [l.next EXCEPT ![prev] = item, ![item] = next],
   prev |-> [l.prev EXCEPT ![next] = item, ![item] = prev]]
AddTo(l, new, head) == Link(l, new, head, l.next[head])
AddBackTo(l, new, head) == Link(l, new, l.prev[head], head)
DelFrom(l, old) ==
  LET next == [l.next EXCEPT ![l.prev[old]] = l.next[old]]
  IN [next |-> next, prev |-> [l.prev EXCEPT ![next[old]] = l.prev[old]]]

(* Nth[k]: the node k steps from the head; Walk: list_for_each_entry, which    *)
(* ends when it meets the head.                                                *)
NthFrom(step) == LET Nth[k \in 0..Cardinality(Nodes)] ==
                       IF k = 0 THEN Head0 ELSE step[Nth[k - 1]]
                 IN Nth
Returns(step) == \E k \in 1..Cardinality(Nodes) : NthFrom(step)[k] = Head0
Walk(step) ==
  LET Nth == NthFrom(step)
      end == CHOOSE k \in 1..Cardinality(Nodes) :
               Nth[k] = Head0 /\ \A j \in 1..(k - 1) : Nth[j] # Head0
  IN [k \in 1..(end - 1) |-> Nth[k]]
-----------------------------------------------------------------------------
(* The callers: an item that is in no list is added, one that is in it is      *)
(* deleted, or the head is, as list/main.c does.                               *)
Add(x) == /\ x \in ListItems \ linked /\ linked' = linked \cup {x}
          /\ links' = AddTo(links, x, Head0)
          /\ call' = <<"list_add", x>> /\ UNCHANGED headless
AddBack(x) == /\ x \in ListItems \ linked /\ linked' = linked \cup {x}
              /\ links' = AddBackTo(links, x, Head0)
              /\ call' = <<"list_add_back", x>> /\ UNCHANGED headless
Del(x) == /\ x \in linked /\ ~headless /\ linked' = linked \ {x}
          /\ links' = DelFrom(links, x)
          /\ call' = <<"list_del", x>> /\ UNCHANGED headless
DelHead == /\ ~headless /\ headless' = TRUE
           /\ links' = DelFrom(links, Head0)
           /\ call' = <<"list_del">> /\ UNCHANGED linked

ListNext == DelHead \/ \E x \in ListItems : Add(x) \/ AddBack(x) \/ Del(x)
ListSpec == ListInit /\ [][ListNext]_listVars
-----------------------------------------------------------------------------
ListTypeOK == /\ links \in [next : [Nodes -> Nodes], prev : [Nodes -> Nodes]]
              /\ linked \subseteq ListItems /\ headless \in BOOLEAN
              /\ call \in Seq(ListItems \cup {"list_init", "list_add", "list_add_back", "list_del"})

(* As long as the head is in it, walking forwards always comes back to it and  *)
(* meets the items the calls put there, in their order (field.h:25, :49).      *)
Sequence == INSTANCE SequenceSpec WITH Items <- ListItems, lost <- headless, call <- call,
              seq <- IF headless THEN <<>>
                     ELSE IF Returns(links.next) THEN Walk(links.next) ELSE <<"endless">>
ListIsSequence == Sequence!Spec
==============================================================================
