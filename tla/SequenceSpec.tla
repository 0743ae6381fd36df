----------------------------- MODULE SequenceSpec -----------------------------
(* What the list of modules/field.h promises: a sequence of items, as long as  *)
(* its head is in it.                                                          *)
EXTENDS Sequences, SequencesExt

CONSTANT Items
VARIABLES seq,  \* the items in order
          lost, \* whether the head was deleted
          call  \* the call that was made last, and its item
vars == <<seq, lost, call>>

Init == seq = <<>> /\ lost = FALSE /\ call = <<"list_init">>
Absent(x) == ~lost /\ ~Contains(seq, x)
Add(x) == Absent(x) /\ call' = <<"list_add", x>> /\ seq' = <<x>> \o seq /\ UNCHANGED lost
AddBack(x) == Absent(x) /\ call' = <<"list_add_back", x>> /\ seq' = Append(seq, x) /\ UNCHANGED lost
Delete(x) == /\ ~lost /\ call' = <<"list_del", x>> /\ UNCHANGED lost
             /\ \E k \in DOMAIN seq : seq[k] = x /\ seq' = RemoveAt(seq, k)
(* Once the head is deleted nothing is promised. *)
Lose == ~lost /\ lost' = TRUE /\ seq' = <<>> /\ call' = <<"list_del">>
Lost == lost /\ lost' /\ UNCHANGED seq

Next == Lose \/ Lost \/ \E x \in Items : Add(x) \/ AddBack(x) \/ Delete(x)
Spec == Init /\ [][Next]_vars
==============================================================================
