--------------------------------- MODULE Msg ---------------------------------
(***************************************************************************)
(* msg: sen.c and rec.c exchange their pids over the System V message      *)
(* queue of one key.  At most one queue has the key at a time: identifier  *)
(* id is good as long as it is cur.                                        *)
(***************************************************************************)
EXTENDS Integers, Sequences, SequencesExt

CONSTANTS Sens, Recs  \* the processes that run sen and rec

ASSUME MsgAssumption == Sens \cap Recs = {}

VARIABLES cur, last,  \* the queue that has the key (0 for none); identifiers given so far
          q,          \* the messages in it
          pc, id,     \* where each process is, the identifier it works with
          got         \* got[p]: the pid in p's message, which it prints as received

msgVars == <<cur, last, q, pc, id, got>>
NoQueue == 0
Failed == -1
Garbage == "garbage"
Typed(dir, pid) == [dir |-> dir, pid |-> pid]

(* A queue with the messages of earlier runs may be left over. *)
LeftOver == {<<NoQueue, <<>>>>, <<1, <<>>>>, <<1, <<Typed(1, "old")>>>>, <<1, <<Typed(2, "old")>>>>}
MsgInit(found) ==
  /\ \E f \in found : cur = f[1] /\ last = f[1] /\ q = f[2]
  /\ pc = [p \in Sens \cup Recs |-> "off"]
  /\ id = [p \in Sens \cup Recs |-> Failed]
  /\ got = [p \in Sens \cup Recs |-> IF p \in Sens THEN p ELSE Garbage]

Go(p, from, to) == pc[p] = from /\ pc' = [pc EXCEPT ![p] = to]
Live(p) == id[p] = cur /\ cur # NoQueue
-----------------------------------------------------------------------------
(* The kernel: msgget with IPC_CREAT, msgctl IPC_RMID, msgsnd, msgrcv *)
GetCreate(p) ==
  \/ cur # NoQueue /\ id' = [id EXCEPT ![p] = cur] /\ UNCHANGED <<cur, last, q>>
  \/ /\ cur = NoQueue
     /\ last' = last + 1 /\ cur' = last + 1 /\ q' = <<>>
     /\ id' = [id EXCEPT ![p] = last + 1]

Rmid(p) ==
  \/ Live(p) /\ cur' = NoQueue /\ q' = <<>>
  \/ ~Live(p) /\ UNCHANGED <<cur, q>>

Send(p, m) == q' = IF Live(p) THEN Append(q, m) ELSE q

(* Waits for a message of that type, or fails when the queue is gone. *)
Receive(p, dir) ==
  \/ /\ Live(p)
     /\ \E k \in 1..Len(q) :
          /\ q[k].dir = dir /\ \A j \in 1..(k - 1) : q[j].dir # dir
          /\ q' = RemoveAt(q, k)
          /\ got' = [got EXCEPT ![p] = q[k].pid]
  \/ ~Live(p) /\ UNCHANGED <<q, got>>
-----------------------------------------------------------------------------
(* sen.c: a queue left by an earlier run is removed first. *)
SenStart(s) == Go(s, "off", "start") /\ UNCHANGED <<cur, last, q, id, got>>
SenGet(s) == Go(s, "start", "remove") /\ GetCreate(s) /\ UNCHANGED got
SenRemove(s) == Go(s, "remove", "get") /\ Rmid(s) /\ UNCHANGED <<last, id, got>>
SenGetNew(s) == Go(s, "get", "send") /\ GetCreate(s) /\ UNCHANGED got

(* Mutant: the message has no type. *)
SenSendUntyped(s) == Go(s, "send", "receive") /\ Send(s, Typed(0, s)) /\ UNCHANGED <<cur, last, id, got>>
SenSend(s) == Go(s, "send", "receive") /\ Send(s, Typed(1, s)) /\ UNCHANGED <<cur, last, id, got>>

(* What sen prints when its msgrcv fails is the pid it sent. *)
SenReceive(s) == Go(s, "receive", "end") /\ Receive(s, 2) /\ UNCHANGED <<cur, last, id>>
SenEnd(s) == Go(s, "end", "done") /\ Rmid(s) /\ UNCHANGED <<last, id, got>>

(* rec.c: it does not look at what msgget and msgrcv return.  readme.md asks   *)
(* that sen be started first, which is not to say that it has done anything.   *)
RecStart(r) ==
  /\ Go(r, "off", "start") /\ \E s \in Sens : pc[s] # "off"
  /\ UNCHANGED <<cur, last, q, id, got>>
RecGet(r) ==
  /\ Go(r, "start", "receive")
  /\ id' = [id EXCEPT ![r] = IF cur = NoQueue THEN Failed ELSE cur]
  /\ UNCHANGED <<cur, last, q, got>>
RecReceive(r) == Go(r, "receive", "send") /\ Receive(r, 1) /\ UNCHANGED <<cur, last, id>>

(* Mutant: rec answers with the pid that it received. *)
RecEcho(r) == Go(r, "send", "done") /\ Send(r, Typed(2, got[r])) /\ UNCHANGED <<cur, last, id, got>>
(* Mutant: rec answers in the direction of the message it received. *)
RecSendBack(r) == Go(r, "send", "done") /\ Send(r, Typed(1, r)) /\ UNCHANGED <<cur, last, id, got>>
RecSend(r) == Go(r, "send", "done") /\ Send(r, Typed(2, r)) /\ UNCHANGED <<cur, last, id, got>>

SenStep(s) == SenGet(s) \/ SenRemove(s) \/ SenGetNew(s) \/ SenSend(s) \/ SenReceive(s) \/ SenEnd(s)
RecStep(r) == RecGet(r) \/ RecReceive(r) \/ RecSend(r)
MsgNext == \/ \E s \in Sens : SenStart(s) \/ SenStep(s)
           \/ \E r \in Recs : RecStart(r) \/ RecStep(r)
(* The processes that were started run; nobody has to start one. *)
MsgFair == /\ \A s \in Sens : WF_msgVars(SenStep(s))
           /\ \A r \in Recs : WF_msgVars(RecStep(r))
MsgSpec == MsgInit(LeftOver) /\ [][MsgNext]_msgVars /\ MsgFair
-----------------------------------------------------------------------------
Pids == Sens \cup Recs \cup {"old", Garbage}
MsgTypeOK ==
  /\ cur \in 0..last /\ last \in Nat
  /\ q \in Seq([dir : {1, 2}, pid : Pids])
  /\ pc \in [Sens \cup Recs -> {"off", "start", "remove", "get", "send", "receive", "end", "done"}]
  /\ id \in [Sens \cup Recs -> Int] /\ got \in [Sens \cup Recs -> Pids]

(* The pids are exchanged both ways: what a sen that has returned printed is   *)
(* the pid of a rec that printed this sen's, never a pid of an earlier run.    *)
Exchanged ==
  \A s \in Sens : pc[s] \in {"end", "done"} => got[s] \in Recs /\ got[got[s]] = s

(* A sen whose new queue some rec has found returns, and so does every rec that *)
(* is started, those that found the removed one or none, or wait for a message  *)
(* that another rec took, among them: sen removes its queue (sen.c:29).         *)
MsgReturns ==
  (\E s \in Sens, r \in Recs : pc[s] \in {"send", "receive"} /\ id[r] = id[s])
    ~> \A p \in Sens \cup Recs : pc[p] \in {"off", "done"}
==============================================================================
