--------------------------- MODULE ExercisesProofs ---------------------------
(***************************************************************************)
(* Theorems about the exercises, each for any number of its processes, any *)
(* input and any of the interruptions its module allows.  Every part has   *)
(* its own invariant; the theorems at the end join them.                   *)
(***************************************************************************)
EXTENDS Exercises, ListLemmas, FiniteSetTheorems

(* msg.  One sen runs; each rec is started when sen is, or later, as          *)
(* readme.md asks.                                                            *)
OneSen == \E s : Sens = {s}

(* While sen waits for an answer, its message is in the new queue, or one of  *)
(* the recs that found this queue has it, or that rec's answer is there; the  *)
(* others of them wait.  The recs that found another queue, or none, do not   *)
(* touch this one.                                                            *)
Met == {r \in Recs : id[r] = cur}
Asks(s) ==
  \/ q = <<Typed(1, s)>> /\ \A r \in Met : pc[r] = "receive"
  \/ \E r \in Met : /\ got[r] = s /\ \A o \in Met \ {r} : pc[o] = "receive"
                    /\ \/ pc[r] = "send" /\ q = <<>>
                       \/ pc[r] = "done" /\ q = <<Typed(2, r)>>
Exchange(s) ==
  /\ \A r \in Recs : id[r] <= last /\ (pc[r] \in {"off", "start"} => id[r] = Failed)
  /\ pc[s] = "remove" => Live(s)
  /\ pc[s] = "get" => cur = NoQueue
  /\ pc[s] = "send" => Live(s) /\ q = <<>> /\ \A r \in Met : pc[r] = "receive"
  /\ pc[s] = "receive" => Live(s) /\ Asks(s)
  /\ pc[s] \in {"end", "done"} => got[s] \in Recs /\ pc[got[s]] = "done" /\ got[got[s]] = s
MsgIInv == MsgTypeOK /\ (OneSen => \A s \in Sens : Exchange(s))
-----------------------------------------------------------------------------
Message == [dir : {1, 2}, pid : Pids]

(* msg begins so, whatever queue was left over.                               *)
LEMMA MsgInitInv == \A found \in SUBSET LeftOver : MsgInit(found) => MsgIInv
<1> SUFFICES ASSUME NEW found \in SUBSET LeftOver, MsgInit(found) PROVE MsgIInv
  OBVIOUS
<1>1. PICK f \in LeftOver : cur = f[1] /\ last = f[1] /\ q = f[2]
  BY DEF MsgInit
<1>2. cur \in 0..last /\ last \in Nat /\ q \in Seq(Message)
  <2>1. Typed(1, "old") \in Message /\ Typed(2, "old") \in Message
    BY DEF Typed, Message, Pids
  <2>2. <<>> \in Seq(Message) /\ <<Typed(1, "old")>> \in Seq(Message) /\ <<Typed(2, "old")>> \in Seq(Message)
    BY <2>1
  <2>3. f \in {<<NoQueue, <<>>>>, <<1, <<>>>>, <<1, <<Typed(1, "old")>>>>, <<1, <<Typed(2, "old")>>>>}
    BY DEF LeftOver
  <2>4. f[1] \in 0..1 /\ f[2] \in Seq(Message)
    <3>1. CASE f = <<NoQueue, <<>>>>
      BY <2>2, <3>1 DEF NoQueue
    <3>2. CASE f = <<1, <<>>>>
      BY <2>2, <3>2
    <3>3. CASE f = <<1, <<Typed(1, "old")>>>>
      BY <2>2, <3>3
    <3>4. CASE f = <<1, <<Typed(2, "old")>>>>
      BY <2>2, <3>4
    <3> QED BY <2>3, <3>1, <3>2, <3>3, <3>4
  <2> QED BY <1>1, <2>4
<1>3. MsgTypeOK
  BY <1>2 DEF MsgInit, MsgTypeOK, Pids, Failed, Message
<1>4. \A s \in Sens : Exchange(s)
  BY <1>2 DEF MsgInit, Exchange, Failed
<1> QED BY <1>3, <1>4 DEF MsgIInv

(* A message that is received leaves the queue.                              *)
LEMMA MsgTaken ==
  ASSUME MsgTypeOK, NEW k \in 1..Len(q)
  PROVE  /\ RemoveAt(q, k) \in Seq(Message) /\ q[k] \in Message
         /\ Len(q) = 1 => RemoveAt(q, k) = <<>>
<1>1. q \in Seq(Message)
  BY DEF MsgTypeOK, Message
<1>2. RemoveAt(q, k) = Without(q, k)
  BY DEF RemoveAt, Without
<1>3. Without(q, k) \in Seq(Message) /\ Len(Without(q, k)) = Len(q) - 1
  BY <1>1, WithoutElement
<1> QED BY <1>1, <1>2, <1>3, ElementOfSeq, EmptySeq

(* Every step of sen and rec keeps the types.                                 *)
LEMMA MsgTypeStep == MsgTypeOK /\ [MsgNext]_msgVars => MsgTypeOK'
<1> SUFFICES ASSUME MsgTypeOK, [MsgNext]_msgVars PROVE MsgTypeOK'
  OBVIOUS
<1>0. /\ cur \in 0..last /\ last \in Nat /\ q \in Seq(Message) /\ <<>> \in Seq(Message)
      /\ id \in [Sens \cup Recs -> Int] /\ got \in [Sens \cup Recs -> Pids]
  BY EmptySeq DEF MsgTypeOK, Message
<1>1. ASSUME UNCHANGED msgVars PROVE MsgTypeOK'
  BY <1>1 DEF MsgTypeOK, msgVars
<1>2. ASSUME NEW p \in Sens \cup Recs, NEW from, NEW to \in {"start", "remove", "get", "send", "receive", "end", "done"}, Go(p, from, to)
      PROVE  pc' \in [Sens \cup Recs -> {"off", "start", "remove", "get", "send", "receive", "end", "done"}]
  BY <1>2 DEF Go, MsgTypeOK
<1>3. ASSUME NEW p \in Sens \cup Recs, GetCreate(p), UNCHANGED got
      PROVE  /\ cur' \in 0..last' /\ last' \in Nat /\ q' \in Seq(Message)
             /\ id' \in [Sens \cup Recs -> Int] /\ got' \in [Sens \cup Recs -> Pids]
  <2>1. CASE cur # NoQueue /\ id' = [id EXCEPT ![p] = cur] /\ UNCHANGED <<cur, last, q>>
    BY <1>0, <1>3, <2>1
  <2>2. CASE /\ last' = last + 1 /\ cur' = last + 1 /\ q' = <<>>
             /\ id' = [id EXCEPT ![p] = last + 1]
    BY <1>0, <1>3, <2>2
  <2> QED BY <1>3, <2>1, <2>2 DEF GetCreate
<1>4. ASSUME NEW p \in Sens \cup Recs, Rmid(p), UNCHANGED <<last, id, got>>
      PROVE  /\ cur' \in 0..last' /\ last' \in Nat /\ q' \in Seq(Message)
             /\ id' \in [Sens \cup Recs -> Int] /\ got' \in [Sens \cup Recs -> Pids]
  <2>1. CASE cur' = NoQueue /\ q' = <<>>
    BY <1>0, <1>4, <2>1 DEF NoQueue
  <2>2. CASE UNCHANGED <<cur, q>>
    BY <1>0, <1>4, <2>2
  <2> QED BY <1>4, <2>1, <2>2 DEF Rmid
<1>5. ASSUME NEW p \in Sens \cup Recs, NEW m \in Message, Send(p, m), UNCHANGED <<cur, last, id, got>>
      PROVE  /\ cur' \in 0..last' /\ last' \in Nat /\ q' \in Seq(Message)
             /\ id' \in [Sens \cup Recs -> Int] /\ got' \in [Sens \cup Recs -> Pids]
  <2>1. Append(q, m) \in Seq(Message)
    BY <1>5, AppendProperties DEF MsgTypeOK, Message
  <2> QED BY <1>5, <2>1 DEF Send, MsgTypeOK, Message
<1>6. ASSUME NEW p \in Sens \cup Recs, NEW d \in {1, 2}, Receive(p, d), UNCHANGED <<cur, last, id>>
      PROVE  /\ cur' \in 0..last' /\ last' \in Nat /\ q' \in Seq(Message)
             /\ id' \in [Sens \cup Recs -> Int] /\ got' \in [Sens \cup Recs -> Pids]
  <2>1. CASE UNCHANGED <<q, got>>
    BY <1>6, <2>1 DEF MsgTypeOK, Message
  <2>2. ASSUME NEW k \in 1..Len(q), q' = RemoveAt(q, k), got' = [got EXCEPT ![p] = q[k].pid]
        PROVE  q' \in Seq(Message) /\ got' \in [Sens \cup Recs -> Pids]
    BY <2>2, MsgTaken DEF MsgTypeOK, Message
  <2> QED BY <1>6, <2>1, <2>2 DEF Receive, MsgTypeOK
<1>7. ASSUME NEW s \in Sens, SenStart(s) \/ SenStep(s) PROVE MsgTypeOK'
  <2>0. CASE SenStart(s)
    BY <2>0, <1>0, <1>2 DEF SenStart, MsgTypeOK, Message
  <2>1. CASE SenGet(s)
    BY <2>1, <1>2, <1>3 DEF SenGet, MsgTypeOK, Message
  <2>2. CASE SenRemove(s)
    BY <2>2, <1>2, <1>4 DEF SenRemove, MsgTypeOK, Message
  <2>3. CASE SenGetNew(s)
    BY <2>3, <1>2, <1>3 DEF SenGetNew, MsgTypeOK, Message
  <2>4. CASE SenSend(s)
    <3>1. Typed(1, s) \in Message
      BY DEF Typed, Message, Pids
    <3> QED BY <2>4, <3>1, <1>2, <1>5 DEF SenSend, MsgTypeOK, Message
  <2>5. CASE SenReceive(s)
    BY <2>5, <1>2, <1>6 DEF SenReceive, MsgTypeOK, Message
  <2>6. CASE SenEnd(s)
    BY <2>6, <1>2, <1>4 DEF SenEnd, MsgTypeOK, Message
  <2> QED BY <1>7, <2>0, <2>1, <2>2, <2>3, <2>4, <2>5, <2>6 DEF SenStep
<1>8. ASSUME NEW r \in Recs, RecStart(r) \/ RecStep(r) PROVE MsgTypeOK'
  <2>0. CASE RecStart(r)
    BY <2>0, <1>0, <1>2 DEF RecStart, MsgTypeOK, Message
  <2>1. CASE RecGet(r)
    <3>1. pc' \in [Sens \cup Recs -> {"off", "start", "remove", "get", "send", "receive", "end", "done"}]
      BY <2>1, <1>2 DEF RecGet
    <3>2. id' \in [Sens \cup Recs -> Int]
      BY <2>1 DEF RecGet, MsgTypeOK, Failed
    <3> QED BY <2>1, <3>1, <3>2 DEF RecGet, MsgTypeOK
  <2>2. CASE RecReceive(r)
    BY <2>2, <1>2, <1>6 DEF RecReceive, MsgTypeOK, Message
  <2>3. CASE RecSend(r)
    <3>1. Typed(2, r) \in Message
      BY DEF Typed, Message, Pids
    <3> QED BY <2>3, <3>1, <1>2, <1>5 DEF RecSend, MsgTypeOK, Message
  <2> QED BY <1>8, <2>0, <2>1, <2>2, <2>3 DEF RecStep
<1> QED BY <1>1, <1>7, <1>8 DEF MsgNext

(* Steps of sen.                                                              *)
LEMMA MsgSenStep ==
  ASSUME MsgTypeOK, OneSen, NEW s \in Sens, Exchange(s), SenStart(s) \/ SenStep(s)
  PROVE  Exchange(s)'
<1>0. /\ s \notin Recs /\ s \in DOMAIN pc /\ s \in DOMAIN id /\ s \in DOMAIN got
      /\ cur \in Nat /\ last \in Nat /\ cur <= last /\ NoQueue = 0 /\ Failed = -1
      /\ \A r \in Recs : id[r] \in Int
  BY MsgAssumption DEF MsgTypeOK, NoQueue, Failed
<1>r. \A r \in Recs : pc'[r] = pc[r] /\ id'[r] = id[r]
  <2>1. \E to : pc' = [pc EXCEPT ![s] = to]
    BY DEF SenStart, SenStep, SenGet, SenRemove, SenGetNew, SenSend, SenReceive, SenEnd, Go
  <2>2. id' = id \/ \E k : id' = [id EXCEPT ![s] = k]
    BY DEF SenStart, SenStep, SenGet, SenRemove, SenGetNew, SenSend, SenReceive, SenEnd, GetCreate
  <2> QED BY <1>0, <2>1, <2>2 DEF MsgTypeOK
<1>i. \A r \in Recs : id'[r] <= last' /\ (pc'[r] \in {"off", "start"} => id'[r] = Failed)
  <2>1. last' = last \/ last' = last + 1
    BY DEF SenStart, SenStep, SenGet, SenRemove, SenGetNew, SenSend, SenReceive, SenEnd, GetCreate
  <2> QED BY <1>0, <1>r, <2>1 DEF Exchange
<1>1. CASE SenStart(s) \/ SenGet(s) \/ SenRemove(s)
  <2>1. CASE SenStart(s)
    BY <1>0, <1>i, <2>1 DEF SenStart, Exchange, Go
  <2>2. CASE SenGet(s)
    BY <1>0, <1>i, <2>2 DEF SenGet, GetCreate, Exchange, Go, Live, MsgTypeOK
  <2>3. CASE SenRemove(s)
    BY <1>0, <1>i, <2>3 DEF SenRemove, Rmid, Exchange, Go, Live
  <2> QED BY <1>1, <2>1, <2>2, <2>3
<1>2. CASE SenGetNew(s)
  <2>1. pc[s] = "get" /\ pc'[s] = "send" /\ cur = NoQueue
    BY <1>0, <1>2 DEF SenGetNew, Go, Exchange
  <2>2. cur' = last + 1 /\ q' = <<>> /\ id'[s] = cur'
    BY <1>0, <1>2, <2>1 DEF SenGetNew, GetCreate, MsgTypeOK
  <2>3. Met' = {} /\ Live(s)'
    BY <1>0, <1>r, <2>2 DEF Exchange, Met, Live
  <2> QED BY <1>i, <2>1, <2>2, <2>3 DEF Exchange
<1>3. CASE SenSend(s)
  <2>1. /\ pc[s] = "send" /\ pc'[s] = "receive" /\ UNCHANGED <<cur, last, id, got>>
        /\ Live(s) /\ q = <<>> /\ \A r \in Met : pc[r] = "receive"
    BY <1>0, <1>3 DEF SenSend, Go, Exchange
  <2>2. q' = <<Typed(1, s)>>
    BY <1>3, <2>1 DEF SenSend, Send
  <2>3. Asks(s)' /\ Live(s)'
    BY <1>r, <2>1, <2>2 DEF Asks, Met, Live
  <2> QED BY <1>i, <2>1, <2>3 DEF Exchange
<1>4. CASE SenReceive(s)
  <2>1. pc[s] = "receive" /\ Live(s) /\ Asks(s) /\ pc'[s] = "end"
    BY <1>0, <1>4 DEF SenReceive, MsgTypeOK, Go, Exchange
  <2>2. PICK k \in 1..Len(q) : q[k].dir = 2 /\ got' = [got EXCEPT ![s] = q[k].pid]
    BY <1>4, <2>1 DEF SenReceive, Receive
  <2>3. PICK r \in Recs : got[r] = s /\ pc[r] = "done" /\ q = <<Typed(2, r)>>
    <3>1. q # <<>> /\ q # <<Typed(1, s)>>
      <4>1. Len(<<>>) = 0 /\ Len(<<Typed(1, s)>>) = 1 /\ <<Typed(1, s)>>[1].dir = 1
        BY DEF Typed
      <4> QED BY <2>2, <4>1
    <3> QED BY <2>1, <3>1 DEF Asks, Met
  <2>4. k = 1 /\ q[k].pid = r
    BY <2>2, <2>3 DEF Typed
  <2>5. got'[s] = r /\ got'[r] = s
    BY <1>0, <2>2, <2>3, <2>4 DEF MsgTypeOK
  <2> QED BY <1>0, <1>r, <1>i, <2>1, <2>3, <2>5 DEF Exchange
<1>5. CASE SenEnd(s)
  <2>1. pc[s] = "end" /\ pc'[s] = "done" /\ UNCHANGED got
    BY <1>0, <1>5 DEF SenEnd, Go
  <2> QED BY <1>0, <1>r, <1>i, <2>1 DEF Exchange
<1> QED BY <1>1, <1>2, <1>3, <1>4, <1>5 DEF SenStep

(* Steps of rec.                                                              *)
LEMMA MsgRecStep ==
  ASSUME MsgTypeOK, OneSen, NEW s \in Sens, Exchange(s), NEW r \in Recs, RecStart(r) \/ RecStep(r)
  PROVE  Exchange(s)'
<1>0. /\ s # r /\ {s, r} \subseteq DOMAIN pc /\ {s, r} \subseteq DOMAIN id /\ {s, r} \subseteq DOMAIN got
      /\ cur \in Nat /\ last \in Nat /\ cur <= last /\ NoQueue = 0 /\ Failed = -1
  BY MsgAssumption DEF MsgTypeOK, NoQueue, Failed
<1>1. /\ cur' = cur /\ last' = last /\ id'[s] = id[s] /\ pc'[s] = pc[s] /\ got'[s] = got[s]
      /\ \A o \in Recs \ {r} : pc'[o] = pc[o] /\ id'[o] = id[o] /\ got'[o] = got[o]
      /\ pc[r] # "done" /\ (pc'[r] = "start" => pc[r] = "off")
  BY <1>0 DEF MsgTypeOK, RecStart, RecStep, RecGet, RecReceive, RecSend, Go, Receive
<1>i. \A o \in Recs : id'[o] <= last' /\ (pc'[o] \in {"off", "start"} => id'[o] = Failed)
  <2>1. CASE RecGet(r)
    BY <1>0, <1>1, <2>1 DEF RecGet, Go, Exchange, MsgTypeOK
  <2>2. CASE RecStart(r) \/ RecReceive(r) \/ RecSend(r)
    <3>1. id' = id /\ (pc'[r] \in {"off", "start"} => pc[r] = "off")
      BY <1>0, <2>2 DEF RecStart, RecReceive, RecSend, Go
    <3> QED BY <1>1, <3>1 DEF Exchange
  <2> QED BY <2>1, <2>2 DEF RecStep
<1>2. CASE pc[s] \in {"end", "done"}
  <2>1. got[s] \in Recs /\ pc[got[s]] = "done" /\ got[got[s]] = s
    BY <1>2 DEF Exchange
  <2>2. got[s] # r
    BY <1>1, <2>1
  <2> QED BY <1>1, <1>2, <1>i, <2>1, <2>2 DEF Exchange
<1>3. CASE pc[s] \notin {"send", "receive", "end", "done"}
  BY <1>1, <1>i, <1>3 DEF Exchange, Live
(* A rec that has not found the new queue leaves it alone.                    *)
<1>4. CASE pc[s] \in {"send", "receive"}
  <2>0. Live(s) /\ Live(s)'
    BY <1>1, <1>4 DEF Exchange, Live
  <2>1. CASE r \notin Met /\ r \notin Met'
    <3>1. q' = q
      BY <2>1 DEF Met, RecStart, RecStep, RecGet, RecReceive, RecSend, Receive, Send, Live
    <3>2. Met' = Met /\ \A o \in Met : pc'[o] = pc[o] /\ got'[o] = got[o]
      BY <1>1, <2>1 DEF Met
    <3>3. Asks(s) => Asks(s)'
      BY <3>1, <3>2 DEF Asks
    <3> QED BY <1>1, <1>i, <1>4, <2>0, <3>1, <3>2, <3>3 DEF Exchange
  <2>2. CASE RecGet(r)
    <3>1. pc[r] = "start" /\ pc'[r] = "receive" /\ q' = q /\ got' = got /\ r \notin Met /\ id'[r] = cur
      BY <1>0, <2>0, <2>2 DEF RecGet, Go, Exchange, Met, Live, MsgTypeOK
    <3>2. Met' = Met \cup {r} /\ \A o \in Met : pc'[o] = pc[o]
      BY <1>1, <3>1 DEF Met
    <3>3. Asks(s) => Asks(s)'
      BY <3>1, <3>2 DEF Asks
    <3> QED BY <1>1, <1>i, <1>4, <2>0, <3>1, <3>2, <3>3 DEF Exchange
  <2>3. CASE RecReceive(r) /\ r \in Met
    <3>1. pc[r] = "receive" /\ pc'[r] = "send" /\ id' = id /\ Live(r)
      BY <1>0, <2>0, <2>3 DEF RecReceive, Go, Live, Met
    <3>2. PICK k \in 1..Len(q) : q[k].dir = 1 /\ q' = RemoveAt(q, k) /\ got' = [got EXCEPT ![r] = q[k].pid]
      BY <2>3, <3>1 DEF RecReceive, Receive
    <3>3. pc[s] = "receive" /\ q = <<Typed(1, s)>> /\ \A o \in Met : pc[o] = "receive"
      <4>1. q # <<>> /\ \A o \in Recs : q # <<Typed(2, o)>>
        <5>1. Len(<<>>) = 0 /\ \A o \in Recs : Len(<<Typed(2, o)>>) = 1 /\ <<Typed(2, o)>>[1].dir = 2
          BY DEF Typed
        <5> QED BY <3>2, <5>1
      <4> QED BY <1>4, <4>1 DEF Asks, Exchange, Met
    <3>4. Len(q) = 1 /\ k = 1 /\ q[k].pid = s
      BY <3>2, <3>3 DEF Typed
    <3>5. q' = <<>> /\ got'[r] = s /\ Met' = Met
      BY <1>0, <1>1, <3>1, <3>2, <3>4, MsgTaken DEF MsgTypeOK, Met
    <3>6. Asks(s)'
      BY <1>1, <2>3, <3>1, <3>3, <3>5 DEF Asks, Met
    <3> QED BY <1>1, <1>i, <2>0, <3>3, <3>6 DEF Exchange
  <2>4. CASE RecSend(r) /\ r \in Met
    <3>1. pc[r] = "send" /\ pc'[r] = "done" /\ id' = id /\ got' = got /\ Live(r)
      BY <1>0, <2>0, <2>4 DEF RecSend, Go, Live, Met
    <3>2. pc[s] = "receive" /\ q = <<>> /\ got[r] = s /\ \A o \in Met \ {r} : pc[o] = "receive"
      BY <1>4, <2>4, <3>1 DEF Asks, Exchange
    <3>3. q' = <<Typed(2, r)>> /\ Met' = Met
      BY <1>1, <2>4, <3>1, <3>2 DEF RecSend, Send, Met
    <3>4. Asks(s)'
      BY <1>1, <2>4, <3>1, <3>2, <3>3 DEF Asks, Met
    <3> QED BY <1>1, <1>i, <2>0, <3>2, <3>4 DEF Exchange
  <2>5. CASE RecStart(r) \/ ((RecReceive(r) \/ RecSend(r)) /\ r \notin Met)
    <3>1. r \notin Met
      BY <1>0, <2>0, <2>5 DEF RecStart, Go, Exchange, Met, Live
    <3>2. r \notin Met'
      BY <1>1, <2>5, <3>1 DEF Met, RecStart, RecReceive, RecSend
    <3> QED BY <2>1, <3>1, <3>2
  <2> QED BY <2>2, <2>3, <2>4, <2>5 DEF RecStep
<1> QED BY <1>2, <1>3, <1>4

(* Every step of sen and rec keeps the exchange.                              *)
LEMMA MsgNextInv == MsgIInv /\ [MsgNext]_msgVars => MsgIInv'
<1> SUFFICES ASSUME MsgIInv, [MsgNext]_msgVars PROVE MsgIInv'
  OBVIOUS
<1>1. MsgTypeOK /\ MsgTypeOK'
  BY MsgTypeStep DEF MsgIInv
<1>2. ASSUME OneSen, NEW s \in Sens PROVE Exchange(s)'
  <2>1. Exchange(s) /\ Sens = {s}
    BY <1>2 DEF MsgIInv, OneSen
  <2>2. CASE UNCHANGED msgVars
    BY <2>1, <2>2 DEF Exchange, Asks, Live, Met, msgVars
  <2>3. CASE MsgNext
    BY <1>1, <1>2, <2>1, <2>3, MsgSenStep, MsgRecStep DEF MsgNext
  <2> QED BY <2>2, <2>3
<1> QED BY <1>1, <1>2 DEF MsgIInv, OneSen
-----------------------------------------------------------------------------
(* grep.  The commands that are forked are the first so many of Command; the  *)
(* runner counts as many waits as it has commands, or more.                   *)
CommandCount == Len(Command)
Gone == {c \in Commands : stage[c] = "gone"}
AllGone == \A c \in 1..CommandCount : stage[c] = "gone"
Forked ==
  /\ runner = "fork" => /\ count <= CommandCount /\ fds[Runner] = Ends
                        /\ \A c \in Commands : stage[c] = "none" <=> c > count
  /\ runner # "fork" => \A c \in Commands : stage[c] = "none" <=> c > CommandCount
Waited ==
  /\ runner = "wait" => count <= Waits /\ (AllGone \/ Cardinality(Gone) >= count)
  /\ runner = "done" => AllGone

(* The descriptors of a command, up to its end.                               *)
Input(c) == IF c > 1 /\ Command[c] # "blank" THEN c - 1 ELSE Terminal
Output(c) == IF c <= N THEN c ELSE Terminal
Redirected(c) ==
  /\ stage[c] \in {"dup", "close"} => fds[c] = Ends
  /\ stage[c] = "dup" => stdin[c] = Terminal /\ stdout[c] = Terminal
  /\ stage[c] \in {"close", "run"} => stdin[c] = Input(c) /\ stdout[c] = Output(c)
  /\ stage[c] = "run" => Command[c] \notin {"blank", "absent"}
PipeControl == /\ pieces \in Pipelines /\ PipeTypeOK /\ Forked /\ Waited
               /\ \A c \in Commands : Redirected(c)
-----------------------------------------------------------------------------
(* The pieces of the file are counted by what separates them.                 *)
LEMMA PiecesFit ==
  ASSUME pieces \in Pipelines
  PROVE  /\ pieces \in Seq(Pieces) /\ Len(pieces) \in 1..MaxPieces /\ Len(pieces) = N + 1
         /\ N \in 0..(MaxPieces - 1) /\ N + 1 \in Commands
         /\ CommandCount \in 0..(N + 1) /\ DOMAIN Command = 1..CommandCount
         /\ MaxPieces \in Nat \ {0} /\ Items \in Nat /\ PipeCap \in Nat \ {0}
<1>1. pieces \in Seq(Pieces) /\ Len(pieces) \in 1..MaxPieces /\ MaxPieces \in Nat /\ Items \in Nat /\ PipeCap \in Nat \ {0}
  BY PipelineAssumption
<1>2. MaxPieces \in Nat \ {0} /\ N \in 0..(MaxPieces - 1) /\ N + 1 \in Commands /\ Len(pieces) = N + 1
  BY <1>1 DEF N, Commands
<1> DEFINE kept == {k \in DOMAIN pieces : pieces[k] # "empty"}
           n == Cardinality(kept)
<1>3. n \in 0..Len(pieces)
  <2>1. kept \in SUBSET (1..Len(pieces))
    BY <1>1, LenProperties
  <2>2. IsFiniteSet(1..Len(pieces)) /\ Cardinality(1..Len(pieces)) = Len(pieces)
    BY <1>1, FS_Interval
  <2> HIDE DEF kept
  <2>3. n <= Len(pieces) /\ n \in Nat
    BY <2>1, <2>2, FS_Subset, FS_CardinalityType
  <2> QED BY <1>1, <2>3
<1>4. CommandCount = n /\ DOMAIN Command = 1..n
  <2> DEFINE S == {Command[c] : c \in 1..n}
  <2>1. Command \in [1..n -> S]
    BY DEF Command
  <2> HIDE DEF S, n
  <2>2. Command \in Seq(S)
    BY <1>3, <2>1
  <2>3. DOMAIN Command = 1..n /\ DOMAIN Command = 1..Len(Command) /\ Len(Command) \in Nat
    BY <2>1, <2>2, LenProperties
  <2>4. n \in Nat
    BY <1>3
  <2>5. Len(Command) = n
    BY <2>1, <2>4
  <2> QED BY <2>3, <2>5 DEF CommandCount
<1> QED BY <1>1, <1>2, <1>3, <1>4

(* Where no piece is empty the commands are the pieces.                       *)
LEMMA NothingDropped ==
  ASSUME pieces \in Pipelines, \A k \in DOMAIN pieces : pieces[k] # "empty"
  PROVE  CommandCount = N + 1 /\ \A c \in 1..(N + 1) : Command[c] = pieces[c]
<1> DEFINE n == N + 1
           kept == {k \in DOMAIN pieces : pieces[k] # "empty"}
<1>1. n \in Nat /\ Len(pieces) = n /\ kept = 1..n /\ CommandCount \in 0..n
  BY PiecesFit, LenProperties
<1>2. \A k \in 0..n : Cardinality(1..k) = k
  BY <1>1, FS_Interval
<1>3. \A k \in 1..n : {j \in kept : j <= k} = 1..k
  BY <1>1
<1>4. Cardinality(kept) = n
  <2> HIDE DEF kept, n
  <2> QED BY <1>1, <1>2
<1>5. \A c \in 1..n : (CHOOSE k \in kept : Cardinality({j \in kept : j <= k}) = c) = c
  <2> TAKE c \in 1..n
  <2>1. \A k \in kept : Cardinality({j \in kept : j <= k}) = c <=> k = c
    <3> HIDE DEF kept, n
    <3>1. ASSUME NEW k \in 1..n PROVE Cardinality({j \in kept : j <= k}) = k
      <4>1. {j \in kept : j <= k} = 1..k
        BY <1>3
      <4>2. Cardinality(1..k) = k
        BY <1>1, <1>2
      <4> QED BY <4>1, <4>2
    <3> QED BY <1>1, <3>1
  <2>2. c \in kept
    BY <1>1
  <2> HIDE DEF kept
  <2> QED BY <2>1, <2>2
<1>6. Command = [c \in 1..n |-> pieces[c]]
  <2>1. Command = [c \in 1..Cardinality(kept) |-> pieces[CHOOSE k \in kept : Cardinality({j \in kept : j <= k}) = c]]
    BY DEF Command
  <2> DEFINE place(c) == CHOOSE k \in kept : Cardinality({j \in kept : j <= k}) = c
  <2>2. Command = [c \in 1..Cardinality(kept) |-> pieces[place(c)]] /\ \A c \in 1..n : place(c) = c
    BY <1>5, <2>1
  <2> HIDE DEF kept, n, place
  <2> QED BY <1>4, <2>2
<1>7. 1..CommandCount = 1..n
  BY <1>6, PiecesFit
<1> QED BY <1>1, <1>6, <1>7

(* As long as the file does not change.                                       *)
LEMMA SameFile ==
  ASSUME pieces' = pieces
  PROVE  /\ Command' = Command /\ CommandCount' = CommandCount /\ N' = N /\ Ends' = Ends /\ Waits' = Waits
         /\ \A c : Input(c)' = Input(c) /\ Output(c)' = Output(c)
BY DEF Command, CommandCount, N, Ends, Waits, Input, Output

(* grep begins so, with any file.                                             *)
LEMMA PipeInitControl == ASSUME NEW files \in SUBSET Pipelines, PipeInit(files) PROVE PipeControl
<1> USE DEF PipeInit
<1>1. pieces \in Pipelines
  OBVIOUS
<1>2. PipeTypeOK
  <2>1. 0 \in 0..MaxPieces /\ 0 \in 0..Items /\ N \in Nat /\ pieces \in Seq(Pieces)
    BY <1>1, PiecesFit
  <2>2. stdin \in [Commands -> Closed..N] /\ stdout \in [Commands -> Closed..N]
    BY <2>1 DEF Closed
  <2>3. data \in [Commands -> Seq(1..Items)] /\ \A v \in Commands : Len(data[v]) <= PipeCap
    BY PipelineAssumption
  <2>4. screen \in Seq(1..Items)
    OBVIOUS
  <2>5. fds \in [{Runner} \cup Commands -> SUBSET Ends]
    OBVIOUS
  <2> QED BY <2>1, <2>2, <2>3, <2>4, <2>5 DEF PipeTypeOK
<1>3. Forked
  BY <1>1, PiecesFit DEF Forked, Commands
<1>4. Waited
  BY DEF Waited
<1>5. \A c \in Commands : Redirected(c)
  BY DEF Redirected
<1> QED BY <1>1, <1>2, <1>3, <1>4, <1>5 DEF PipeControl

(* What the step of a command leaves alone, and where it may lead.            *)
LEMMA CommandOnly ==
  ASSUME PipeControl, NEW c \in Commands, CommandStep(c)
  PROVE  /\ UNCHANGED <<pieces, runner, count>> /\ c \in 1..CommandCount
         /\ stage' \in [Commands -> {"none", "dup", "close", "run", "ended", "gone"}]
         /\ stage[c] \in {"dup", "close", "run"} /\ stage'[c] \in {"close", "run", "ended"}
         /\ stdin' \in [Commands -> Closed..N] /\ stdout' \in [Commands -> Closed..N]
         /\ \A o \in Commands \ {c} : stage'[o] = stage[o] /\ stdin'[o] = stdin[o] /\ stdout'[o] = stdout[o]
         /\ \A p \in {Runner} \cup Commands : fds'[p] = fds[p] \/ (p = c /\ fds'[p] = {})
         /\ \A p \in ({Runner} \cup Commands) \ {c} : fds'[p] = fds[p]
<1>1. /\ stage \in [Commands -> {"none", "dup", "close", "run", "ended", "gone"}]
      /\ fds \in [{Runner} \cup Commands -> SUBSET Ends]
      /\ stdin \in [Commands -> Closed..N] /\ stdout \in [Commands -> Closed..N] /\ Runner \notin Commands
  BY DEF PipeControl, PipeTypeOK, Commands, Runner
<1>2. UNCHANGED <<pieces, runner, count>>
  BY DEF CommandStep, Dup, Exec, Take, SeeEnd, Put, Broken
<1>3. stage[c] \in {"dup", "close", "run"}
  BY DEF CommandStep, Dup, Exec, Take, SeeEnd, Put, Broken, Running
<1>4. c \in 1..CommandCount
  <2>1. c \in Nat \ {0} /\ stage[c] # "none"
    BY <1>3, PiecesFit DEF PipeControl, Commands
  <2>2. CommandCount \in Nat /\ count \in Nat
    BY PiecesFit DEF PipeControl, PipeTypeOK
  <2> QED BY <2>1, <2>2 DEF PipeControl, Forked
<1>5. fds' = fds \/ fds' = [fds EXCEPT ![c] = {}]
  BY DEF CommandStep, Dup, Exec, Take, SeeEnd, Put, Broken, ClosePipes
<1>6. /\ \A p \in {Runner} \cup Commands : fds'[p] = fds[p] \/ (p = c /\ fds'[p] = {})
      /\ \A p \in ({Runner} \cup Commands) \ {c} : fds'[p] = fds[p]
  <2>1. CASE fds' = fds
    BY <2>1
  <2>2. CASE fds' = [fds EXCEPT ![c] = {}]
    BY <1>1, <2>2
  <2> QED BY <1>5, <2>1, <2>2
<1>7. \/ UNCHANGED <<stage, stdin, stdout>> /\ stage[c] = "run"
      \/ Ended(c)
      \/ stage' = [stage EXCEPT ![c] = "run"] /\ UNCHANGED <<stdin, stdout>>
      \/ Dup(c)
  BY DEF CommandStep, Exec, Take, SeeEnd, Put, Broken, Running
<1>8. /\ stage' \in [Commands -> {"none", "dup", "close", "run", "ended", "gone"}]
      /\ stage'[c] \in {"close", "run", "ended"}
      /\ stdin' \in [Commands -> Closed..N] /\ stdout' \in [Commands -> Closed..N]
      /\ \A o \in Commands \ {c} : stage'[o] = stage[o] /\ stdin'[o] = stdin[o] /\ stdout'[o] = stdout[o]
  <2>1. CASE UNCHANGED <<stage, stdin, stdout>> /\ stage[c] = "run"
    BY <1>1, <2>1
  <2>2. CASE Ended(c)
    <3>1. Closed \in Closed..N
      BY PiecesFit DEF PipeControl, Closed
    <3> QED BY <1>1, <2>2, <3>1 DEF Ended
  <2>3. CASE stage' = [stage EXCEPT ![c] = "run"] /\ UNCHANGED <<stdin, stdout>>
    BY <1>1, <2>3
  <2>4. CASE Dup(c)
    <3>1. N \in Nat /\ c \in Nat \ {0} /\ c - 1 <= N
      BY <1>4, PiecesFit DEF PipeControl
    <3>2. c - 1 \in Closed..N /\ (WritesPipe(c) => c \in Closed..N)
      BY <3>1 DEF WritesPipe, Closed
    <3>3. stdin' \in [Commands -> Closed..N] /\ stdout' \in [Commands -> Closed..N]
      BY <1>1, <2>4, <3>2 DEF Dup
    <3> QED BY <1>1, <2>4, <3>3 DEF Dup
  <2> QED BY <1>7, <2>1, <2>2, <2>3, <2>4
<1> QED BY <1>2, <1>3, <1>4, <1>6, <1>8

(* So the runner's part of the invariant is kept by every command.            *)
LEMMA CommandKeepsRunner ==
  ASSUME PipeControl, NEW c \in Commands, CommandStep(c)
  PROVE  Forked' /\ Waited'
<1>1. /\ UNCHANGED <<pieces, runner, count>> /\ c \in 1..CommandCount
      /\ stage[c] \in {"dup", "close", "run"} /\ stage'[c] \in {"close", "run", "ended"}
      /\ \A o \in Commands \ {c} : stage'[o] = stage[o]
      /\ \A p \in ({Runner} \cup Commands) \ {c} : fds'[p] = fds[p]
  BY CommandOnly
<1>2. CommandCount' = CommandCount /\ Ends' = Ends /\ Waits' = Waits
  BY <1>1, SameFile
<1>3. Runner \notin Commands
  BY DEF Commands, Runner
<1>4. \A o \in Commands : stage'[o] = "none" <=> stage[o] = "none"
  BY <1>1
<1>5. Forked'
  BY <1>1, <1>2, <1>3, <1>4 DEF PipeControl, Forked
<1>6. ~AllGone /\ Gone' = Gone
  BY <1>1, <1>2 DEF AllGone, Gone, Commands
<1>7. Waited'
  BY <1>1, <1>2, <1>6 DEF PipeControl, Waited
<1> QED BY <1>5, <1>7

(* A command redirects nobody's input or output.                              *)
LEMMA CommandRedirects ==
  ASSUME PipeControl, NEW c \in Commands, CommandStep(c)
  PROVE  \A o \in Commands : Redirected(o)'
<1>1. /\ pieces' = pieces /\ stage[c] \in {"dup", "close", "run"}
      /\ \A o \in Commands \ {c} : stage'[o] = stage[o] /\ stdin'[o] = stdin[o] /\ stdout'[o] = stdout[o]
      /\ \A p \in ({Runner} \cup Commands) \ {c} : fds'[p] = fds[p]
  BY CommandOnly
<1>2. Ends' = Ends /\ Command' = Command /\ \A o : Input(o)' = Input(o) /\ Output(o)' = Output(o)
  BY <1>1, SameFile
<1>3. ASSUME NEW o \in Commands \ {c} PROVE Redirected(o)'
  BY <1>1, <1>2, <1>3 DEF PipeControl, Redirected
<1>4. Redirected(c)'
  <2>0. Redirected(c) /\ c \in DOMAIN stage /\ c \in DOMAIN stdin /\ c \in DOMAIN stdout
    BY DEF PipeControl, PipeTypeOK
  <2>1. CASE Dup(c)
    <3>1. stage[c] = "dup" /\ stage'[c] = "close" /\ fds'[c] = Ends
      BY <2>0, <2>1 DEF Dup, Redirected
    <3>2. stdin'[c] = Input(c) /\ stdout'[c] = Output(c)
      BY <2>0, <2>1, <3>1 DEF Dup, Redirected, Input, Output, WritesPipe
    <3> QED BY <1>2, <3>1, <3>2 DEF Redirected
  <2>2. CASE Exec(c) /\ stage'[c] = "run"
    <3>1. UNCHANGED <<stdin, stdout>> /\ stage[c] = "close" /\ Command[c] \notin {"blank", "absent"}
      BY <2>0, <2>2 DEF Exec, Ended
    <3> QED BY <1>2, <2>0, <2>2, <3>1 DEF Redirected
  <2>3. CASE UNCHANGED <<stage, stdin, stdout>> /\ stage[c] = "run"
    BY <1>2, <2>0, <2>3 DEF Redirected
  <2>4. CASE stage'[c] = "ended"
    BY <2>4 DEF Redirected
  <2>5. \/ Dup(c)
        \/ Exec(c) /\ stage'[c] = "run"
        \/ stage'[c] = "ended"
        \/ UNCHANGED <<stage, stdin, stdout>> /\ stage[c] = "run"
    <3>1. Ended(c) => stage'[c] = "ended"
      BY <2>0 DEF Ended
    <3>2. Exec(c) => stage'[c] \in {"run", "ended"}
      BY <2>0, <3>1 DEF Exec
    <3>3. Take(c) => UNCHANGED <<stage, stdin, stdout>> /\ stage[c] = "run"
      BY DEF Take, Running
    <3>4. SeeEnd(c) \/ Broken(c) => Ended(c)
      BY DEF SeeEnd, Broken
    <3>5. Put(c) => Ended(c) \/ (UNCHANGED <<stage, stdin, stdout>> /\ stage[c] = "run")
      BY DEF Put, Running
    <3> QED BY <3>1, <3>2, <3>3, <3>4, <3>5 DEF CommandStep
  <2> QED BY <2>1, <2>2, <2>3, <2>4, <2>5
<1> QED BY <1>3, <1>4

(* The steps of the runner.                                                   *)
LEMMA RunnerControl ==
  ASSUME PipeControl, RunnerStep
  PROVE  /\ UNCHANGED <<pieces, data, hand, made, screen>>
         /\ stage' \in [Commands -> {"none", "dup", "close", "run", "ended", "gone"}]
         /\ runner' \in {"fork", "wait", "done"} /\ count' \in 0..MaxPieces
         /\ fds' \in [{Runner} \cup Commands -> SUBSET Ends]
         /\ stdin' \in [Commands -> Closed..N] /\ stdout' \in [Commands -> Closed..N]
         /\ Forked' /\ Waited' /\ \A c \in Commands : Redirected(c)'
         /\ \A c \in Commands : \/ stage'[c] = stage[c]
                                \/ stage[c] = "none" /\ stage'[c] = "dup"
                                \/ stage[c] = "ended" /\ stage'[c] = "gone"
<1>0. /\ stage \in [Commands -> {"none", "dup", "close", "run", "ended", "gone"}]
      /\ runner \in {"fork", "wait", "done"} /\ count \in 0..MaxPieces
      /\ fds \in [{Runner} \cup Commands -> SUBSET Ends]
      /\ stdin \in [Commands -> Closed..N] /\ stdout \in [Commands -> Closed..N]
      /\ Forked /\ Waited /\ \A c \in Commands : Redirected(c)
  BY DEF PipeControl, PipeTypeOK
<1>1. /\ CommandCount \in 0..(N + 1) /\ N \in 0..(MaxPieces - 1) /\ MaxPieces \in Nat \ {0}
      /\ Runner \notin Commands /\ Commands = 1..MaxPieces
  BY PiecesFit DEF PipeControl, Commands, Runner
<1>2. UNCHANGED <<pieces, data, hand, made, screen>>
  BY DEF RunnerStep, Fork, RunnerCloses, Wait, Return
<1>3. /\ Command' = Command /\ CommandCount' = CommandCount /\ N' = N /\ Ends' = Ends /\ Waits' = Waits
      /\ \A c : Input(c)' = Input(c) /\ Output(c)' = Output(c)
  BY <1>2, SameFile
<1>4. CASE Fork
  <2> DEFINE n == count + 1
  <2>1. /\ runner = "fork" /\ n <= CommandCount /\ count' = n /\ runner' = runner
        /\ fds' = [fds EXCEPT ![n] = fds[Runner]]
        /\ stdin' = [stdin EXCEPT ![n] = Terminal] /\ stdout' = [stdout EXCEPT ![n] = Terminal]
        /\ stage' = [stage EXCEPT ![n] = "dup"]
    BY <1>4 DEF Fork, CommandCount
  <2>2. n \in Commands /\ n \in Nat /\ count \in Nat /\ fds[Runner] = Ends /\ Terminal \in Closed..N
    BY <1>0, <1>1, <2>1 DEF Forked, Terminal, Closed
  <2>3. \A c \in Commands : stage[c] = "none" <=> c > count
    BY <1>0, <2>1 DEF Forked
  <2> HIDE DEF n
  <2>4. /\ stage'[n] = "dup" /\ stdin'[n] = Terminal /\ stdout'[n] = Terminal /\ fds'[n] = Ends
        /\ \A c \in Commands \ {n} : stage'[c] = stage[c] /\ stdin'[c] = stdin[c]
                                     /\ stdout'[c] = stdout[c] /\ fds'[c] = fds[c]
        /\ fds'[Runner] = Ends
    BY <1>0, <1>1, <2>1, <2>2
  <2>5. /\ stage' \in [Commands -> {"none", "dup", "close", "run", "ended", "gone"}]
        /\ stdin' \in [Commands -> Closed..N] /\ stdout' \in [Commands -> Closed..N]
        /\ fds' \in [{Runner} \cup Commands -> SUBSET Ends]
    BY <1>0, <2>1, <2>2
  <2>6. stage[n] = "none" /\ count' \in 0..MaxPieces
    BY <1>1, <2>1, <2>2, <2>3 DEF n
  <2>7. Forked'
    <3>1. \A c \in Commands : stage'[c] = "none" <=> c > count'
      BY <1>1, <2>1, <2>2, <2>3, <2>4 DEF n
    <3> QED BY <1>3, <2>1, <2>4, <3>1 DEF Forked
  <2>8. Waited'
    BY <2>1 DEF Waited
  <2>9. \A c \in Commands : Redirected(c)'
    BY <1>0, <1>3, <2>4 DEF Redirected
  <2> QED BY <1>0, <1>2, <2>1, <2>4, <2>5, <2>6, <2>7, <2>8, <2>9
<1>5. CASE RunnerCloses
  <2>1. /\ runner = "fork" /\ count = CommandCount /\ runner' = "wait" /\ count' = 0
        /\ fds' = [fds EXCEPT ![Runner] = {}] /\ UNCHANGED <<stage, stdin, stdout>>
    BY <1>5 DEF RunnerCloses, ClosePipes, CommandCount
  <2>2. \A c \in Commands : fds'[c] = fds[c]
    BY <1>0, <1>1, <2>1
  <2>3. Forked'
    BY <1>0, <1>3, <2>1 DEF Forked
  <2>4. Waited'
    <3>1. Cardinality(Gone') \in Nat
      <4>1. Gone' \in SUBSET Commands /\ IsFiniteSet(Commands)
        BY <1>1, FS_Interval DEF Gone
      <4> QED BY <4>1, FS_Subset, FS_CardinalityType
    <3>2. 0 <= Waits /\ Waits' = Waits
      BY <1>1, <1>3 DEF Waits
    <3> QED BY <2>1, <3>1, <3>2 DEF Waited
  <2>5. \A c \in Commands : Redirected(c)'
    BY <1>0, <1>3, <2>1, <2>2 DEF Redirected
  <2>6. fds' \in [{Runner} \cup Commands -> SUBSET Ends] /\ count' \in 0..MaxPieces
    BY <1>0, <1>1, <2>1
  <2> QED BY <1>0, <1>2, <2>1, <2>3, <2>4, <2>5, <2>6
<1>6. CASE Wait
  <2>1. /\ runner = "wait" /\ count < Waits /\ count' = count + 1 /\ UNCHANGED <<runner, fds, stdin, stdout>>
        /\ count \in Nat /\ Waits = N + 1
    BY <1>0, <1>6 DEF Wait, Waits
  <2>2. count' \in 0..MaxPieces /\ count' <= Waits
    BY <1>1, <2>1
  <2>3. CASE \A c \in Commands : stage[c] \in {"none", "gone"} /\ UNCHANGED stage
    <3>1. 1 \in Commands /\ UNCHANGED stage
      BY <1>1, <2>3
    <3>2. AllGone'
      BY <1>0, <1>1, <1>3, <2>1, <2>3, <3>1 DEF AllGone, Forked
    <3>3. Forked' /\ Waited'
      BY <1>0, <1>3, <2>1, <2>2, <3>1, <3>2 DEF Forked, Waited
    <3> QED BY <1>0, <1>2, <1>3, <2>1, <2>2, <3>1, <3>3 DEF Redirected
  <2>4. ASSUME NEW c \in Commands, stage[c] = "ended", stage' = [stage EXCEPT ![c] = "gone"]
        PROVE  /\ stage' \in [Commands -> {"none", "dup", "close", "run", "ended", "gone"}]
               /\ Forked' /\ Waited' /\ \A o \in Commands : Redirected(o)'
               /\ \A o \in Commands : stage'[o] = stage[o] \/ (stage[o] = "ended" /\ stage'[o] = "gone")
    <3>1. stage' \in [Commands -> {"none", "dup", "close", "run", "ended", "gone"}]
      BY <1>0, <2>4
    <3>2. stage'[c] = "gone" /\ \A o \in Commands \ {c} : stage'[o] = stage[o]
      BY <1>0, <2>4
    <3>3. Forked'
      BY <1>0, <1>3, <2>1, <2>4, <3>2 DEF Forked
    <3>4. \A o \in Commands : Redirected(o)'
      BY <1>0, <1>3, <2>1, <3>2 DEF Redirected
    <3>5. ~AllGone
      <4>1. c \in 1..CommandCount
        BY <1>0, <1>1, <2>1, <2>4 DEF Forked
      <4> QED BY <2>4, <4>1 DEF AllGone
    <3>6. Cardinality(Gone) >= count
      BY <1>0, <2>1, <3>5 DEF Waited
    <3>7. Gone' = Gone \cup {c} /\ c \notin Gone
      BY <2>4, <3>2 DEF Gone
    <3>8. IsFiniteSet(Gone) /\ Cardinality(Gone) \in Nat
      <4>1. Gone \in SUBSET Commands /\ IsFiniteSet(Commands)
        BY <1>1, FS_Interval DEF Gone
      <4> QED BY <4>1, FS_Subset, FS_CardinalityType
    <3>9. Cardinality(Gone') = Cardinality(Gone) + 1
      BY <3>7, <3>8, FS_AddElement
    <3>10. Waited'
      BY <1>3, <2>1, <2>2, <3>6, <3>8, <3>9 DEF Waited
    <3> QED BY <3>1, <3>2, <3>3, <3>4, <3>10, <2>4
  <2>5. \/ \A c \in Commands : stage[c] \in {"none", "gone"} /\ UNCHANGED stage
        \/ \E c \in Commands : stage[c] = "ended" /\ stage' = [stage EXCEPT ![c] = "gone"]
    BY <1>6 DEF Wait
  <2> QED BY <1>0, <1>2, <2>1, <2>2, <2>3, <2>4, <2>5
<1>7. CASE Return
  <2>1. /\ runner = "wait" /\ count = Waits /\ runner' = "done" /\ UNCHANGED <<count, stage, fds, stdin, stdout>>
    BY <1>7 DEF Return
  <2>2. AllGone
    <3> SUFFICES ASSUME Cardinality(Gone) >= N + 1 PROVE AllGone
      BY <1>0, <2>1 DEF Waited, Waits
    <3>1. Gone \in SUBSET (1..CommandCount)
      BY <1>0, <1>1, <2>1 DEF Gone, Forked
    <3>2. IsFiniteSet(1..CommandCount) /\ Cardinality(1..CommandCount) = CommandCount
      BY <1>1, FS_Interval
    <3>3. Cardinality(Gone) <= CommandCount /\ (Cardinality(Gone) = CommandCount => Gone = 1..CommandCount)
      BY <3>1, <3>2, FS_Subset
    <3>4. Cardinality(Gone) \in Nat
      BY <3>1, <3>2, FS_Subset, FS_CardinalityType
    <3>5. Gone = 1..CommandCount
      BY <1>1, <3>3, <3>4
    <3> QED BY <3>5 DEF AllGone, Gone
  <2>3. Waited' /\ Forked'
    BY <1>0, <1>3, <2>1, <2>2 DEF Waited, Forked, AllGone
  <2> QED BY <1>0, <1>2, <1>3, <2>1, <2>3 DEF Redirected
<1> QED BY <1>4, <1>5, <1>6, <1>7 DEF RunnerStep
-----------------------------------------------------------------------------
(* The items: command c has so far got rd[c] of them and passed on wr[c], the *)
(* first ones in their order.  What is in a pipe was written into it and not  *)
(* yet read.                                                                  *)
Outer(c) == Command[c] = "source" \/ c = 1
Taken(rd, n) == IF n + 1 <= CommandCount /\ ~Outer(n + 1) THEN rd[n + 1] ELSE 0
Holds(rd, wr, c) ==
  /\ stage[c] \in {"none", "dup", "close"} => rd[c] = 0 /\ wr[c] = 0 /\ hand[c] = 0 /\ made[c] = 0
  /\ stage[c] = "run" => /\ hand[c] = 0 => wr[c] = rd[c]
                         /\ hand[c] # 0 => hand[c] = rd[c] /\ rd[c] = wr[c] + 1
                         /\ Outer(c) => made[c] = rd[c]
  /\ wr[c] <= rd[c]
Carries(rd, wr, n) == /\ Len(data[n]) = wr[n] - Taken(rd, n)
                      /\ \A k \in 1..Len(data[n]) : data[n][k] = Taken(rd, n) + k
Shown(wr) == Len(screen) = wr[N + 1] /\ \A k \in 1..Len(screen) : screen[k] = k

(* When all pieces pass on what they get, those that no later source cuts off *)
(* pass on everything before they end.                                        *)
AllPass == \A k \in DOMAIN pieces : pieces[k] \in {"cat", "source"}
Feeding(c) == \A d \in (c + 1)..CommandCount : Command[d] = "cat"
PassesOn(wr, c) == AllPass /\ Feeding(c) /\ stage[c] \in {"ended", "gone"} => wr[c] = Items
Flow(rd, wr) == /\ \A c \in Commands : Holds(rd, wr, c)
                /\ \A n \in 1..N : Carries(rd, wr, n)
                /\ Shown(wr) /\ \A c \in 1..CommandCount : PassesOn(wr, c)
PipeIInv == PipeControl /\ \E rd, wr \in [Commands -> Nat] : Flow(rd, wr)

(* What depends on the file alone stays.                                      *)
LEMMA SameFlow ==
  ASSUME pieces' = pieces
  PROVE  /\ Command' = Command /\ CommandCount' = CommandCount /\ N' = N /\ (AllPass' <=> AllPass)
         /\ \A c : (Outer(c)' <=> Outer(c)) /\ (Feeding(c)' <=> Feeding(c))
         /\ \A rd, n : Taken(rd, n)' = Taken(rd, n)
BY SameFile DEF Outer, AllPass, Feeding, Taken

(* grep begins so: nothing is under way.                                      *)
LEMMA PipeInitInv == ASSUME NEW files \in SUBSET Pipelines, PipeInit(files) PROVE PipeIInv
<1> DEFINE z == [c \in Commands |-> 0]
<1>1. PipeControl /\ pieces \in Pipelines
  BY PipeInitControl DEF PipeInit
<1>2. /\ CommandCount \in 0..(N + 1) /\ N \in 0..(MaxPieces - 1) /\ N + 1 \in Commands
      /\ Commands = 1..MaxPieces /\ MaxPieces \in Nat \ {0}
  BY <1>1, PiecesFit DEF Commands
<1>3. z \in [Commands -> Nat] /\ \A c \in Commands : z[c] = 0
  OBVIOUS
<1> HIDE DEF z
<1>4. \A c \in Commands : Holds(z, z, c)
  BY <1>3 DEF PipeInit, Holds
<1>5. \A n \in 1..N : Carries(z, z, n)
  <2> TAKE n \in 1..N
  <2>1. n \in Commands /\ n + 1 \in Commands
    BY <1>2
  <2>2. Taken(z, n) = 0 /\ z[n] = 0 /\ data[n] = <<>>
    BY <1>3, <2>1 DEF Taken, PipeInit
  <2> QED BY <2>2 DEF Carries
<1>6. Shown(z)
  BY <1>2, <1>3 DEF Shown, PipeInit
<1>7. \A c \in 1..CommandCount : PassesOn(z, c)
  BY <1>2 DEF PassesOn, PipeInit
<1> QED BY <1>1, <1>3, <1>4, <1>5, <1>6, <1>7 DEF PipeIInv, Flow

(* A running command has its input from outside where it is the first one or  *)
(* makes it, and else from the pipe before it.                                *)
LEMMA RunningInput ==
  ASSUME PipeControl, NEW c \in 1..CommandCount, Running(c)
  PROVE  /\ FromOutside(c) <=> Outer(c)
         /\ ~Outer(c) => stdin[c] = c - 1 /\ c - 1 \in 1..N /\ \A rd : Taken(rd, c - 1) = rd[c]
         /\ c > N => c = N + 1 /\ stdout[c] = Terminal
         /\ c <= N => c \in 1..N /\ stdout[c] = c /\ stdout[c] # Terminal
<1>1. /\ CommandCount \in 0..(N + 1) /\ N \in 0..(MaxPieces - 1) /\ MaxPieces \in Nat \ {0} /\ c \in Commands
  BY PiecesFit DEF PipeControl, Commands
<1>2. stdin[c] = Input(c) /\ stdout[c] = Output(c) /\ Command[c] \notin {"blank", "absent"}
  BY <1>1 DEF PipeControl, Redirected, Running
<1>3. c \in Nat \ {0} /\ c <= N + 1 /\ N \in Nat /\ c - 1 + 1 = c /\ c <= CommandCount
  BY <1>1
<1> QED BY <1>2, <1>3 DEF Input, Output, Outer, FromOutside, Terminal, Taken

(* Steps that move no item.                                                   *)
LEMMA FlowStands ==
  ASSUME NEW rd \in [Commands -> Nat], NEW wr \in [Commands -> Nat], Flow(rd, wr),
         UNCHANGED <<pieces, data, made, screen>>, 1..CommandCount \subseteq Commands,
         \A c \in Commands : hand'[c] = hand[c] \/ stage'[c] = "ended",
         \A c \in Commands : \/ stage'[c] = stage[c]
                             \/ stage[c] \in {"none", "dup", "close"} /\ stage'[c] \in {"dup", "close", "run"}
                             \/ stage[c] = "ended" /\ stage'[c] = "gone"
                             \/ stage'[c] = "ended" /\ (AllPass /\ Feeding(c) => wr[c] = Items)
  PROVE  Flow(rd, wr)'
<1>1. /\ Command' = Command /\ CommandCount' = CommandCount /\ N' = N /\ (AllPass' <=> AllPass)
      /\ \A c : (Outer(c)' <=> Outer(c)) /\ (Feeding(c)' <=> Feeding(c))
      /\ \A n : Taken(rd, n)' = Taken(rd, n)
  BY SameFlow
<1>2. ASSUME NEW c \in Commands PROVE Holds(rd, wr, c)'
  <2>1. Holds(rd, wr, c)
    BY DEF Flow
  <2>2. rd[c] \in Nat /\ wr[c] \in Nat
    OBVIOUS
  <2>3. CASE stage'[c] = stage[c] /\ hand'[c] = hand[c]
    BY <1>1, <2>1, <2>2, <2>3 DEF Holds
  <2>4. CASE stage[c] \in {"none", "dup", "close"} /\ stage'[c] \in {"dup", "close", "run"}
    BY <1>1, <2>1, <2>2, <2>4 DEF Holds
  <2>5. CASE stage'[c] \in {"ended", "gone"}
    BY <1>1, <2>1, <2>2, <2>5 DEF Holds
  <2> QED BY <2>3, <2>4, <2>5
<1>3. \A n \in 1..N : Carries(rd, wr, n)'
  BY <1>1 DEF Flow, Carries
<1>4. Shown(wr)'
  BY <1>1 DEF Flow, Shown
<1>5. \A c \in 1..CommandCount : PassesOn(wr, c)'
  BY <1>1 DEF Flow, PassesOn
<1> QED BY <1>1, <1>2, <1>3, <1>4, <1>5 DEF Flow

(* A command takes an item, the next one of its source or of its pipe.        *)
LEMMA FlowTake ==
  ASSUME PipeControl, NEW c \in 1..CommandCount, Take(c), c \in Commands,
         NEW rd \in [Commands -> Nat], NEW wr \in [Commands -> Nat], Flow(rd, wr)
  PROVE  /\ PipeTypeOK' /\ Flow([rd EXCEPT ![c] = @ + 1], wr)'
<1> DEFINE get == [rd EXCEPT ![c] = @ + 1]
<1>0. /\ CommandCount \in 0..(N + 1) /\ N \in 0..(MaxPieces - 1) /\ MaxPieces \in Nat \ {0}
      /\ Items \in Nat /\ Commands = 1..MaxPieces
  BY PiecesFit DEF PipeControl, Commands
<1>1. /\ UNCHANGED <<pieces, runner, count, stage, fds, stdin, stdout, screen>>
      /\ Running(c) /\ stage[c] = "run" /\ hand[c] = 0
  BY DEF Take, Running
<1>2. /\ Command' = Command /\ CommandCount' = CommandCount /\ N' = N /\ (AllPass' <=> AllPass)
      /\ (\A d : (Outer(d)' <=> Outer(d)) /\ (Feeding(d)' <=> Feeding(d)))
      /\ \A r, n : Taken(r, n)' = Taken(r, n)
  BY <1>1, SameFlow
<1>3. /\ data \in [Commands -> Seq(1..Items)] /\ (\A n \in Commands : Len(data[n]) <= PipeCap)
      /\ hand \in [Commands -> 0..Items] /\ made \in [Commands -> 0..Items] /\ PipeCap \in Nat \ {0}
  BY PiecesFit DEF PipeControl, PipeTypeOK
<1>4. Holds(rd, wr, c) /\ wr[c] = rd[c] /\ (Outer(c) => made[c] = rd[c])
  BY <1>1 DEF Flow, Holds
<1>5. rd[c] \in Nat /\ get \in [Commands -> Nat] /\ get[c] = rd[c] + 1 /\ \A d \in Commands \ {c} : get[d] = rd[d]
  OBVIOUS
<1> HIDE DEF get
<1>6. ASSUME hand' = [hand EXCEPT ![c] = rd[c] + 1], Outer(c) => made'[c] = rd[c] + 1,
             \A d \in Commands \ {c} : made'[d] = made[d]
      PROVE  \A d \in Commands : Holds(get, wr, d)'
  <2>1. hand'[c] = rd[c] + 1 /\ \A d \in Commands \ {c} : hand'[d] = hand[d]
    BY <1>3, <1>6
  <2>2. Holds(get, wr, c)'
    BY <1>1, <1>2, <1>4, <1>5, <1>6, <2>1 DEF Holds
  <2>3. ASSUME NEW d \in Commands \ {c} PROVE Holds(get, wr, d)'
    <3>1. Holds(rd, wr, d)
      BY DEF Flow
    <3> QED BY <1>1, <1>2, <1>5, <1>6, <2>1, <3>1 DEF Holds
  <2> QED BY <2>2, <2>3
<1>7. Shown(wr)' /\ \A d \in 1..CommandCount' : PassesOn(wr, d)'
  BY <1>1, <1>2 DEF Flow, Shown, PassesOn
<1>8. CASE FromOutside(c)
  <2>1. /\ made[c] < Items /\ made' = [made EXCEPT ![c] = @ + 1] /\ hand' = [hand EXCEPT ![c] = made[c] + 1]
        /\ UNCHANGED data
    BY <1>8 DEF Take
  <2>2. Outer(c) /\ made[c] = rd[c]
    BY <1>1, <1>4, <1>8, RunningInput
  <2>3. /\ made'[c] = rd[c] + 1 /\ (\A d \in Commands \ {c} : made'[d] = made[d]) /\ hand' = [hand EXCEPT ![c] = rd[c] + 1]
    BY <1>3, <2>1, <2>2
  <2>4. \A d \in Commands : Holds(get, wr, d)'
    BY <1>6, <2>2, <2>3
  <2>5. ASSUME NEW n \in 1..N PROVE Carries(get, wr, n)'
    <3>1. n + 1 \in Commands
      BY <1>0
    <3>2. Taken(get, n) = Taken(rd, n)
      BY <1>5, <2>2, <3>1 DEF Taken
    <3> QED BY <1>2, <2>1, <3>2 DEF Flow, Carries
  <2>6. hand' \in [Commands -> 0..Items] /\ made' \in [Commands -> 0..Items]
    <3>1. made[c] + 1 \in 0..Items
      <4>1. made[c] \in 0..Items /\ made[c] < Items
        BY <1>3, <2>1
      <4> HIDE DEF get
      <4> QED BY <1>0, <4>1, SMTT(30)
    <3> QED BY <1>3, <2>1, <3>1
  <2>7. PipeTypeOK'
    BY <1>1, <1>2, <2>1, <2>6 DEF PipeControl, PipeTypeOK, Ends
  <2> QED BY <1>2, <1>7, <2>4, <2>5, <2>7 DEF Flow, get
<1>9. CASE ~FromOutside(c)
  <2> DEFINE m == c - 1
  <2>1. ~Outer(c) /\ stdin[c] = m /\ m \in 1..N /\ m + 1 = c /\ m \in Commands /\ Taken(rd, m) = rd[c] /\ Taken(get, m) = get[c]
    BY <1>0, <1>1, <1>9, RunningInput
  <2> HIDE DEF m
  <2>2. /\ data[m] # <<>> /\ hand' = [hand EXCEPT ![c] = Head(data[m])]
        /\ data' = [data EXCEPT ![m] = Tail(data[m])] /\ UNCHANGED made
    BY <1>3, <1>9, <2>1 DEF Take
  <2>3. Len(data[m]) = wr[m] - rd[c] /\ \A k \in 1..Len(data[m]) : data[m][k] = rd[c] + k
    BY <2>1 DEF Flow, Carries
  <2>4. /\ Head(data[m]) = data[m][1] /\ Tail(data[m]) \in Seq(1..Items) /\ Len(data[m]) \in Nat \ {0}
        /\ Len(Tail(data[m])) = Len(data[m]) - 1 /\ Head(data[m]) \in 1..Items
        /\ \A k \in 1..Len(Tail(data[m])) : Tail(data[m])[k] = data[m][k + 1]
    <3>1. data[m] \in Seq(1..Items)
      BY <1>3, <2>1
    <3>2. Len(data[m]) \in Nat \ {0}
      BY <2>2, <3>1, LenProperties, EmptySeq
    <3>3. Tail(data[m]) \in Seq(1..Items) /\ Head(data[m]) \in 1..Items
      BY <2>2, <3>1, HeadTailProperties
    <3> QED BY <2>2, <3>1, <3>2, <3>3, HeadTailProperties
  <2>5. Head(data[m]) = rd[c] + 1
    <3>1. 1 \in 1..Len(data[m])
      BY <2>4
    <3> QED BY <2>3, <2>4, <3>1
  <2>6. \A d \in Commands : Holds(get, wr, d)'
    BY <1>6, <2>1, <2>2, <2>5
  <2>7. data'[m] = Tail(data[m]) /\ \A n \in Commands \ {m} : data'[n] = data[n]
    BY <1>3, <2>1, <2>2
  <2>8. Carries(get, wr, m)'
    <3>1. wr[m] \in Nat
      BY <2>1
    <3>2. Len(data'[m]) = wr[m] - get[c]
      BY <1>5, <2>3, <2>4, <2>7, <3>1, SMTT(30)
    <3>3. ASSUME NEW k \in 1..Len(data'[m]) PROVE data'[m][k] = get[c] + k
      <4>1. k \in 1..Len(Tail(data[m])) /\ k + 1 \in 1..Len(data[m])
        BY <2>4, <2>7
      <4>2. data'[m][k] = rd[c] + (k + 1)
        BY <2>3, <2>4, <2>7, <4>1
      <4> QED BY <1>5, <4>1, <4>2
    <3> QED BY <1>2, <2>1, <3>2, <3>3 DEF Carries
  <2>9. ASSUME NEW n \in (1..N) \ {m} PROVE Carries(get, wr, n)'
    <3>1. n \in Commands /\ n + 1 \in Commands \ {c}
      BY <1>0, <2>1, SMTT(30)
    <3>2. Taken(get, n) = Taken(rd, n)
      BY <1>5, <3>1 DEF Taken
    <3> QED BY <1>2, <2>7, <3>1, <3>2 DEF Flow, Carries
  <2>10. /\ hand' \in [Commands -> 0..Items]
         /\ data' \in [Commands -> Seq(1..Items)] /\ \A n \in Commands : Len(data'[n]) <= PipeCap
    <3>1. Head(data[m]) \in 0..Items
      BY <1>0, <2>4, SMTT(30)
    <3>2. Len(data[m]) <= PipeCap
      BY <1>3, <2>1
    <3> QED BY <1>3, <2>1, <2>2, <2>4, <2>7, <3>1, <3>2, SMTT(30)
  <2>11. PipeTypeOK'
    BY <1>1, <1>2, <2>2, <2>10 DEF PipeControl, PipeTypeOK, Ends
  <2> QED BY <1>2, <1>7, <2>6, <2>8, <2>9, <2>11 DEF Flow, get
<1> QED BY <1>8, <1>9

(* It passes the item on, to the next pipe or to the screen.                  *)
LEMMA FlowPut ==
  ASSUME PipeControl, NEW c \in 1..CommandCount, Put(c), c \in Commands,
         NEW rd \in [Commands -> Nat], NEW wr \in [Commands -> Nat], Flow(rd, wr)
  PROVE  /\ data' \in [Commands -> Seq(1..Items)] /\ \A n \in Commands : Len(data'[n]) <= PipeCap
         /\ screen' \in Seq(1..Items) /\ Flow(rd, [wr EXCEPT ![c] = @ + 1])'
<1> DEFINE put == [wr EXCEPT ![c] = @ + 1]
<1>0. /\ CommandCount \in 0..(N + 1) /\ N \in 0..(MaxPieces - 1) /\ MaxPieces \in Nat \ {0}
      /\ Items \in Nat /\ Commands = 1..MaxPieces /\ DOMAIN Command = 1..CommandCount
  BY PiecesFit DEF PipeControl, Commands
<1>1. /\ UNCHANGED <<pieces, made>> /\ Running(c) /\ stage[c] = "run" /\ hand[c] # 0
      /\ hand' = [hand EXCEPT ![c] = 0]
  BY DEF Put, Running
<1>2. /\ Command' = Command /\ CommandCount' = CommandCount /\ N' = N /\ (AllPass' <=> AllPass)
      /\ (\A d : (Outer(d)' <=> Outer(d)) /\ (Feeding(d)' <=> Feeding(d)))
      /\ \A r, n : Taken(r, n)' = Taken(r, n)
  BY <1>1, SameFlow
<1>3. /\ data \in [Commands -> Seq(1..Items)] /\ (\A n \in Commands : Len(data[n]) <= PipeCap)
      /\ hand \in [Commands -> 0..Items] /\ screen \in Seq(1..Items) /\ PipeCap \in Nat \ {0}
      /\ stage \in [Commands -> {"none", "dup", "close", "run", "ended", "gone"}]
  BY PiecesFit DEF PipeControl, PipeTypeOK
<1>4. Holds(rd, wr, c) /\ hand[c] = rd[c] /\ rd[c] = wr[c] + 1 /\ hand[c] \in 1..Items
  BY <1>1, <1>3, <1>0, SMTT(30) DEF Flow, Holds
<1>5. wr[c] \in Nat /\ put \in [Commands -> Nat] /\ put[c] = wr[c] + 1 /\ \A d \in Commands \ {c} : put[d] = wr[d]
  OBVIOUS
<1>6. /\ stage' \in [Commands -> {"none", "dup", "close", "run", "ended", "gone"}]
      /\ \A d \in Commands \ {c} : stage'[d] = stage[d]
      /\ stage'[c] \in {"run", "ended"} /\ (AllPass => stage'[c] = "run")
  <2>1. AllPass => Command[c] \in {"cat", "source"}
    <3> SUFFICES ASSUME AllPass PROVE Command[c] \in {"cat", "source"}
      OBVIOUS
    <3>1. \A k \in DOMAIN pieces : pieces[k] # "empty"
      BY DEF AllPass
    <3>2. Command[c] = pieces[c] /\ c \in 1..(N + 1)
      BY <1>0, <3>1, NothingDropped DEF PipeControl
    <3>3. c \in DOMAIN pieces
      BY <3>2, PiecesFit, LenProperties DEF PipeControl
    <3> QED BY <3>2, <3>3 DEF AllPass
  <2>2. Command[c] # "head" => stage' = stage
    BY DEF Put
  <2>3. Command[c] = "head" => stage' = [stage EXCEPT ![c] = "ended"]
    BY DEF Put, Ended
  <2> QED BY <1>1, <1>3, <2>1, <2>2, <2>3
<1> HIDE DEF put
<1>7. \A d \in Commands : Holds(rd, put, d)'
  <2>1. hand'[c] = 0 /\ \A d \in Commands \ {c} : hand'[d] = hand[d]
    BY <1>1, <1>3
  <2>2. Holds(rd, put, c)'
    BY <1>1, <1>2, <1>4, <1>5, <1>6, <2>1 DEF Holds
  <2>3. ASSUME NEW d \in Commands \ {c} PROVE Holds(rd, put, d)'
    <3>1. Holds(rd, wr, d)
      BY DEF Flow
    <3> QED BY <1>1, <1>2, <1>5, <1>6, <2>1, <3>1 DEF Holds
  <2> QED BY <2>2, <2>3
<1>8. \A d \in 1..CommandCount' : PassesOn(put, d)'
  <2>1. ASSUME NEW d \in 1..CommandCount, d # c PROVE PassesOn(put, d)'
    <3>1. d \in Commands /\ PassesOn(wr, d)
      BY <1>0 DEF Flow
    <3> QED BY <1>2, <1>5, <1>6, <2>1, <3>1 DEF PassesOn
  <2>2. PassesOn(put, c)'
    BY <1>2, <1>6 DEF PassesOn
  <2> QED BY <1>2, <2>1, <2>2
<1>9. CASE stdout[c] = Terminal
  <2>1. c = N + 1
    BY <1>0, <1>1, <1>9, RunningInput
  <2>2. screen' = Append(screen, hand[c]) /\ UNCHANGED data
    BY <1>9 DEF Put
  <2>3. Len(screen) = wr[c] /\ \A k \in 1..Len(screen) : screen[k] = k
    BY <2>1 DEF Flow, Shown
  <2>4. /\ screen' \in Seq(1..Items) /\ Len(screen') = Len(screen) + 1
        /\ screen'[Len(screen) + 1] = hand[c] /\ \A k \in 1..Len(screen) : screen'[k] = screen[k]
    BY <1>3, <1>4, <2>2, AppendProperties
  <2>5. Shown(put)'
    <3>1. \A k \in 1..Len(screen') : screen'[k] = k
      BY <1>4, <1>5, <2>3, <2>4
    <3> QED BY <1>2, <1>5, <2>1, <2>3, <2>4, <3>1 DEF Shown
  <2>6. ASSUME NEW n \in 1..N PROVE Carries(rd, put, n)'
    <3>1. n \in Commands \ {c}
      BY <1>0, <2>1
    <3> QED BY <1>2, <1>5, <2>2, <3>1 DEF Flow, Carries
  <2> QED BY <1>2, <1>3, <1>7, <1>8, <2>2, <2>4, <2>5, <2>6 DEF Flow, put
<1>10. CASE stdout[c] # Terminal
  <2>1. c \in 1..N /\ stdout[c] = c /\ N + 1 \in Commands \ {c}
    <3>1. c <= N
      BY <1>0, <1>1, <1>10, RunningInput
    <3> QED BY <1>0, <1>1, <3>1, RunningInput
  <2>2. Len(data[c]) < PipeCap /\ data' = [data EXCEPT ![c] = Append(data[c], hand[c])] /\ UNCHANGED screen
    BY <1>3, <1>10, <2>1 DEF Put
  <2>3. /\ Append(data[c], hand[c]) \in Seq(1..Items) /\ Len(Append(data[c], hand[c])) = Len(data[c]) + 1
        /\ Append(data[c], hand[c])[Len(data[c]) + 1] = hand[c] /\ Len(data[c]) \in Nat
        /\ \A k \in 1..Len(data[c]) : Append(data[c], hand[c])[k] = data[c][k]
    BY <1>3, <1>4, AppendProperties, LenProperties
  <2>4. data'[c] = Append(data[c], hand[c]) /\ \A n \in Commands \ {c} : data'[n] = data[n]
    BY <1>3, <2>2
  <2>5. data' \in [Commands -> Seq(1..Items)] /\ \A n \in Commands : Len(data'[n]) <= PipeCap
    <3>1. Len(data[c]) + 1 <= PipeCap
      BY <1>3, <2>2, <2>3
    <3> QED BY <1>3, <2>2, <2>3, <2>4, <3>1
  <2>6. Carries(rd, put, c)'
    <3>1. Carries(rd, wr, c)
      BY <2>1 DEF Flow
    <3>2. Taken(rd, c) \in Nat
      <4>1. c + 1 \in Commands
        BY <1>0, <2>1
      <4> QED BY <4>1 DEF Taken
    <3>3. Len(data[c]) = wr[c] - Taken(rd, c) /\ \A k \in 1..Len(data[c]) : data[c][k] = Taken(rd, c) + k
      BY <3>1 DEF Carries
    <3>4. Len(data'[c]) = put[c] - Taken(rd, c)
      BY <1>5, <2>3, <2>4, <3>2, <3>3
    <3>5. ASSUME NEW k \in 1..Len(data'[c]) PROVE data'[c][k] = Taken(rd, c) + k
      <4>1. CASE k \in 1..Len(data[c])
        BY <2>3, <2>4, <3>3, <4>1
      <4>2. CASE k = Len(data[c]) + 1
        BY <1>4, <1>5, <2>3, <2>4, <3>2, <3>3, <4>2
      <4> QED BY <2>3, <2>4, <4>1, <4>2
    <3> QED BY <1>2, <3>4, <3>5 DEF Carries
  <2>7. ASSUME NEW n \in (1..N) \ {c} PROVE Carries(rd, put, n)'
    <3>1. n \in Commands \ {c}
      BY <1>0
    <3> QED BY <1>2, <1>5, <2>4, <3>1 DEF Flow, Carries
  <2>8. Shown(put)'
    BY <1>2, <1>5, <2>1, <2>2 DEF Flow, Shown
  <2> QED BY <1>2, <1>3, <1>7, <1>8, <2>2, <2>5, <2>6, <2>7, <2>8 DEF Flow, put
<1> QED BY <1>9, <1>10

(* A command that sees the end of its input has passed on all there was: the  *)
(* command before it has ended, and before that passed on everything.         *)
LEMMA FlowSeeEnd ==
  ASSUME PipeControl, NEW c \in 1..CommandCount, SeeEnd(c), c \in Commands, AllPass, Feeding(c),
         NEW rd \in [Commands -> Nat], NEW wr \in [Commands -> Nat], Flow(rd, wr)
  PROVE  wr[c] = Items
<1>0. /\ CommandCount \in 0..(N + 1) /\ N \in 0..(MaxPieces - 1) /\ MaxPieces \in Nat \ {0}
      /\ Items \in Nat /\ Commands = 1..MaxPieces /\ DOMAIN Command = 1..CommandCount
  BY PiecesFit DEF PipeControl, Commands
<1>1. Running(c) /\ hand[c] = 0 /\ stage[c] = "run" /\ Holds(rd, wr, c)
  BY DEF SeeEnd, Running, Flow
<1>2. wr[c] = rd[c]
  BY <1>1 DEF Holds
<1>3. CASE FromOutside(c)
  BY <1>1, <1>2, <1>3, RunningInput DEF SeeEnd, Holds
<1>4. CASE ~FromOutside(c)
  <2> DEFINE b == c - 1
  <2>1. ~Outer(c) /\ stdin[c] = b /\ b \in 1..N /\ b + 1 = c /\ b \in Commands /\ b \in 1..CommandCount /\ Taken(rd, b) = rd[c]
    BY <1>0, <1>1, <1>4, RunningInput
  <2> HIDE DEF b
  <2>2. data[b] = <<>> /\ ~Open(<<b, "w">>)
    BY <1>4, <2>1 DEF SeeEnd
  <2>3. Command[c] = "cat"
    <3>1. \A k \in DOMAIN pieces : pieces[k] # "empty"
      BY DEF AllPass
    <3>2. Command[c] = pieces[c] /\ c \in 1..(N + 1)
      BY <1>0, <3>1, NothingDropped DEF PipeControl
    <3>3. c \in DOMAIN pieces
      BY <3>2, PiecesFit, LenProperties DEF PipeControl
    <3> QED BY <2>1, <3>2, <3>3 DEF AllPass, Outer
  <2>4. Feeding(b)
    <3> SUFFICES ASSUME NEW d \in (b + 1)..CommandCount PROVE Command[d] = "cat"
      BY DEF Feeding
    <3>1. d = c \/ d \in (c + 1)..CommandCount
      BY <1>0, <2>1
    <3> QED BY <2>3, <3>1 DEF Feeding
  <2>5. stage[b] \in {"ended", "gone"}
    <3>1. <<b, "w">> \in Ends
      BY <2>1 DEF Ends
    <3>2. \A p \in {Runner} \cup Commands : <<b, "w">> \notin fds[p]
      BY <2>2 DEF Open
    <3>3. stage[b] # "none"
      <4> SUFFICES ASSUME stage[b] = "none" PROVE FALSE
        OBVIOUS
      <4>1. CASE runner = "fork"
        BY <3>1, <3>2, <4>1 DEF PipeControl, Forked
      <4>2. CASE runner # "fork"
        BY <1>0, <2>1, <4>2 DEF PipeControl, Forked
      <4> QED BY <4>1, <4>2
    <3>4. stage[b] \notin {"dup", "close"}
      BY <2>1, <3>1, <3>2 DEF PipeControl, Redirected
    <3>5. stage[b] # "run"
      <4> SUFFICES ASSUME stage[b] = "run" PROVE FALSE
        OBVIOUS
      <4>1. stdout[b] = b
        BY <2>1, RunningInput DEF Running
      <4>2. <<b, "w">> = <<stdout[b], "w">> /\ <<b, "w">>[2] = "w"
        BY <4>1
      <4> QED BY <2>1, <2>2, <4>2 DEF Open
    <3> QED BY <2>1, <3>3, <3>4, <3>5 DEF PipeControl, PipeTypeOK
  <2>6. wr[b] = Items
    BY <2>1, <2>4, <2>5 DEF Flow, PassesOn
  <2>7. Len(data[b]) = wr[b] - rd[c] /\ Len(data[b]) = 0
    BY <2>1, <2>2 DEF Flow, Carries
  <2>8. rd[c] \in Nat /\ wr[b] \in Nat
    BY <2>1
  <2> QED BY <1>2, <2>6, <2>7, <2>8
<1> QED BY <1>3, <1>4

(* None of these loses its reader before: the command behind it only ends     *)
(* when it has got everything.                                                *)
LEMMA FlowBroken ==
  ASSUME PipeControl, NEW c \in 1..CommandCount, Broken(c), c \in Commands, AllPass, Feeding(c),
         NEW rd \in [Commands -> Nat], NEW wr \in [Commands -> Nat], Flow(rd, wr)
  PROVE  FALSE
<1> DEFINE f == c + 1
<1>0. /\ N \in 0..(MaxPieces - 1) /\ MaxPieces \in Nat \ {0} /\ Items \in Nat /\ Commands = 1..MaxPieces
      /\ CommandCount = N + 1
  <2>1. \A k \in DOMAIN pieces : pieces[k] # "empty"
    BY DEF AllPass
  <2> QED BY <2>1, PiecesFit, NothingDropped DEF PipeControl, Commands
<1>1. Running(c) /\ hand[c] # 0 /\ stage[c] = "run" /\ stdout[c] # Terminal /\ ~Open(<<stdout[c], "r">>)
  BY DEF Broken, Running
<1>2. c \in 1..N /\ stdout[c] = c
  <2>1. c <= N
    BY <1>0, <1>1, RunningInput
  <2> QED BY <1>1, <2>1, RunningInput
<1>3. f \in Commands /\ f \in 1..CommandCount /\ f \in (c + 1)..CommandCount /\ f > 1
  BY <1>0, <1>2
<1>4. hand[c] = rd[c] /\ rd[c] = wr[c] + 1 /\ hand[c] <= Items /\ wr[c] \in Nat
  BY <1>0, <1>1 DEF Flow, Holds, PipeControl, PipeTypeOK
<1>5. Command[f] = "cat" /\ ~Outer(f) /\ Taken(rd, c) = rd[f]
  <2>1. Command[f] = "cat"
    BY <1>3 DEF Feeding
  <2> QED BY <1>3, <2>1 DEF Outer, Taken
<1>6. Feeding(f)
  BY <1>0, <1>2 DEF Feeding
<1> HIDE DEF f
<1>7. stage[f] \in {"ended", "gone"}
  <2>1. <<c, "r">> \in Ends
    BY <1>2 DEF Ends
  <2>2. \A p \in {Runner} \cup Commands : <<c, "r">> \notin fds[p]
    BY <1>1, <1>2 DEF Open
  <2>3. stage[f] # "none"
    <3> SUFFICES ASSUME stage[f] = "none" PROVE FALSE
      OBVIOUS
    <3>1. CASE runner = "fork"
      BY <2>1, <2>2, <3>1 DEF PipeControl, Forked
    <3>2. CASE runner # "fork"
      BY <1>0, <1>3, <3>2 DEF PipeControl, Forked
    <3> QED BY <3>1, <3>2
  <2>4. stage[f] \notin {"dup", "close"}
    BY <1>3, <2>1, <2>2 DEF PipeControl, Redirected
  <2>5. stage[f] # "run"
    <3> SUFFICES ASSUME stage[f] = "run" PROVE FALSE
      OBVIOUS
    <3>1. stdin[f] = f - 1
      BY <1>3, <1>5, RunningInput DEF Running
    <3>2. f - 1 = c
      BY <1>2 DEF f
    <3>3. <<c, "r">> = <<stdin[f], "r">> /\ <<c, "r">>[2] = "r"
      BY <3>1, <3>2
    <3> QED BY <1>1, <1>2, <1>3, <3>3 DEF Open
  <2> QED BY <1>3, <2>3, <2>4, <2>5 DEF PipeControl, PipeTypeOK
<1>8. wr[f] = Items /\ wr[f] <= rd[f] /\ rd[f] \in Nat
  BY <1>3, <1>6, <1>7 DEF Flow, PassesOn, Holds
<1>9. Len(data[c]) = wr[c] - rd[f] /\ Len(data[c]) \in Nat
  <2>1. data[c] \in Seq(1..Items)
    BY DEF PipeControl, PipeTypeOK
  <2> QED BY <1>2, <1>5, <2>1, LenProperties DEF Flow, Carries
<1> QED BY <1>0, <1>4, <1>8, <1>9

(* A step of a command keeps what is under way in order.                      *)
LEMMA CommandInv ==
  ASSUME PipeIInv, NEW c \in Commands, CommandStep(c)
  PROVE  PipeIInv'
<1>0. PipeControl /\ 1..CommandCount \subseteq Commands
  BY PiecesFit DEF PipeIInv, PipeControl, Commands
<1>1. /\ UNCHANGED <<pieces, runner, count>> /\ c \in 1..CommandCount
      /\ stage' \in [Commands -> {"none", "dup", "close", "run", "ended", "gone"}]
      /\ stage[c] \in {"dup", "close", "run"} /\ stage'[c] \in {"close", "run", "ended"}
      /\ stdin' \in [Commands -> Closed..N] /\ stdout' \in [Commands -> Closed..N]
      /\ \A o \in Commands \ {c} : stage'[o] = stage[o]
      /\ \A p \in {Runner} \cup Commands : fds'[p] = fds[p] \/ (p = c /\ fds'[p] = {})
  BY <1>0, CommandOnly
<1>2. N' = N /\ Ends' = Ends
  BY <1>1, SameFile
<1>3. fds' \in [{Runner} \cup Commands -> SUBSET Ends]
  <2>1. fds' = fds \/ fds' = [fds EXCEPT ![c] = {}]
    BY DEF CommandStep, Dup, Exec, Take, SeeEnd, Put, Broken, ClosePipes
  <2> QED BY <1>0, <2>1 DEF PipeControl, PipeTypeOK
<1>4. Forked' /\ Waited' /\ \A o \in Commands : Redirected(o)'
  BY <1>0, CommandKeepsRunner, CommandRedirects
<1>5. ASSUME data' \in [Commands -> Seq(1..Items)], \A n \in Commands : Len(data'[n]) <= PipeCap,
             screen' \in Seq(1..Items), UNCHANGED made, hand' = hand \/ hand' = [hand EXCEPT ![c] = 0]
      PROVE  PipeControl'
  <2>1. hand' \in [Commands -> 0..Items]
    <3>1. 0 \in 0..Items /\ hand \in [Commands -> 0..Items]
      BY <1>0, PiecesFit DEF PipeControl, PipeTypeOK
    <3> QED BY <1>5, <3>1
  <2>2. PipeTypeOK'
    BY <1>0, <1>1, <1>2, <1>3, <1>5, <2>1 DEF PipeControl, PipeTypeOK
  <2> QED BY <1>0, <1>1, <1>4, <2>2 DEF PipeControl
<1>6. PICK rd \in [Commands -> Nat], wr \in [Commands -> Nat] : Flow(rd, wr)
  BY DEF PipeIInv
<1>7. data \in [Commands -> Seq(1..Items)] /\ screen \in Seq(1..Items) /\ \A n \in Commands : Len(data[n]) <= PipeCap
  BY <1>0 DEF PipeControl, PipeTypeOK
<1>8. CASE Take(c)
  <2>1. PipeTypeOK' /\ Flow([rd EXCEPT ![c] = @ + 1], wr)'
    BY <1>0, <1>1, <1>6, <1>8, FlowTake
  <2>2. PipeControl'
    BY <1>0, <1>1, <1>4, <2>1 DEF PipeControl
  <2>3. [rd EXCEPT ![c] = @ + 1] \in [Commands -> Nat]
    OBVIOUS
  <2> QED BY <2>1, <2>2, <2>3 DEF PipeIInv
<1>9. CASE Put(c)
  <2>1. /\ data' \in [Commands -> Seq(1..Items)] /\ (\A n \in Commands : Len(data'[n]) <= PipeCap)
        /\ screen' \in Seq(1..Items) /\ Flow(rd, [wr EXCEPT ![c] = @ + 1])'
    BY <1>0, <1>1, <1>6, <1>9, FlowPut
  <2>2. UNCHANGED made /\ hand' = [hand EXCEPT ![c] = 0]
    BY <1>9 DEF Put
  <2>3. PipeControl'
    BY <1>5, <2>1, <2>2
  <2>4. [wr EXCEPT ![c] = @ + 1] \in [Commands -> Nat]
    OBVIOUS
  <2> QED BY <2>1, <2>3, <2>4 DEF PipeIInv
<1>10. CASE Dup(c) \/ Exec(c) \/ SeeEnd(c) \/ Broken(c)
  <2>1. UNCHANGED <<data, made, screen>> /\ (hand' = hand \/ (hand' = [hand EXCEPT ![c] = 0] /\ stage'[c] = "ended"))
    <3>1. Ended(c) => stage'[c] = "ended"
      BY <1>0 DEF Ended, PipeControl, PipeTypeOK
    <3> QED BY <1>10, <3>1 DEF Dup, Exec, SeeEnd, Broken
  <2>2. PipeControl'
    BY <1>5, <1>7, <2>1
  <2>3. stage'[c] = "ended" /\ AllPass /\ Feeding(c) => wr[c] = Items
    <3> SUFFICES ASSUME stage'[c] = "ended", AllPass, Feeding(c) PROVE wr[c] = Items
      OBVIOUS
    <3>1. CASE SeeEnd(c)
      BY <1>0, <1>1, <1>6, <3>1, FlowSeeEnd
    <3>2. CASE Broken(c)
      BY <1>0, <1>1, <1>6, <3>2, FlowBroken
    <3>3. CASE Dup(c)
      BY <1>0, <3>3 DEF Dup, PipeControl, PipeTypeOK
    <3>4. CASE Exec(c)
      <4>1. \A k \in DOMAIN pieces : pieces[k] # "empty"
        BY DEF AllPass
      <4>2. Command[c] = pieces[c] /\ c \in DOMAIN pieces
        BY <1>0, <1>1, <4>1, NothingDropped, PiecesFit, LenProperties DEF PipeControl
      <4>3. Command[c] \notin {"blank", "absent"}
        BY <4>2 DEF AllPass
      <4> QED BY <1>0, <3>4, <4>3 DEF Exec, PipeControl, PipeTypeOK
    <3> QED BY <1>10, <3>1, <3>2, <3>3, <3>4
  <2>4. \A d \in Commands : hand'[d] = hand[d] \/ stage'[d] = "ended"
    BY <1>0, <2>1 DEF PipeControl, PipeTypeOK
  <2>5. \A d \in Commands : \/ stage'[d] = stage[d]
                            \/ stage[d] \in {"none", "dup", "close"} /\ stage'[d] \in {"dup", "close", "run"}
                            \/ stage[d] = "ended" /\ stage'[d] = "gone"
                            \/ stage'[d] = "ended" /\ (AllPass /\ Feeding(d) => wr[d] = Items)
    <3>1. stage'[c] = "ended" \/ (stage[c] \in {"dup", "close"} /\ stage'[c] \in {"close", "run"})
      BY <1>0, <1>10 DEF Dup, Exec, SeeEnd, Broken, Ended, PipeControl, PipeTypeOK
    <3> QED BY <1>1, <2>3, <3>1
  <2>6. Flow(rd, wr)'
    BY <1>0, <1>1, <1>6, <2>1, <2>4, <2>5, FlowStands
  <2> QED BY <2>2, <2>6 DEF PipeIInv
<1> QED BY <1>8, <1>9, <1>10 DEF CommandStep

(* Every step of the runner and its commands keeps it.                        *)
LEMMA PipeNextInv == PipeIInv /\ [PipeNext]_pipeVars => PipeIInv'
<1> SUFFICES ASSUME PipeIInv, [PipeNext]_pipeVars PROVE PipeIInv'
  OBVIOUS
<1>0. PipeControl /\ 1..CommandCount \subseteq Commands
  BY PiecesFit DEF PipeIInv, PipeControl, Commands
<1>1. PICK rd \in [Commands -> Nat], wr \in [Commands -> Nat] : Flow(rd, wr)
  BY DEF PipeIInv
<1>2. CASE UNCHANGED pipeVars
  <2>1. UNCHANGED <<pieces, runner, count, stage, fds, stdin, stdout, data, hand, made, screen>>
    BY <1>2 DEF pipeVars
  <2>2. /\ Command' = Command /\ CommandCount' = CommandCount /\ N' = N /\ Ends' = Ends /\ Waits' = Waits
        /\ \A c : Input(c)' = Input(c) /\ Output(c)' = Output(c)
    BY <2>1, SameFile
  <2>3. Flow(rd, wr)'
    BY <1>0, <1>1, <2>1, FlowStands
  <2>4. Forked' /\ Waited' /\ \A c \in Commands : Redirected(c)'
    BY <1>0, <2>1, <2>2 DEF PipeControl, Forked, Waited, AllGone, Gone, Redirected
  <2>5. PipeTypeOK'
    BY <1>0, <2>1, <2>2 DEF PipeControl, PipeTypeOK
  <2> QED BY <1>0, <2>1, <2>3, <2>4, <2>5 DEF PipeIInv, PipeControl
<1>3. CASE RunnerStep
  <2>1. /\ UNCHANGED <<pieces, data, hand, made, screen>>
        /\ stage' \in [Commands -> {"none", "dup", "close", "run", "ended", "gone"}]
        /\ runner' \in {"fork", "wait", "done"} /\ count' \in 0..MaxPieces
        /\ fds' \in [{Runner} \cup Commands -> SUBSET Ends]
        /\ stdin' \in [Commands -> Closed..N] /\ stdout' \in [Commands -> Closed..N]
        /\ Forked' /\ Waited' /\ (\A c \in Commands : Redirected(c)')
        /\ \A c \in Commands : \/ stage'[c] = stage[c]
                               \/ stage[c] = "none" /\ stage'[c] = "dup"
                               \/ stage[c] = "ended" /\ stage'[c] = "gone"
    BY <1>0, <1>3, RunnerControl
  <2>2. N' = N /\ Ends' = Ends
    BY <2>1, SameFile
  <2>3. PipeTypeOK'
    BY <1>0, <2>1, <2>2 DEF PipeControl, PipeTypeOK
  <2>4. Flow(rd, wr)'
    BY <1>0, <1>1, <2>1, FlowStands
  <2> QED BY <1>0, <2>1, <2>3, <2>4 DEF PipeIInv, PipeControl
<1>4. CASE \E c \in Commands : CommandStep(c)
  BY <1>4, CommandInv
<1> QED BY <1>2, <1>3, <1>4 DEF PipeNext

(* What follows from it.                                                      *)
LEMMA PipeLast == PipeIInv => RunnerIsLast
<1> SUFFICES ASSUME PipeIInv, runner = "done", NEW c \in DOMAIN Command PROVE stage[c] = "gone"
  BY DEF RunnerIsLast
<1>1. DOMAIN Command = 1..CommandCount /\ AllGone
  BY PiecesFit DEF PipeIInv, PipeControl, Waited
<1> QED BY <1>1 DEF AllGone

(* What is under way in order reaches the screen in order.                    *)
LEMMA PipeOrdered == PipeIInv => ScreenInOrder
<1> SUFFICES ASSUME PipeIInv PROVE ScreenInOrder
  OBVIOUS
<1>1. PICK rd \in [Commands -> Nat], wr \in [Commands -> Nat] : Flow(rd, wr)
  BY DEF PipeIInv
<1>2. PipeControl /\ screen \in Seq(1..Items)
  BY DEF PipeIInv, PipeControl, PipeTypeOK
<1>3. \A k \in DOMAIN screen : screen[k] = k
  BY <1>1, <1>2, LenProperties DEF Flow, Shown
<1>4. ASSUME runner = "done", \A k \in DOMAIN pieces : pieces[k] \in {"cat", "source"}
      PROVE  Len(screen) = Items
  <2>1. AllPass /\ \A k \in DOMAIN pieces : pieces[k] # "empty"
    BY <1>4 DEF AllPass
  <2>2. CommandCount = N + 1 /\ N \in Nat
    BY <1>2, <2>1, NothingDropped, PiecesFit DEF PipeControl
  <2>3. stage[N + 1] = "gone"
    BY <1>2, <1>4, <2>2 DEF PipeControl, Waited, AllGone
  <2>4. Feeding(N + 1)
    BY <2>2 DEF Feeding
  <2>5. wr[N + 1] = Items
    BY <1>1, <2>1, <2>2, <2>3, <2>4 DEF Flow, PassesOn
  <2> QED BY <1>1, <2>5 DEF Flow, Shown
<1> QED BY <1>3, <1>4 DEF ScreenInOrder
-----------------------------------------------------------------------------
(* list and modules.                                                          *)
LEMMA CallType ==
  ASSUME NEW S, NEW a \in S
  PROVE  <<a>> \in Seq(S) /\ \A b \in S : <<a, b>> \in Seq(S)
OBVIOUS

(* An empty list.                                                             *)
LEMMA ListInitType == ListInit => ListTypeOK
<1> DEFINE Calls == ListItems \cup {"list_init", "list_add", "list_add_back", "list_del"}
<1> SUFFICES ASSUME ListInit PROVE ListTypeOK
  OBVIOUS
<1>1. "list_init" \in Calls
  OBVIOUS
<1> HIDE DEF Calls
<1>2. call \in Seq(Calls)
  BY <1>1, CallType DEF ListInit
<1>3. links \in [next : [Nodes -> Nodes], prev : [Nodes -> Nodes]] /\ linked \subseteq ListItems /\ headless \in BOOLEAN
  BY DEF ListInit, Self
<1> QED BY <1>2, <1>3 DEF ListTypeOK, Calls

(* Two nodes joined.                                                          *)
LEMMA Linked ==
  ASSUME NEW l \in [next : [Nodes -> Nodes], prev : [Nodes -> Nodes]],
         NEW item \in Nodes, NEW prev \in Nodes, NEW next \in Nodes
  PROVE  Link(l, item, prev, next) \in [next : [Nodes -> Nodes], prev : [Nodes -> Nodes]]
<1>1. l.next \in [Nodes -> Nodes] /\ l.prev \in [Nodes -> Nodes]
  OBVIOUS
<1>2. [l.next EXCEPT ![prev] = item, ![item] = next] \in [Nodes -> Nodes]
  BY <1>1
<1>3. [l.prev EXCEPT ![next] = item, ![item] = prev] \in [Nodes -> Nodes]
  BY <1>1
<1> QED BY <1>2, <1>3 DEF Link

(* Every call keeps the types of the list.                                    *)
LEMMA ListNextType == ListTypeOK /\ [ListNext]_listVars => ListTypeOK'
<1> SUFFICES ASSUME ListTypeOK, [ListNext]_listVars PROVE ListTypeOK'
  OBVIOUS
<1> DEFINE Calls == ListItems \cup {"list_init", "list_add", "list_add_back", "list_del"}
<1>0. {"list_add", "list_add_back", "list_del"} \subseteq Calls /\ ListItems \subseteq Calls
  OBVIOUS
<1>1. CASE UNCHANGED listVars
  BY <1>1 DEF listVars, ListTypeOK
<1> HIDE DEF Calls
<1>2. links.next \in [Nodes -> Nodes] /\ links.prev \in [Nodes -> Nodes] /\ Head0 \in Nodes /\ ListItems \subseteq Nodes
  BY DEF ListTypeOK, Nodes
<1>3. ASSUME NEW x \in ListItems, Add(x) \/ AddBack(x) PROVE ListTypeOK'
  <2>1. links' \in [next : [Nodes -> Nodes], prev : [Nodes -> Nodes]]
    <3>1. PICK prev \in Nodes, next \in Nodes : links' = Link(links, x, prev, next)
      BY <1>2, <1>3 DEF Add, AddBack, AddTo, AddBackTo
    <3>2. links \in [next : [Nodes -> Nodes], prev : [Nodes -> Nodes]] /\ x \in Nodes
      BY <1>2 DEF ListTypeOK
    <3>3. Link(links, x, prev, next) \in [next : [Nodes -> Nodes], prev : [Nodes -> Nodes]]
      BY <3>2, Linked
    <3> QED BY <3>1, <3>3
  <2>2. call' \in Seq(Calls)
    BY <1>0, <1>3, CallType DEF Add, AddBack
  <2>3. linked' \subseteq ListItems /\ headless' \in BOOLEAN
    BY <1>3 DEF Add, AddBack, ListTypeOK
  <2> QED BY <2>1, <2>2, <2>3 DEF ListTypeOK, Calls
<1>4. ASSUME NEW x \in Nodes
      PROVE  DelFrom(links, x) \in [next : [Nodes -> Nodes], prev : [Nodes -> Nodes]]
  <2> DEFINE next == [links.next EXCEPT ![links.prev[x]] = links.next[x]]
  <2>1. next \in [Nodes -> Nodes]
    BY <1>2
  <2>2. [links.prev EXCEPT ![next[x]] = links.prev[x]] \in [Nodes -> Nodes]
    BY <1>2, <2>1
  <2> QED BY <2>1, <2>2 DEF DelFrom
<1>5. ASSUME NEW x \in ListItems, Del(x) PROVE ListTypeOK'
  <2>1. call' \in Seq(Calls)
    BY <1>0, <1>5, CallType DEF Del
  <2> QED BY <1>2, <1>4, <1>5, <2>1 DEF Del, ListTypeOK, Calls
<1>6. CASE DelHead
  <2>1. call' \in Seq(Calls)
    BY <1>0, <1>6, CallType DEF DelHead
  <2> QED BY <1>2, <1>4, <1>6, <2>1 DEF DelHead, ListTypeOK, Calls
<1> QED BY <1>1, <1>3, <1>5, <1>6 DEF ListNext

(* No plugin is loaded.                                                       *)
LEMMA RegistryInitType == RegistryInit => RegistryTypeOK
<1> SUFFICES ASSUME RegistryInit PROVE RegistryTypeOK
  OBVIOUS
<1>1. modulus \in [Fields -> Nat]
  BY DEF RegistryInit
<1>2. answer \in Nat \X Nat /\ asked \subseteq Moduli /\ crashed \in BOOLEAN
  BY DEF RegistryInit
<1> QED BY <1>1, <1>2 DEF RegistryTypeOK

(* Loading a plugin and a sum keep the types.                                 *)
LEMMA RegistryNextType ==
  ListTypeOK /\ RegistryTypeOK /\ [RegistryNext]_<<listVars, registryVars>> => ListTypeOK' /\ RegistryTypeOK'
<1> SUFFICES ASSUME ListTypeOK, RegistryTypeOK, [RegistryNext]_<<listVars, registryVars>>
             PROVE  ListTypeOK' /\ RegistryTypeOK'
  OBVIOUS
<1>1. CASE UNCHANGED <<listVars, registryVars>>
  BY <1>1, ListNextType DEF registryVars, RegistryTypeOK
<1>2. ASSUME NEW f \in Fields, RegisterField(f) PROVE ListTypeOK' /\ RegistryTypeOK'
  <2>1. ListNext
    BY <1>2, RegistryAssumption DEF RegisterField, ListNext, Fields
  <2> QED BY <1>2, <2>1, ListNextType DEF RegisterField, registryVars, RegistryTypeOK
<1>3. ASSUME NEW m \in Moduli, Sum(m) PROVE ListTypeOK' /\ RegistryTypeOK'
  <2>1. m \in Nat /\ m \in Moduli /\ ListTypeOK'
    BY <1>3, RegistryAssumption, ListNextType DEF Sum
  <2>2. modulus' \in [Fields -> Nat]
    BY <1>3, <2>1 DEF Sum, Spares, RegistryTypeOK
  <2>3. answer' \in Nat \X Nat
    <3>1. \A f : ComputesWith(f) \in Nat
      BY <2>2 DEF ComputesWith, Fields
    <3> QED BY <1>3, <2>1, <3>1 DEF Sum, RegistryTypeOK
  <2>4. asked' \subseteq Moduli /\ crashed' \in BOOLEAN
    BY <1>3, <2>1 DEF Sum, RegistryTypeOK
  <2> QED BY <2>1, <2>2, <2>3, <2>4 DEF RegistryTypeOK
<1> QED BY <1>1, <1>2, <1>3 DEF RegistryNext

(* list.  Node k of a chain: its items from 1 on, the head before and behind. *)
NodeAt(s, k) == IF k \in 1..Len(s) THEN s[k] ELSE Head0
Distinct(s) == \A j, k \in 1..Len(s) : s[j] = s[k] => j = k
Chain(s) ==
  /\ \A x : x \in linked <=> \E k \in 1..Len(s) : s[k] = x
  /\ Distinct(s)
  /\ \A k \in 0..Len(s) : /\ links.next[NodeAt(s, k)] = NodeAt(s, k + 1)
                          /\ links.prev[NodeAt(s, k + 1)] = NodeAt(s, k)
ListIInv == ListTypeOK /\ (~headless => \E s \in Seq(ListItems) : Chain(s))
-----------------------------------------------------------------------------
(* The nodes are finitely many, so that a walk that comes back is found.      *)
LEMMA NodesFinite == IsFiniteSet(Nodes)
BY ListAssumption, FS_AddElement DEF Nodes

(* The walk from the head is a function of the number of steps.               *)
LEMMA RepeatedStep ==
  ASSUME NEW step \in [Nodes -> Nodes], NEW n \in Nat
  PROVE  \E g \in [0..n -> Nodes] : g[0] = Head0 /\ \A k \in 1..n : g[k] = step[g[k - 1]]
<1> DEFINE F == [k \in 1..n |-> step]
<1>1. Head0 \in Nodes /\ F \in [1..n -> [Nodes -> Nodes]] /\ \A k \in 1..n : F[k] = step
  BY DEF Nodes
<1> HIDE DEF F
<1>2. PICK g \in [0..n -> Nodes] : Repeats(g, Head0, n, F)
  BY <1>1, RepeatedSteps
<1> QED BY <1>1, <1>2 DEF Repeats

(* NthFrom is this function.                                                  *)
LEMMA NthIs ==
  ASSUME NEW step \in [Nodes -> Nodes]
  PROVE  LET Nth == NthFrom(step)
         IN /\ Nth[0] = Head0
            /\ \A k \in 1..Cardinality(Nodes) : Nth[k] = step[Nth[k - 1]]
<1> DEFINE C == Cardinality(Nodes)
           Fits(g) == g = [k \in 0..C |-> IF k = 0 THEN Head0 ELSE step[g[k - 1]]]
<1>1. C \in Nat /\ Head0 \in Nodes
  BY NodesFinite, FS_CardinalityType DEF Nodes
<1> HIDE DEF C
<1>2. \E g \in [0..C -> Nodes] : g[0] = Head0 /\ \A k \in 1..C : g[k] = step[g[k - 1]]
  BY <1>1, RepeatedStep
<1>3. PICK g \in [0..C -> Nodes] : g[0] = Head0 /\ \A k \in 1..C : g[k] = step[g[k - 1]]
  BY <1>2
<1>4. Fits(g)
  BY <1>1, <1>3
<1>5. NthFrom(step) = CHOOSE f : Fits(f)
  BY DEF NthFrom, C
<1>6. Fits(NthFrom(step))
  <2> HIDE DEF Fits
  <2> QED BY <1>4, <1>5
<1> DEFINE nth == NthFrom(step)
<1> HIDE DEF nth
<1>7. nth = [k \in 0..C |-> IF k = 0 THEN Head0 ELSE step[nth[k - 1]]]
  BY <1>6 DEF nth
<1>8. nth[0] = Head0 /\ \A k \in 1..C : nth[k] = step[nth[k - 1]]
  BY <1>1, <1>7
<1> QED BY <1>8 DEF nth, C

(* The nodes of a sequence of items, the head at both ends.                   *)
LEMMA NodesOfChain ==
  ASSUME NEW s \in Seq(ListItems), Distinct(s)
  PROVE  /\ Len(s) \in Nat /\ \A k \in Int : NodeAt(s, k) \in Nodes
         /\ NodeAt(s, 0) = Head0 /\ NodeAt(s, Len(s) + 1) = Head0
         /\ \A k \in 1..Len(s) : NodeAt(s, k) = s[k] /\ s[k] \in ListItems /\ s[k] # Head0
         /\ \A j, k \in 0..Len(s) : NodeAt(s, j) = NodeAt(s, k) => j = k
         /\ \A j, k \in 1..(Len(s) + 1) : NodeAt(s, j) = NodeAt(s, k) => j = k
<1>1. Len(s) \in Nat /\ \A k \in 1..Len(s) : s[k] \in ListItems
  BY LenProperties, ElementOfSeq
<1>2. \A k \in 1..Len(s) : NodeAt(s, k) = s[k] /\ s[k] # Head0
  BY <1>1, ListAssumption DEF NodeAt
<1>3. \A k \in Int \ (1..Len(s)) : NodeAt(s, k) = Head0
  BY DEF NodeAt
<1>4. \A j, k \in 1..Len(s) : s[j] = s[k] => j = k
  BY DEF Distinct
<1>5. \A j, k \in 0..Len(s) : NodeAt(s, j) = NodeAt(s, k) => j = k
  <2> TAKE j, k \in 0..Len(s)
  <2>1. j = 0 \/ j \in 1..Len(s)
    BY <1>1
  <2>2. k = 0 \/ k \in 1..Len(s)
    BY <1>1
  <2>3. NodeAt(s, 0) = Head0
    BY <1>3
  <2> QED BY <1>2, <1>4, <2>1, <2>2, <2>3
<1>6. \A j, k \in 1..(Len(s) + 1) : NodeAt(s, j) = NodeAt(s, k) => j = k
  <2> TAKE j, k \in 1..(Len(s) + 1)
  <2>1. j = Len(s) + 1 \/ j \in 1..Len(s)
    BY <1>1
  <2>2. k = Len(s) + 1 \/ k \in 1..Len(s)
    BY <1>1
  <2>3. NodeAt(s, Len(s) + 1) = Head0
    BY <1>1, <1>3
  <2> QED BY <1>2, <1>4, <2>1, <2>2, <2>3
<1>7. \A k \in Int : NodeAt(s, k) \in Nodes
  BY <1>1, <1>2, <1>3 DEF Nodes
<1> QED BY <1>1, <1>2, <1>3, <1>5, <1>6, <1>7

(* Walking along a chain meets its items and then the head again.             *)
LEMMA WalkOfChain ==
  ASSUME NEW step \in [Nodes -> Nodes], NEW s \in Seq(ListItems), Distinct(s),
         \A k \in 0..Len(s) : step[NodeAt(s, k)] = NodeAt(s, k + 1)
  PROVE  Returns(step) /\ Walk(step) = s
<1> DEFINE n == Len(s)
           C == Cardinality(Nodes)
           nth == NthFrom(step)
<1>1. /\ n \in Nat /\ NodeAt(s, 0) = Head0 /\ NodeAt(s, n + 1) = Head0
      /\ \A k \in 1..n : NodeAt(s, k) = s[k] /\ s[k] # Head0
  BY NodesOfChain
<1>2. C \in Nat /\ n + 1 <= C
  <2> DEFINE f == [k \in 1..(n + 1) |-> NodeAt(s, k)]
  <2>1. f \in Injection(1..(n + 1), Nodes)
    <3>1. f \in [1..(n + 1) -> Nodes]
      <4>1. \A k \in 1..(n + 1) : NodeAt(s, k) \in Nodes
        BY <1>1, NodesOfChain
      <4> QED BY <4>1
    <3>2. \A j, k \in 1..(n + 1) : f[j] = f[k] => j = k
      BY NodesOfChain
    <3> HIDE DEF f
    <3> QED BY <3>1, <3>2 DEF Injection, IsInjective
  <2>2. IsFiniteSet(1..(n + 1)) /\ Cardinality(1..(n + 1)) = n + 1
    BY <1>1, FS_Interval
  <2> HIDE DEF f, n
  <2>3. Cardinality(1..(n + 1)) <= Cardinality(Nodes)
    BY <2>1, <2>2, NodesFinite, FS_Injection
  <2> QED BY <2>2, <2>3, NodesFinite, FS_CardinalityType
<1>3. nth[0] = Head0 /\ \A k \in 1..C : nth[k] = step[nth[k - 1]]
  BY NthIs
<1>4. \A k \in 0..n : step[NodeAt(s, k)] = NodeAt(s, k + 1)
  OBVIOUS
<1> HIDE DEF n, C, nth
<1>5. \A k \in 0..(n + 1) : nth[k] = NodeAt(s, k)
  <2> DEFINE T == {k \in 0..(n + 1) : nth[k] # NodeAt(s, k)}
  <2> SUFFICES ASSUME T # {} PROVE FALSE
    OBVIOUS
  <2>1. T \in SUBSET Nat
    BY <1>1
  <2>2. PICK k \in T : \A j \in T : k <= j
    BY <2>1, LeastOfSet
  <2>3. k \in 1..(n + 1) /\ k - 1 \in 0..n /\ k \in 1..C /\ k - 1 + 1 = k
    BY <1>1, <1>2, <1>3, <2>2
  <2>4. k - 1 \notin T /\ k - 1 \in 0..(n + 1)
    BY <1>1, <2>2, <2>3
  <2>5. nth[k - 1] = NodeAt(s, k - 1)
    BY <2>4
  <2>6. nth[k] = NodeAt(s, k)
    BY <1>3, <1>4, <2>3, <2>5
  <2> QED BY <2>2, <2>6
<1>6. n + 1 \in 1..C /\ nth[n + 1] = Head0 /\ \A k \in 1..n : nth[k] = s[k] /\ nth[k] # Head0
  BY <1>1, <1>2, <1>5
<1>7. Returns(step)
  BY <1>6 DEF Returns, nth, C
<1>8. Walk(step) = s
  <2> DEFINE Ends0(k) == nth[k] = Head0 /\ \A j \in 1..(k - 1) : nth[j] # Head0
             end == CHOOSE k \in 1..C : Ends0(k)
  <2>1. Ends0(n + 1) /\ n + 1 - 1 = n
    BY <1>1, <1>6
  <2>2. \A k \in 1..C : Ends0(k) => k = n + 1
    <3> SUFFICES ASSUME NEW k \in 1..C, Ends0(k) PROVE k = n + 1
      OBVIOUS
    <3>1. k \notin 1..n
      BY <1>6
    <3>2. ~(n + 1 \in 1..(k - 1))
      BY <1>6
    <3> QED BY <1>1, <1>2, <3>1, <3>2
  <2>3. end = n + 1
    <3> HIDE DEF Ends0
    <3> QED BY <1>6, <2>1, <2>2
  <2>4. Walk(step) = [k \in 1..(end - 1) |-> nth[k]]
    BY DEF Walk, nth, C
  <2> HIDE DEF end
  <2>5. Walk(step) = [k \in 1..n |-> s[k]]
    BY <1>1, <1>6, <2>1, <2>3, <2>4
  <2> QED BY <2>5, LenProperties DEF n
<1> QED BY <1>7, <1>8

(* Linking an item between two neighbours of a chain.                         *)
LEMMA ChainAdd ==
  ASSUME ListTypeOK, NEW s \in Seq(ListItems), Chain(s), NEW x \in ListItems, x \notin linked,
         linked' = linked \cup {x}, links' = AddTo(links, x, Head0)
  PROVE  <<x>> \o s \in Seq(ListItems) /\ Chain(<<x>> \o s)'
<1> DEFINE n == Len(s)
           t == <<x>> \o s
<1>1. /\ n \in Nat /\ (\A k \in Int : NodeAt(s, k) \in Nodes) /\ NodeAt(s, 0) = Head0 /\ NodeAt(s, n + 1) = Head0
      /\ (\A k \in 1..n : NodeAt(s, k) = s[k] /\ s[k] \in ListItems /\ s[k] # Head0)
      /\ (\A j, k \in 0..n : NodeAt(s, j) = NodeAt(s, k) => j = k)
      /\ \A j, k \in 1..(n + 1) : NodeAt(s, j) = NodeAt(s, k) => j = k
  BY NodesOfChain DEF Chain
<1>2. /\ (\A y : y \in linked <=> \E k \in 1..n : s[k] = y)
      /\ (\A j, k \in 1..n : s[j] = s[k] => j = k)
      /\ \A k \in 0..n : links.next[NodeAt(s, k)] = NodeAt(s, k + 1) /\ links.prev[NodeAt(s, k + 1)] = NodeAt(s, k)
  BY DEF Chain, Distinct
<1>3. t \in Seq(ListItems) /\ Len(t) = n + 1 /\ t[1] = x /\ \A k \in 1..n : t[k + 1] = s[k]
  <2>1. <<x>> \in Seq(ListItems) /\ Len(<<x>>) = 1 /\ <<x>>[1] = x
    OBVIOUS
  <2>2. /\ t \in Seq(ListItems) /\ Len(t) = 1 + n /\ (\A k \in 1..1 : t[k] = <<x>>[k])
        /\ \A k \in (1 + 1)..(1 + n) : t[k] = s[k - 1]
    BY <2>1, Together
  <2> HIDE DEF t
  <2>3. \A k \in 1..n : k + 1 \in (1 + 1)..(1 + n) /\ k + 1 - 1 = k
    BY <1>1
  <2> QED BY <1>1, <2>1, <2>2, <2>3
<1>4. x # Head0 /\ x \in Nodes /\ Head0 \in Nodes /\ \A k \in 1..n : s[k] # x
  BY <1>2, ListAssumption DEF Nodes
<1>5. links.next \in [Nodes -> Nodes] /\ links.prev \in [Nodes -> Nodes]
  BY DEF ListTypeOK
<1>6. links.next[Head0] = NodeAt(s, 1)
  BY <1>1, <1>2
<1>7. /\ links'.next = [links.next EXCEPT ![Head0] = x, ![x] = NodeAt(s, 1)]
      /\ links'.prev = [links.prev EXCEPT ![NodeAt(s, 1)] = x, ![x] = Head0]
  BY <1>6 DEF AddTo, Link
<1> HIDE DEF t, n
<1>8. /\ NodeAt(t, 0) = Head0 /\ NodeAt(t, 1) = x /\ NodeAt(t, n + 2) = Head0
      /\ \A k \in 1..(n + 1) : NodeAt(t, k + 1) = NodeAt(s, k)
  <2>1. \A k \in 1..n : NodeAt(t, k + 1) = NodeAt(s, k)
    BY <1>1, <1>3 DEF NodeAt
  <2>2. NodeAt(t, 0) = Head0 /\ NodeAt(t, 1) = x /\ NodeAt(t, n + 2) = Head0
    BY <1>1, <1>3 DEF NodeAt
  <2> QED BY <1>1, <2>1, <2>2
<1>9. \A k \in 1..(n + 1) : NodeAt(s, k) # x
  BY <1>1, <1>4
<1>10. \A y : y \in linked' <=> \E k \in 1..Len(t) : t[k] = y
  <2>1. \A y : (\E k \in 1..n : s[k] = y) => \E k \in 1..(n + 1) : t[k] = y
    <3> SUFFICES ASSUME NEW k \in 1..n PROVE \E j \in 1..(n + 1) : t[j] = s[k]
      OBVIOUS
    <3>1. k + 1 \in 1..(n + 1) /\ t[k + 1] = s[k]
      BY <1>1, <1>3
    <3> QED BY <3>1
  <2>2. \A k \in 1..(n + 1) : t[k] = x \/ \E j \in 1..n : s[j] = t[k]
    <3> SUFFICES ASSUME NEW k \in 1..(n + 1), k # 1 PROVE \E j \in 1..n : s[j] = t[k]
      BY <1>3
    <3>1. k - 1 \in 1..n /\ t[k - 1 + 1] = s[k - 1] /\ k - 1 + 1 = k
      BY <1>1, <1>3
    <3> QED BY <3>1
  <2>3. 1 \in 1..(n + 1) /\ t[1] = x
    BY <1>1, <1>3
  <2>4. \A y : y \in linked' <=> y = x \/ \E k \in 1..n : s[k] = y
    BY <1>2
  <2>5. \A y : (\E k \in 1..(n + 1) : t[k] = y) <=> y = x \/ \E k \in 1..n : s[k] = y
    BY <2>1, <2>2, <2>3
  <2> QED BY <1>3, <2>4, <2>5
<1>11. \A j, k \in 1..Len(t) : t[j] = t[k] => j = k
  <2> SUFFICES ASSUME NEW j \in 1..(n + 1), NEW k \in 1..(n + 1), t[j] = t[k] PROVE j = k
    BY <1>3
  <2>1. j = 1 \/ (j - 1 \in 1..n /\ t[j] = s[j - 1])
    <3> SUFFICES ASSUME j # 1 PROVE j - 1 \in 1..n /\ t[j] = s[j - 1]
      OBVIOUS
    <3>1. j - 1 \in 1..n /\ j - 1 + 1 = j
      BY <1>1
    <3> QED BY <1>3, <3>1
  <2>2. k = 1 \/ (k - 1 \in 1..n /\ t[k] = s[k - 1])
    <3> SUFFICES ASSUME k # 1 PROVE k - 1 \in 1..n /\ t[k] = s[k - 1]
      OBVIOUS
    <3>1. k - 1 \in 1..n /\ k - 1 + 1 = k
      BY <1>1
    <3> QED BY <1>3, <3>1
  <2>3. t[1] = x
    BY <1>3
  <2> QED BY <1>1, <1>2, <1>4, <2>1, <2>2, <2>3
<1>12. ASSUME NEW k \in 0..Len(t)
       PROVE  links'.next[NodeAt(t, k)] = NodeAt(t, k + 1) /\ links'.prev[NodeAt(t, k + 1)] = NodeAt(t, k)
  <2>1. CASE k = 0
    <3>1. NodeAt(s, 1) # x /\ NodeAt(t, 0) = Head0 /\ NodeAt(t, 0 + 1) = x
      BY <1>1, <1>8, <1>9
    <3>2. links'.next[Head0] = x /\ links'.prev[x] = Head0
      BY <1>1, <1>4, <1>5, <1>7
    <3> QED BY <2>1, <3>1, <3>2
  <2>2. CASE k = 1
    <3>1. NodeAt(t, 1) = x /\ NodeAt(t, 1 + 1) = NodeAt(s, 1) /\ NodeAt(s, 1) # x /\ NodeAt(s, 1) \in Nodes
      BY <1>1, <1>8, <1>9
    <3>2. links'.next[x] = NodeAt(s, 1) /\ links'.prev[NodeAt(s, 1)] = x
      BY <1>4, <1>5, <1>7, <3>1
    <3> QED BY <2>2, <3>1, <3>2
  <2>3. CASE k > 1
    <3> DEFINE j == k - 1
    <3>1. j \in 1..n /\ j + 1 \in 1..(n + 1) /\ j + 1 = k /\ j \in 0..n /\ j \in 1..(n + 1) /\ k \in Int /\ j \in Int
      BY <1>1, <1>3, <2>3
    <3>2. NodeAt(t, k) = NodeAt(s, j) /\ NodeAt(t, k + 1) = NodeAt(s, k)
      BY <1>8, <3>1
    <3>3. NodeAt(s, j) # Head0 /\ NodeAt(s, j) # x /\ NodeAt(s, k) # x /\ NodeAt(s, k) # NodeAt(s, 1)
      BY <1>1, <1>9, <2>3, <3>1
    <3>4. NodeAt(s, j) \in Nodes /\ NodeAt(s, k) \in Nodes
      BY <1>1, <3>1
    <3>5. links.next[NodeAt(s, j)] = NodeAt(s, k) /\ links.prev[NodeAt(s, k)] = NodeAt(s, j)
      BY <1>2, <3>1
    <3>6. links'.next[NodeAt(s, j)] = NodeAt(s, k) /\ links'.prev[NodeAt(s, k)] = NodeAt(s, j)
      BY <1>5, <1>7, <3>3, <3>4, <3>5
    <3> QED BY <3>2, <3>6
  <2> QED BY <1>1, <1>3, <2>1, <2>2, <2>3
<1>13. Chain(t)'
  <2>1. NodeAt(t, 0)' = NodeAt(t, 0) /\ \A k : NodeAt(t, k)' = NodeAt(t, k)
    BY DEF NodeAt
  <2> QED BY <1>10, <1>11, <1>12 DEF Chain, Distinct
<1> QED BY <1>3, <1>13 DEF t

(* An item linked before the head stands at the end of the sequence.          *)
LEMMA ChainAddBack ==
  ASSUME ListTypeOK, NEW s \in Seq(ListItems), Chain(s), NEW x \in ListItems, x \notin linked,
         linked' = linked \cup {x}, links' = AddBackTo(links, x, Head0)
  PROVE  Append(s, x) \in Seq(ListItems) /\ Chain(Append(s, x))'
<1> DEFINE n == Len(s)
           t == Append(s, x)
<1>1. /\ n \in Nat /\ (\A k \in Int : NodeAt(s, k) \in Nodes) /\ NodeAt(s, 0) = Head0 /\ NodeAt(s, n + 1) = Head0
      /\ (\A k \in 1..n : NodeAt(s, k) = s[k] /\ s[k] \in ListItems /\ s[k] # Head0)
      /\ (\A j, k \in 0..n : NodeAt(s, j) = NodeAt(s, k) => j = k)
      /\ \A j, k \in 1..(n + 1) : NodeAt(s, j) = NodeAt(s, k) => j = k
  BY NodesOfChain DEF Chain
<1>2. /\ (\A y : y \in linked <=> \E k \in 1..n : s[k] = y)
      /\ (\A j, k \in 1..n : s[j] = s[k] => j = k)
      /\ \A k \in 0..n : links.next[NodeAt(s, k)] = NodeAt(s, k + 1) /\ links.prev[NodeAt(s, k + 1)] = NodeAt(s, k)
  BY DEF Chain, Distinct
<1>3. t \in Seq(ListItems) /\ Len(t) = n + 1 /\ t[n + 1] = x /\ \A k \in 1..n : t[k] = s[k]
  BY AppendProperties
<1>4. x # Head0 /\ x \in Nodes /\ Head0 \in Nodes /\ \A k \in 1..n : s[k] # x
  BY <1>2, ListAssumption DEF Nodes
<1>5. links.next \in [Nodes -> Nodes] /\ links.prev \in [Nodes -> Nodes]
  BY DEF ListTypeOK
<1>6. links.prev[Head0] = NodeAt(s, n)
  <2>1. n \in 0..n
    BY <1>1
  <2> QED BY <1>1, <1>2, <2>1
<1>7. /\ links'.next = [links.next EXCEPT ![NodeAt(s, n)] = x, ![x] = Head0]
      /\ links'.prev = [links.prev EXCEPT ![Head0] = x, ![x] = NodeAt(s, n)]
  BY <1>6 DEF AddBackTo, Link
<1> HIDE DEF t, n
<1>8. /\ NodeAt(t, n + 1) = x /\ NodeAt(t, n + 2) = Head0
      /\ \A k \in 0..n : NodeAt(t, k) = NodeAt(s, k)
  <2>1. \A k \in 1..n : NodeAt(t, k) = NodeAt(s, k)
    BY <1>1, <1>3 DEF NodeAt
  <2>2. NodeAt(t, 0) = Head0 /\ NodeAt(t, n + 1) = x /\ NodeAt(t, n + 2) = Head0
    BY <1>1, <1>3 DEF NodeAt
  <2> QED BY <1>1, <2>1, <2>2
<1>9. \A k \in 0..(n + 1) : NodeAt(s, k) # x
  BY <1>1, <1>4
<1>10. \A y : y \in linked' <=> \E k \in 1..Len(t) : t[k] = y
  <2>1. n + 1 \in 1..(n + 1) /\ \A k : k \in 1..(n + 1) <=> k \in 1..n \/ k = n + 1
    BY <1>1
  <2>2. \A y : y \in linked' <=> y = x \/ \E k \in 1..n : s[k] = y
    BY <1>2
  <2>3. \A y : (\E k \in 1..(n + 1) : t[k] = y) <=> y = x \/ \E k \in 1..n : s[k] = y
    BY <1>3, <2>1
  <2> QED BY <1>3, <2>2, <2>3
<1>11. \A j, k \in 1..Len(t) : t[j] = t[k] => j = k
  <2> SUFFICES ASSUME NEW j \in 1..(n + 1), NEW k \in 1..(n + 1), t[j] = t[k] PROVE j = k
    BY <1>3
  <2>1. (j = n + 1 \/ j \in 1..n) /\ (k = n + 1 \/ k \in 1..n)
    BY <1>1
  <2> QED BY <1>2, <1>3, <1>4, <2>1
<1>12. ASSUME NEW k \in 0..Len(t)
       PROVE  links'.next[NodeAt(t, k)] = NodeAt(t, k + 1) /\ links'.prev[NodeAt(t, k + 1)] = NodeAt(t, k)
  <2>1. CASE k = n + 1
    <3>1. NodeAt(t, k) = x /\ NodeAt(t, k + 1) = Head0
      BY <1>1, <1>8, <2>1
    <3>2. links'.next[x] = Head0 /\ links'.prev[Head0] = x
      BY <1>1, <1>4, <1>5, <1>7
    <3> QED BY <3>1, <3>2
  <2>2. CASE k = n
    <3>1. NodeAt(t, k) = NodeAt(s, n) /\ NodeAt(t, k + 1) = x /\ NodeAt(s, n) # x /\ NodeAt(s, n) \in Nodes
      BY <1>1, <1>8, <1>9, <2>2
    <3>2. links'.next[NodeAt(s, n)] = x /\ links'.prev[x] = NodeAt(s, n)
      BY <1>4, <1>5, <1>7, <3>1
    <3> QED BY <3>1, <3>2
  <2>3. CASE k < n
    <3>1. k \in 0..n /\ k + 1 \in 0..n /\ k + 1 \in 1..n /\ k \in Int /\ k + 1 \in Int /\ n \in 0..n /\ k # n
      BY <1>1, <1>3, <2>3
    <3>2. NodeAt(t, k) = NodeAt(s, k) /\ NodeAt(t, k + 1) = NodeAt(s, k + 1)
      BY <1>8, <3>1
    <3>3. NodeAt(s, k) # x /\ NodeAt(s, k + 1) # x
      BY <1>1, <1>9, <3>1
    <3>4. NodeAt(s, k + 1) # Head0 /\ NodeAt(s, k) # NodeAt(s, n)
      BY <1>1, <3>1
    <3>5. NodeAt(s, k) \in Nodes /\ NodeAt(s, k + 1) \in Nodes
      BY <1>1, <3>1
    <3>6. links.next[NodeAt(s, k)] = NodeAt(s, k + 1) /\ links.prev[NodeAt(s, k + 1)] = NodeAt(s, k)
      BY <1>2, <3>1
    <3>7. links'.next[NodeAt(s, k)] = NodeAt(s, k + 1) /\ links'.prev[NodeAt(s, k + 1)] = NodeAt(s, k)
      BY <1>5, <1>7, <3>3, <3>4, <3>5, <3>6
    <3> QED BY <3>2, <3>7
  <2>4. k = n + 1 \/ k = n \/ k < n
    BY <1>1, <1>3
  <2> QED BY <2>1, <2>2, <2>3, <2>4
<1>13. Chain(t)'
  <2>1. \A k : NodeAt(t, k)' = NodeAt(t, k)
    BY DEF NodeAt
  <2> QED BY <1>10, <1>11, <1>12 DEF Chain, Distinct
<1> QED BY <1>3, <1>13 DEF t

(* Unlinking an item: its neighbours are linked to each other.                *)
LEMMA ChainDel ==
  ASSUME ListTypeOK, NEW s \in Seq(ListItems), Chain(s), NEW m \in 1..Len(s),
         linked' = linked \ {s[m]}, links' = DelFrom(links, s[m])
  PROVE  RemoveAt(s, m) \in Seq(ListItems) /\ Chain(RemoveAt(s, m))'
<1> DEFINE n == Len(s)
           t == RemoveAt(s, m)
           x == s[m]
<1>1. /\ n \in Nat /\ (\A k \in Int : NodeAt(s, k) \in Nodes) /\ NodeAt(s, 0) = Head0 /\ NodeAt(s, n + 1) = Head0
      /\ (\A k \in 1..n : NodeAt(s, k) = s[k] /\ s[k] \in ListItems /\ s[k] # Head0)
      /\ (\A j, k \in 0..n : NodeAt(s, j) = NodeAt(s, k) => j = k)
      /\ \A j, k \in 1..(n + 1) : NodeAt(s, j) = NodeAt(s, k) => j = k
  BY NodesOfChain DEF Chain
<1>2. /\ (\A y : y \in linked <=> \E k \in 1..n : s[k] = y)
      /\ (\A j, k \in 1..n : s[j] = s[k] => j = k)
      /\ \A k \in 0..n : links.next[NodeAt(s, k)] = NodeAt(s, k + 1) /\ links.prev[NodeAt(s, k + 1)] = NodeAt(s, k)
  BY DEF Chain, Distinct
<1>3. /\ t \in Seq(ListItems) /\ Len(t) = n - 1
      /\ (\A k \in 1..(m - 1) : t[k] = s[k]) /\ \A k \in m..(n - 1) : t[k] = s[k + 1]
  <2>1. t = Without(s, m)
    BY DEF RemoveAt, Without
  <2> QED BY <2>1, WithoutElement
<1>4. /\ m \in 1..n /\ m - 1 \in 0..n /\ m + 1 \in 1..(n + 1) /\ m \in 0..n /\ m - 1 + 1 = m
      /\ NodeAt(s, m) = x /\ x \in Nodes
  BY <1>1
<1>5. links.next \in [Nodes -> Nodes] /\ links.prev \in [Nodes -> Nodes]
  BY DEF ListTypeOK
<1>6. links.prev[x] = NodeAt(s, m - 1) /\ links.next[x] = NodeAt(s, m + 1) /\ x # NodeAt(s, m - 1)
  BY <1>1, <1>2, <1>4
<1> HIDE DEF t, n, x
<1>7. NodeAt(s, m - 1) \in Nodes /\ NodeAt(s, m + 1) \in Nodes
  BY <1>1, <1>4
<1>8. /\ links'.next = [links.next EXCEPT ![NodeAt(s, m - 1)] = NodeAt(s, m + 1)]
      /\ links'.prev = [links.prev EXCEPT ![NodeAt(s, m + 1)] = NodeAt(s, m - 1)]
  <2> DEFINE new == [links.next EXCEPT ![NodeAt(s, m - 1)] = NodeAt(s, m + 1)]
  <2>1. new[x] = NodeAt(s, m + 1)
    BY <1>4, <1>5, <1>6, <1>7
  <2>2. links' = DelFrom(links, x)
    BY DEF x
  <2>3. links' = [next |-> new, prev |-> [links.prev EXCEPT ![new[x]] = NodeAt(s, m - 1)]]
    BY <1>6, <2>2 DEF DelFrom
  <2> QED BY <2>1, <2>3
<1>9. /\ \A k \in 0..(m - 1) : NodeAt(t, k) = NodeAt(s, k)
      /\ \A k \in m..n : NodeAt(t, k) = NodeAt(s, k + 1)
  <2>1. \A k \in 1..(m - 1) : NodeAt(t, k) = NodeAt(s, k)
    BY <1>1, <1>3, <1>4 DEF NodeAt, n
  <2>2. NodeAt(t, 0) = Head0
    BY DEF NodeAt
  <2>3. \A k \in m..(n - 1) : NodeAt(t, k) = NodeAt(s, k + 1)
    BY <1>1, <1>3, <1>4 DEF NodeAt, n
  <2>4. NodeAt(t, n) = Head0
    BY <1>1, <1>3 DEF NodeAt
  <2> QED BY <1>1, <1>4, <2>1, <2>2, <2>3, <2>4, SMTT(30)
<1>10. \A y : y \in linked' <=> \E k \in 1..Len(t) : t[k] = y
  <2>1. \A y : y \in linked' <=> \E k \in (1..n) \ {m} : s[k] = y
    BY <1>2, <1>4 DEF x
  <2>2. ASSUME NEW k \in (1..n) \ {m} PROVE \E j \in 1..(n - 1) : t[j] = s[k]
    <3>1. CASE k < m
      <4>1. k \in 1..(m - 1) /\ k \in 1..(n - 1)
        BY <1>1, <1>4, <3>1
      <4> QED BY <1>3, <4>1
    <3>2. CASE k > m
      <4>1. k - 1 \in m..(n - 1) /\ k - 1 \in 1..(n - 1) /\ k - 1 + 1 = k
        BY <1>1, <1>4, <3>2
      <4> QED BY <1>3, <4>1
    <3> QED BY <1>1, <1>4, <3>1, <3>2
  <2>3. ASSUME NEW j \in 1..(n - 1) PROVE \E k \in (1..n) \ {m} : t[j] = s[k]
    <3>1. CASE j < m
      <4>1. j \in 1..(m - 1) /\ j \in (1..n) \ {m}
        BY <1>1, <1>4, <3>1
      <4> QED BY <1>3, <4>1
    <3>2. CASE j >= m
      <4>1. j \in m..(n - 1) /\ j + 1 \in (1..n) \ {m}
        BY <1>1, <1>4, <3>2
      <4> QED BY <1>3, <4>1
    <3> QED BY <1>1, <1>4, <3>1, <3>2
  <2>4. \A y : (\E k \in 1..(n - 1) : t[k] = y) <=> \E k \in (1..n) \ {m} : s[k] = y
    <3>1. \A k \in (1..n) \ {m} : \E j \in 1..(n - 1) : t[j] = s[k]
      BY <2>2
    <3>2. \A j \in 1..(n - 1) : \E k \in (1..n) \ {m} : t[j] = s[k]
      BY <2>3
    <3> QED BY <3>1, <3>2, Zenon
  <2>5. 1..Len(t) = 1..(n - 1)
    BY <1>3
  <2> QED BY <2>1, <2>4, <2>5, Zenon
<1>11. \A j, k \in 1..Len(t) : t[j] = t[k] => j = k
  <2> DEFINE from(j) == IF j < m THEN j ELSE j + 1
  <2>1. \A j \in 1..(n - 1) : from(j) \in 1..n /\ t[j] = s[from(j)]
    <3> SUFFICES ASSUME NEW j \in 1..(n - 1) PROVE from(j) \in 1..n /\ t[j] = s[from(j)]
      OBVIOUS
    <3>1. CASE j < m
      <4>1. j \in 1..(m - 1) /\ j \in 1..n
        BY <1>1, <1>4, <3>1
      <4> QED BY <1>3, <3>1, <4>1
    <3>2. CASE ~(j < m)
      <4>1. j \in m..(n - 1) /\ j + 1 \in 1..n
        BY <1>1, <1>4, <3>2
      <4> QED BY <1>3, <3>2, <4>1
    <3> QED BY <3>1, <3>2
  <2>2. \A j, k \in 1..(n - 1) : from(j) = from(k) => j = k
    BY <1>1, <1>4
  <2> HIDE DEF from
  <2>3. \A j, k \in 1..(n - 1) : t[j] = t[k] => j = k
    <3> SUFFICES ASSUME NEW j \in 1..(n - 1), NEW k \in 1..(n - 1), t[j] = t[k] PROVE j = k
      OBVIOUS
    <3>1. from(j) \in 1..n /\ from(k) \in 1..n /\ s[from(j)] = s[from(k)]
      BY <2>1
    <3>2. from(j) = from(k)
      BY <1>2, <3>1
    <3> QED BY <2>2, <3>2
  <2>4. 1..Len(t) = 1..(n - 1)
    BY <1>3
  <2> QED BY <2>3, <2>4, Zenon
<1>12. ASSUME NEW k \in 0..Len(t)
       PROVE  links'.next[NodeAt(t, k)] = NodeAt(t, k + 1) /\ links'.prev[NodeAt(t, k + 1)] = NodeAt(t, k)
  <2>1. CASE k = m - 1
    <3>1. NodeAt(t, k) = NodeAt(s, m - 1) /\ NodeAt(t, k + 1) = NodeAt(s, m + 1)
      <4>1. k \in 0..(m - 1) /\ m \in m..n /\ k + 1 = m
        BY <1>1, <1>4, <2>1
      <4> QED BY <1>9, <2>1, <4>1
    <3> QED BY <1>5, <1>7, <1>8, <3>1
  <2>2. CASE k < m - 1
    <3>1. k \in 0..(m - 1) /\ k + 1 \in 0..(m - 1) /\ k \in 0..n /\ k + 1 \in 1..(n + 1) /\ k \in Int /\ k + 1 \in Int
          /\ k + 1 # m + 1 /\ k # m - 1
      BY <1>1, <1>4, <2>2
    <3>2. NodeAt(t, k) = NodeAt(s, k) /\ NodeAt(t, k + 1) = NodeAt(s, k + 1)
      BY <1>9, <3>1
    <3>3. NodeAt(s, k) # NodeAt(s, m - 1) /\ NodeAt(s, k + 1) # NodeAt(s, m + 1)
      BY <1>1, <1>4, <3>1
    <3>4. NodeAt(s, k) \in Nodes /\ NodeAt(s, k + 1) \in Nodes
      BY <1>1, <3>1
    <3>5. links.next[NodeAt(s, k)] = NodeAt(s, k + 1) /\ links.prev[NodeAt(s, k + 1)] = NodeAt(s, k)
      BY <1>2, <3>1
    <3> QED BY <1>5, <1>8, <3>2, <3>3, <3>4, <3>5
  <2>3. CASE k > m - 1
    <3> DEFINE j == k + 1
    <3>1. k \in m..n /\ j \in m..n /\ j \in 0..n /\ j + 1 \in 1..(n + 1) /\ j \in Int /\ j + 1 \in Int
          /\ j + 1 # m + 1 /\ j # m - 1
      BY <1>1, <1>3, <1>4, <2>3
    <3>2. NodeAt(t, k) = NodeAt(s, j) /\ NodeAt(t, k + 1) = NodeAt(s, j + 1)
      BY <1>9, <3>1
    <3> HIDE DEF j
    <3>3. NodeAt(s, j) # NodeAt(s, m - 1) /\ NodeAt(s, j + 1) # NodeAt(s, m + 1)
      BY <1>1, <1>4, <3>1
    <3>4. NodeAt(s, j) \in Nodes /\ NodeAt(s, j + 1) \in Nodes
      BY <1>1, <3>1
    <3>5. links.next[NodeAt(s, j)] = NodeAt(s, j + 1) /\ links.prev[NodeAt(s, j + 1)] = NodeAt(s, j)
      BY <1>2, <3>1
    <3> QED BY <1>5, <1>8, <3>2, <3>3, <3>4, <3>5
  <2>4. k = m - 1 \/ k < m - 1 \/ k > m - 1
    BY <1>1, <1>3, <1>4
  <2> QED BY <2>1, <2>2, <2>3, <2>4
<1>13. Chain(t)'
  <2>1. \A k : NodeAt(t, k)' = NodeAt(t, k)
    BY DEF NodeAt
  <2> QED BY <1>10, <1>11, <1>12 DEF Chain, Distinct
<1> QED BY <1>3, <1>13 DEF t

(* The empty list is the empty sequence.                                      *)
LEMMA ListInitInv == ListInit => ListIInv /\ Sequence!Init
<1> SUFFICES ASSUME ListInit PROVE ListIInv /\ Sequence!Init
  OBVIOUS
<1> DEFINE s == << >>
<1>1. ListTypeOK
  BY ListInitType
<1>2. s \in Seq(ListItems) /\ Len(s) = 0
  OBVIOUS
<1>3. NodeAt(s, 0) = Head0 /\ NodeAt(s, 0 + 1) = Head0 /\ Head0 \in Nodes
  BY <1>2 DEF NodeAt, Nodes
<1>4. links.next[Head0] = Head0 /\ links.prev[Head0] = Head0 /\ linked = {} /\ ~headless
  BY <1>3 DEF ListInit, Self
<1> HIDE DEF s
<1>5. Distinct(s) /\ \A k \in 0..Len(s) : k = 0
  BY <1>2 DEF Distinct
<1>6. Chain(s)
  BY <1>2, <1>3, <1>4, <1>5 DEF Chain
<1>7. Returns(links.next) /\ Walk(links.next) = s
  <2>1. links.next \in [Nodes -> Nodes]
    BY <1>1 DEF ListTypeOK
  <2> QED BY <1>2, <1>6, <2>1, WalkOfChain DEF Chain
<1>8. Sequence!Init
  BY <1>4, <1>7 DEF Sequence!Init, s, ListInit
<1> QED BY <1>1, <1>2, <1>4, <1>6, <1>8 DEF ListIInv

(* What the abstract sequence is: the chain, as long as there is a head.      *)
LEMMA ListShows ==
  ASSUME NEW step \in [Nodes -> Nodes], NEW s \in Seq(ListItems), Distinct(s),
         \A k \in 0..Len(s) : step[NodeAt(s, k)] = NodeAt(s, k + 1)
  PROVE  (IF Returns(step) THEN Walk(step) ELSE <<"endless">>) = s
BY WalkOfChain

(* Every call on the list is the same call on the sequence.                   *)
LEMMA ListStep ==
  ListIInv /\ [ListNext]_listVars => ListIInv' /\ [Sequence!Next]_(Sequence!vars)
<1> DEFINE shown == IF Returns(links.next) THEN Walk(links.next) ELSE <<"endless">>
<1> SUFFICES ASSUME ListIInv, [ListNext]_listVars PROVE ListIInv' /\ [Sequence!Next]_(Sequence!vars)
  OBVIOUS
<1>1. ListTypeOK /\ ListTypeOK' /\ links.next \in [Nodes -> Nodes] /\ links'.next \in [Nodes -> Nodes]
  <2>1. ListTypeOK /\ ListTypeOK'
    BY ListNextType DEF ListIInv
  <2> QED BY <2>1 DEF ListTypeOK
<1>2. CASE UNCHANGED listVars
  <2>1. UNCHANGED <<links, linked, headless, call>>
    BY <1>2 DEF listVars
  <2>2. ListIInv'
    BY <2>1 DEF ListIInv, ListTypeOK, Chain, Distinct, NodeAt
  <2>3. UNCHANGED Sequence!vars
    BY <2>1 DEF Sequence!vars
  <2> QED BY <2>2, <2>3
<1>3. ASSUME NEW s \in Seq(ListItems), Chain(s) PROVE shown = s
  BY <1>1, <1>3, ListShows DEF Chain
<1>4. ASSUME NEW s \in Seq(ListItems), Chain(s)' PROVE shown' = s
  BY <1>1, <1>4, ListShows DEF Chain, Distinct, NodeAt
<1>5. ASSUME headless, UNCHANGED headless PROVE ListIInv' /\ Sequence!Next
  BY <1>1, <1>5 DEF ListIInv, Sequence!Next, Sequence!Lost
<1>6. ASSUME ~headless PROVE \E s \in Seq(ListItems) : Chain(s)
  BY <1>6 DEF ListIInv
<1> HIDE DEF shown
<1>7. CASE DelHead
  <2>1. ~headless /\ headless' = TRUE /\ call' = <<"list_del">>
    BY <1>7 DEF DelHead
  <2> QED BY <1>1, <2>1 DEF ListIInv, Sequence!Next, Sequence!Lose
<1>8. ASSUME NEW x \in ListItems, Add(x), ~headless PROVE ListIInv' /\ Sequence!Next
  <2>1. PICK s \in Seq(ListItems) : Chain(s)
    BY <1>6, <1>8
  <2>2. <<x>> \o s \in Seq(ListItems) /\ Chain(<<x>> \o s)' /\ x \notin linked
    BY <1>1, <1>8, <2>1, ChainAdd DEF Add
  <2>3. shown = s /\ shown' = <<x>> \o s
    BY <1>3, <1>4, <2>1, <2>2
  <2>4. ~Sequence!Contains(shown, x)
    BY <2>1, <2>2, <2>3 DEF Chain, Sequence!Contains
  <2>5. headless' = headless /\ call' = <<"list_add", x>>
    BY <1>8 DEF Add
  <2>6. Sequence!Add(x)
    BY <1>8, <2>3, <2>4, <2>5 DEF Sequence!Add, Sequence!Absent, shown
  <2> QED BY <1>1, <2>2, <2>6 DEF ListIInv, Sequence!Next
<1>9. ASSUME NEW x \in ListItems, AddBack(x), ~headless PROVE ListIInv' /\ Sequence!Next
  <2>1. PICK s \in Seq(ListItems) : Chain(s)
    BY <1>6, <1>9
  <2>2. Append(s, x) \in Seq(ListItems) /\ Chain(Append(s, x))' /\ x \notin linked
    BY <1>1, <1>9, <2>1, ChainAddBack DEF AddBack
  <2>3. shown = s /\ shown' = Append(s, x)
    BY <1>3, <1>4, <2>1, <2>2
  <2>4. ~Sequence!Contains(shown, x)
    BY <2>1, <2>2, <2>3 DEF Chain, Sequence!Contains
  <2>5. headless' = headless /\ call' = <<"list_add_back", x>>
    BY <1>9 DEF AddBack
  <2>6. Sequence!AddBack(x)
    BY <1>9, <2>3, <2>4, <2>5 DEF Sequence!AddBack, Sequence!Absent, shown
  <2> QED BY <1>1, <2>2, <2>6 DEF ListIInv, Sequence!Next
<1>10. ASSUME NEW x \in ListItems, Del(x) PROVE ListIInv' /\ Sequence!Next
  <2>1. ~headless /\ x \in linked /\ headless' = headless /\ call' = <<"list_del", x>>
    BY <1>10 DEF Del
  <2>2. PICK s \in Seq(ListItems) : Chain(s)
    BY <1>6, <2>1
  <2>3. PICK m \in 1..Len(s) : s[m] = x
    BY <2>1, <2>2 DEF Chain
  <2>4. RemoveAt(s, m) \in Seq(ListItems) /\ Chain(RemoveAt(s, m))'
    BY <1>1, <1>10, <2>2, <2>3, ChainDel DEF Del
  <2>5. shown = s /\ shown' = RemoveAt(s, m)
    BY <1>3, <1>4, <2>2, <2>4
  <2>6. m \in DOMAIN s /\ RemoveAt(s, m) = Sequence!RemoveAt(s, m)
    BY <2>3, LenProperties DEF RemoveAt, Sequence!RemoveAt
  <2>7. Sequence!Delete(x)
    BY <2>1, <2>3, <2>5, <2>6 DEF Sequence!Delete, shown
  <2> QED BY <1>1, <2>4, <2>7 DEF ListIInv, Sequence!Next
<1>11. ASSUME NEW x \in ListItems, Add(x) \/ AddBack(x) PROVE ListIInv' /\ Sequence!Next
  <2>1. UNCHANGED headless
    BY <1>11 DEF Add, AddBack
  <2> QED BY <1>5, <1>8, <1>9, <1>11, <2>1
<1> QED BY <1>2, <1>7, <1>10, <1>11 DEF ListNext

(* modules.  The spare field is taken by a modulus that no other field has.   *)
Spare ==
  /\ modulus[M16] = 16
  /\ modulus[Mn] # 0 => modulus[Mn] \in Strange /\ Loaded(Mn)
  /\ asked = {} => ~crashed /\ modulus[Mn] = 0
RegistryIInv ==
  /\ RegistryTypeOK
  /\ program # "modules" => RegistryInit
  /\ program = "modules" => ~headless /\ linked \subseteq Fields /\ Spare /\ SumsModulo

(* The registry changes the list by calls on it only.                         *)
LEMMA RegistryLists == RegistryNext => [ListNext]_listVars
<1>1. ASSUME NEW f \in Fields, RegisterField(f) PROVE ListNext
  BY <1>1, RegistryAssumption DEF RegisterField, ListNext, Fields
<1>2. ASSUME NEW m \in Moduli, Sum(m) PROVE UNCHANGED listVars
  BY <1>2 DEF Sum
<1> QED BY <1>1, <1>2 DEF RegistryNext

(* No field is registered at first.                                           *)
LEMMA RegistryInitInv == ListInit /\ RegistryInit => RegistryIInv
<1> SUFFICES ASSUME ListInit, RegistryInit PROVE RegistryIInv
  OBVIOUS
<1>1. RegistryTypeOK
  BY RegistryInitType
<1>2. ~headless /\ linked \subseteq Fields
  BY DEF ListInit
<1>3. Spare
  BY RegistryAssumption DEF RegistryInit, Spare, Fields
<1>4. SumsModulo
  BY DEF RegistryInit, SumsModulo
<1> QED BY <1>1, <1>2, <1>3, <1>4 DEF RegistryIInv

(* get_field finds a field of that modulus if one is in the list.             *)
LEMMA FieldFound ==
  ASSUME ListIInv, ~headless, NEW m
  PROVE  /\ GetField(m) = NoField => \A f \in linked : modulus[f] # m
         /\ GetField(m) # NoField => GetField(m) \in linked /\ modulus[GetField(m)] = m
<1>1. PICK s \in Seq(ListItems) : Chain(s)
  BY DEF ListIInv
<1>2. Walk(links.next) = s
  <2>1. links.next \in [Nodes -> Nodes]
    BY DEF ListIInv, ListTypeOK
  <2> QED BY <1>1, <2>1, WalkOfChain DEF Chain
<1>3. DOMAIN s = 1..Len(s) /\ Len(s) \in Nat /\ \A f : f \in linked <=> \E k \in 1..Len(s) : s[k] = f
  BY <1>1, LenProperties DEF Chain
<1> DEFINE hits == {k \in DOMAIN s : modulus[s[k]] = m}
           least == CHOOSE k \in hits : \A j \in hits : k <= j
<1>4. GetField(m) = IF hits = {} THEN NoField ELSE s[least]
  BY <1>2 DEF GetField
<1>5. CASE hits = {}
  <2>1. \A f \in linked : modulus[f] # m
    BY <1>3, <1>5
  <2> QED BY <1>4, <1>5, <2>1
<1>6. CASE hits # {}
  <2>1. hits \in SUBSET Nat
    BY <1>3
  <2>2. \E k \in hits : \A j \in hits : k <= j
    <3> HIDE DEF hits
    <3> QED BY <1>6, <2>1, LeastOfSet
  <2>3. least \in hits
    <3> HIDE DEF hits
    <3> QED BY <2>2
  <2> HIDE DEF least
  <2>4. s[least] \in linked /\ modulus[s[least]] = m
    BY <1>3, <2>3
  <2>5. s[least] # NoField
    BY <2>4, ListAssumption DEF ListIInv, ListTypeOK, NoField
  <2> QED BY <1>4, <1>6, <2>4, <2>5
<1> QED BY <1>5, <1>6

(* A sum finds a field of its modulus, or renames the spare one.              *)
LEMMA SumKeeps ==
  ASSUME ListIInv, ~headless, linked \subseteq Fields, RegistryTypeOK, Spare, SumsModulo,
         NEW m \in Moduli, Sum(m)
  PROVE  Spare' /\ SumsModulo'
<1>1. /\ linked' = linked /\ asked' = asked \cup {m} /\ m \in Nat /\ M16 # Mn /\ Fields = {M16, Mn}
      /\ modulus \in [Fields -> Nat]
  BY RegistryAssumption DEF Sum, listVars, Fields, RegistryTypeOK
<1>2. Strange \cup (Strange' \cap {m}) = Strange' /\ (m # 16 \/ ~Loaded(M16) => m \in Strange')
  BY <1>1 DEF Strange, Loaded
<1> DEFINE own == GetField(m)
           f == IF own = NoField THEN GetField(0) ELSE own
<1>3. own = NoField => \A g \in linked : modulus[g] # m
  BY FieldFound
<1>4. own # NoField => own \in linked /\ modulus[own] = m
  BY FieldFound
<1>5. GetField(0) = NoField => \A g \in linked : modulus[g] # 0
  BY FieldFound
<1>6. GetField(0) # NoField => GetField(0) \in linked /\ modulus[GetField(0)] = 0
  BY FieldFound
<1>0. answer[1] = answer[2] /\ m \in asked' /\ asked \subseteq asked'
      /\ (crashed => \/ 0 \in asked
                     \/ Strange # {} /\ ~Loaded(Mn)
                     \/ \E a, b \in Strange : a # b)
  BY <1>1 DEF SumsModulo
<1>10. ASSUME answer'[1] = answer'[2],
              crashed' => \/ 0 \in asked'
                          \/ Strange' # {} /\ ~Loaded(Mn)
                          \/ \E a, b \in Strange' : a # b
       PROVE  SumsModulo'
  <2>1. Loaded(Mn)' = Loaded(Mn)
    BY <1>1 DEF Loaded
  <2> QED BY <1>10, <2>1 DEF SumsModulo
<1>7. own = NoField => m \in Strange'
  BY <1>1, <1>2, <1>3 DEF Spare, Loaded
<1>8. CASE f = NoField
  <2>1. modulus' = modulus /\ answer' = answer /\ crashed'
    BY <1>8 DEF Sum
  <2>2. own = NoField /\ GetField(0) = NoField
    BY <1>8
  <2>3. Spare'
    BY <1>1, <1>2, <2>1 DEF Spare, Loaded
  <2>4. CASE ~Loaded(Mn)
    BY <1>0, <1>7, <1>10, <2>1, <2>2, <2>3, <2>4
  <2>5. CASE Loaded(Mn)
    <3>1. modulus[Mn] # 0 /\ modulus[Mn] # m
      BY <1>3, <1>5, <2>2, <2>5 DEF Loaded
    <3>2. modulus[Mn] \in Strange'
      BY <1>2, <3>1 DEF Spare
    <3> QED BY <1>0, <1>7, <1>10, <2>1, <2>2, <2>3, <3>1, <3>2
  <2> QED BY <2>3, <2>4, <2>5
<1>9. CASE f # NoField
  <2>1. modulus' = Spares(m) /\ IF ComputesWith(f) = 0 THEN crashed' = TRUE /\ UNCHANGED answer
                                ELSE answer' = <<m, ComputesWith(f)>> /\ UNCHANGED crashed
    BY <1>9 DEF Sum
  <2> HIDE DEF f
  <2>2. CASE own # NoField
    <3>1. modulus' = modulus /\ f = own /\ f \in linked /\ modulus[f] = m
      BY <1>4, <2>1, <2>2 DEF Spares, f
    <3>2. ComputesWith(f) = m
      BY <1>1, <3>1 DEF ComputesWith, Spare
    <3>3. Spare'
      BY <1>1, <1>2, <3>1 DEF Spare, Loaded
    <3>4. CASE m = 0
      BY <1>0, <1>10, <2>1, <3>2, <3>3, <3>4
    <3>5. CASE m # 0
      <4>1. answer'[1] = answer'[2] /\ crashed' = crashed
        BY <2>1, <3>2, <3>5
      <4> QED BY <1>0, <1>2, <1>10, <3>3, <4>1
    <3> QED BY <3>3, <3>4, <3>5
  <2>3. CASE own = NoField
    <3>1. f = GetField(0) /\ f \in linked /\ modulus[f] = 0 /\ modulus' = [modulus EXCEPT ![f] = m]
      BY <1>6, <1>9, <2>1, <2>3 DEF Spares, f
    <3>2. f = Mn /\ m # 0
      BY <1>1, <1>3, <2>3, <3>1 DEF Spare
    <3>3. modulus'[Mn] = m /\ modulus'[M16] = 16 /\ ComputesWith(f) = m
      BY <1>1, <3>1, <3>2 DEF ComputesWith, Spare
    <3>4. Spare'
      BY <1>1, <1>7, <2>3, <3>1, <3>2, <3>3 DEF Spare, Loaded
    <3>5. SumsModulo'
      <4>1. answer'[1] = answer'[2] /\ crashed' = crashed
        BY <2>1, <3>2, <3>3
      <4> QED BY <1>0, <1>2, <1>10, <4>1
    <3> QED BY <3>4, <3>5
  <2> QED BY <2>2, <2>3
<1> QED BY <1>8, <1>9

(* Loading a plugin and a sum keep it.                                        *)
LEMMA RegistryNextInv ==
  ASSUME ListIInv, RegistryIInv, program' = program,
         IF program = "modules" THEN [RegistryNext]_<<listVars, registryVars>> ELSE UNCHANGED registryVars
  PROVE  RegistryIInv'
<1>1. CASE program # "modules"
  BY <1>1 DEF RegistryIInv, RegistryTypeOK, RegistryInit, registryVars
<1>2. CASE program = "modules" /\ UNCHANGED <<listVars, registryVars>>
  <2>1. UNCHANGED <<linked, headless, modulus, asked, answer, crashed>>
    BY <1>2 DEF listVars, registryVars
  <2> QED BY <1>2, <2>1 DEF RegistryIInv, RegistryTypeOK, Spare, SumsModulo, Strange, Loaded
<1>3. ASSUME program = "modules", NEW f \in Fields, RegisterField(f) PROVE RegistryIInv'
  <2>1. asked = {} /\ UNCHANGED <<modulus, asked, answer, crashed, headless>> /\ linked' = linked \cup {f}
    BY <1>3 DEF RegisterField, Add, registryVars
  <2>2. ~headless /\ linked \subseteq Fields /\ Spare /\ SumsModulo
    BY <1>3 DEF RegistryIInv
  <2>3. Spare' /\ SumsModulo'
    BY <2>1, <2>2 DEF Spare, SumsModulo
  <2>4. RegistryTypeOK'
    BY <2>1 DEF RegistryIInv, RegistryTypeOK
  <2> QED BY <1>3, <2>1, <2>2, <2>3, <2>4 DEF RegistryIInv
<1>4. ASSUME program = "modules", NEW m \in Moduli, Sum(m) PROVE RegistryIInv'
  <2>1. RegistryTypeOK /\ ~headless /\ linked \subseteq Fields /\ Spare /\ SumsModulo
    BY <1>4 DEF RegistryIInv
  <2>2. Spare' /\ SumsModulo'
    BY <1>4, <2>1, SumKeeps
  <2>3. RegistryTypeOK'
    BY <1>4, <2>1, RegistryNextType DEF RegistryNext, ListIInv
  <2>4. headless' = headless /\ linked' = linked
    BY <1>4 DEF Sum, listVars
  <2> QED BY <1>4, <2>1, <2>2, <2>3, <2>4 DEF RegistryIInv
<1> QED BY <1>1, <1>2, <1>3, <1>4 DEF RegistryNext

-----------------------------------------------------------------------------
(* bizbuzz.                                                                   *)
(* What one more digit does to the value and to its remainders.              *)
LEMMA NextDigit ==
  ASSUME NEW v \in Nat, NEW d \in 0..9
  PROVE  /\ 10 * v + d \in Nat
         /\ (10 * v + d) % 3 = ((v % 3) + d) % 3
         /\ (10 * v + d) % 5 = d % 5
<1>1. 10 * v + d \in Nat
  OBVIOUS
<1>2. (10 * v + d) % 3 = ((v % 3) + d) % 3
  OBVIOUS
<1>3. (10 * v + d) % 5 = d % 5
  OBVIOUS
<1> QED BY <1>1, <1>2, <1>3

(* The value of a number, digit by digit.                                    *)
Counts(f, ds) == f[0] = 0 /\ \A k \in 1..Len(ds) : f[k] = 10 * f[k - 1] + ds[k]
(* Value is a function of the number of digits.                               *)
LEMMA ValueIs ==
  ASSUME NEW ds \in Seq(0..9)
  PROVE  \E f \in [0..Len(ds) -> Nat] : Counts(f, ds) /\ Value(ds) = f[Len(ds)]
<1> DEFINE n == Len(ds)
           F == [k \in 1..n |-> [v \in Nat |-> 10 * v + ds[k]]]
           Fits(g) == g = [k \in 0..n |-> IF k = 0 THEN 0 ELSE 10 * g[k - 1] + ds[k]]
<1>1. n \in Nat /\ \A k \in 1..n : ds[k] \in 0..9
  BY LenProperties, ElementOfSeq
<1> HIDE DEF n
<1>2. \A k \in 1..n : F[k] \in [Nat -> Nat]
  <2> TAKE k \in 1..n
  <2>1. ASSUME NEW v \in Nat PROVE 10 * v + ds[k] \in Nat
    BY <1>1, NextDigit
  <2>2. F[k] = [v \in Nat |-> 10 * v + ds[k]]
    OBVIOUS
  <2> HIDE DEF F
  <2> QED BY <2>1, <2>2
<1>3. F \in [1..n -> [Nat -> Nat]]
  <2>1. F = [k \in 1..n |-> F[k]]
    OBVIOUS
  <2> HIDE DEF F
  <2> QED BY <1>2, <2>1
<1>4. PICK f \in [0..n -> Nat] : f[0] = 0 /\ \A k \in 1..n : f[k] = F[k][f[k - 1]]
  <2> DEFINE D == Nat
  <2> HIDE DEF F
  <2>1. 0 \in D /\ F \in [1..n -> [D -> D]]
    BY <1>3
  <2>2. \E f \in [0..n -> D] : Repeats(f, 0, n, F)
    <3> HIDE DEF D
    <3> QED BY <1>1, <2>1, RepeatedSteps
  <2> QED BY <2>2 DEF Repeats
<1>5. \A k \in 1..n : f[k - 1] \in Nat /\ f[k] = 10 * f[k - 1] + ds[k]
  <2> TAKE k \in 1..n
  <2>1. k - 1 \in 0..n
    BY <1>1
  <2>2. f[k - 1] \in Nat
    BY <1>4, <2>1
  <2> QED BY <1>4, <2>2
<1>6. Fits(f)
  BY <1>1, <1>4, <1>5
<1> DEFINE g == CHOOSE g : Fits(g)
<1>7. Value(ds) = g[n]
  BY DEF Value, n
<1>8. Fits(g)
  <2> HIDE DEF Fits
  <2> QED BY <1>6
<1> HIDE DEF g
<1>9. g[0] = 0 /\ \A k \in 1..n : g[k] = 10 * g[k - 1] + ds[k]
  <2>1. g = [k \in 0..n |-> IF k = 0 THEN 0 ELSE 10 * g[k - 1] + ds[k]]
    BY <1>8
  <2> QED BY <1>1, <2>1
<1>10. \A k \in 0..n : g[k] = f[k]
  <2> DEFINE T == {k \in 0..n : g[k] = f[k]}
  <2>1. 0 \in T /\ \A k \in 1..n : k - 1 \in T => k \in T
    BY <1>1, <1>4, <1>5, <1>9
  <2>2. \A k \in 0..n : k \in T
    <3> HIDE DEF T
    <3> QED BY <1>1, <2>1, StepByStep
  <2> QED BY <2>2
<1>11. Value(ds) = f[n]
  BY <1>1, <1>7, <1>10
<1> QED BY <1>4, <1>5, <1>11 DEF Counts, n

(* No digits.                                                                 *)
LEMMA ValueEmpty == Value(<<>>) = 0
<1>1. <<>> \in Seq(0..9) /\ Len(<<>>) = 0
  BY EmptySeq
<1>2. PICK f \in [0..Len(<<>>) -> Nat] : Counts(f, <<>>) /\ Value(<<>>) = f[Len(<<>>)]
  BY <1>1, ValueIs
<1> QED BY <1>1, <1>2 DEF Counts

(* One more digit.                                                            *)
LEMMA ValueAppended ==
  ASSUME NEW ds \in Seq(0..9), NEW c \in 0..9
  PROVE  Value(ds) \in Nat /\ Value(Append(ds, c)) = 10 * Value(ds) + c
<1> DEFINE n == Len(ds)
           es == Append(ds, c)
<1>1. /\ es \in Seq(0..9) /\ n \in Nat /\ Len(es) = n + 1
      /\ \A k \in 1..n : es[k] = ds[k] /\ ds[k] \in 0..9
      /\ es[n + 1] = c
  BY Appended, ElementOfSeq
<1> HIDE DEF n, es
<1>2. PICK f \in [0..n -> Nat] : Counts(f, ds) /\ Value(ds) = f[n]
  BY ValueIs DEF n
<1>3. PICK g \in [0..(n + 1) -> Nat] : Counts(g, es) /\ Value(es) = g[n + 1]
  BY <1>1, ValueIs
<1>4. f[0] = 0 /\ \A k \in 1..n : f[k] = 10 * f[k - 1] + ds[k]
  BY <1>2 DEF Counts, n
<1>5. /\ g[0] = 0 /\ \A k \in 1..n : g[k] = 10 * g[k - 1] + ds[k]
      /\ g[n + 1] = 10 * g[n] + c
  <2>1. g[0] = 0 /\ \A k \in 1..(n + 1) : g[k] = 10 * g[k - 1] + es[k]
    BY <1>1, <1>3 DEF Counts
  <2>2. \A k \in 1..n : k \in 1..(n + 1)
    BY <1>1
  <2>3. n + 1 \in 1..(n + 1) /\ n + 1 - 1 = n
    BY <1>1
  <2>4. \A k \in 1..n : g[k] = 10 * g[k - 1] + ds[k]
    BY <1>1, <2>1, <2>2
  <2>5. g[n + 1] = 10 * g[n] + c
    BY <1>1, <2>1, <2>3
  <2> QED BY <2>1, <2>4, <2>5
<1>6. \A k \in 0..n : g[k] = f[k]
  <2> DEFINE T == {k \in 0..n : g[k] = f[k]}
  <2>1. 0 \in T /\ \A k \in 1..n : k - 1 \in T => k \in T
    BY <1>1, <1>4, <1>5
  <2>2. \A k \in 0..n : k \in T
    <3> HIDE DEF T
    <3> QED BY <1>1, <2>1, StepByStep
  <2> QED BY <2>2
<1>7. f[n] \in Nat /\ g[n] = f[n]
  BY <1>1, <1>2, <1>6
<1>8. Value(ds) \in Nat
  BY <1>2, <1>7
<1>9. Value(es) = 10 * Value(ds) + c
  BY <1>2, <1>3, <1>5, <1>7
<1> QED BY <1>8, <1>9 DEF es

(* A word that is not a number, unless it is a minus alone: a character in   *)
(* it is neither a digit nor a minus in front.                               *)
Spoilt(w) == \E k \in 1..Len(w) : ~IsDigit(w[k]) /\ (k # 1 \/ w[k] # Minus)
Signed(w) == w # <<>> /\ w[1] = Minus

(* The digits of a word that nothing spoilt.                                  *)
LEMMA DigitsOf ==
  ASSUME NEW w \in Seq(-3..9), ~Spoilt(w)
  PROVE  /\ Digits(w) \in Seq(0..9)
         /\ Signed(w) => /\ Len(Digits(w)) = Len(w) - 1
                         /\ \A k \in 1..Len(Digits(w)) : Digits(w)[k] = w[k + 1]
         /\ ~Signed(w) => Digits(w) = w
<1> DEFINE n == Len(w)
<1>1. n \in Nat /\ (w = <<>> <=> n = 0) /\ \A k \in 1..n : w[k] \in -3..9
  BY LenProperties, ElementOfSeq, EmptySeq
<1>2. \A k \in 1..n : w[k] \in 0..9 \/ (k = 1 /\ Signed(w))
  BY <1>1 DEF Spoilt, IsDigit, Signed
<1> HIDE DEF n
<1>3. CASE Signed(w)
  <2>1. Digits(w) = SubSeq(w, 2, n) /\ n >= 1
    BY <1>1, <1>3, TailIsSubSeq DEF Digits, Signed, n
  <2>2. \A k \in 2..n : w[k] \in 0..9
    BY <1>1, <1>2
  <2>3. /\ SubSeq(w, 2, n) \in Seq(0..9) /\ Len(SubSeq(w, 2, n)) = n - 1
        /\ \A k \in 1..(n - 1) : SubSeq(w, 2, n)[k] = w[k + 1]
    <3>1. 1 \in Int /\ n \in Int /\ 1 <= n /\ \A k \in (1 + 1)..n : w[k] \in 0..9
      BY <1>1, <2>1, <2>2
    <3>2. /\ SubSeq(w, 1 + 1, n) \in Seq(0..9) /\ Len(SubSeq(w, 1 + 1, n)) = n - 1
          /\ \A k \in 1..(n - 1) : SubSeq(w, 1 + 1, n)[k] = w[1 + k]
      BY <3>1, Segment
    <3>3. 1 + 1 = 2 /\ \A k \in 1..(n - 1) : 1 + k = k + 1
      BY <1>1
    <3> QED BY <3>2, <3>3
  <2> QED BY <1>3, <2>1, <2>3 DEF n
<1>4. CASE ~Signed(w)
  <2>1. Digits(w) = w
    BY <1>4 DEF Digits, Signed
  <2>2. \A k \in 1..n : w[k] \in 0..9
    BY <1>2, <1>4
  <2>3. SubSeq(w, 1, n) \in Seq(0..9)
    BY <1>1, <2>2, SubSeqProperties
  <2>4. SubSeq(w, 1, n) = w
    BY SubSeqFull DEF n
  <2> QED BY <1>4, <2>1, <2>3, <2>4
<1> QED BY <1>3, <1>4

(* The flag: a word stays spoilt, and becomes so by any character that is no *)
(* digit, except a minus in front.                                           *)
LEMMA SpoiltByOne ==
  ASSUME NEW w \in Seq(-3..9), NEW c \in -3..9
  PROVE  Spoilt(Append(w, c)) <=> Spoilt(w) \/ (~IsDigit(c) /\ (c # Minus \/ w # <<>>))
<1> DEFINE n == Len(w)
           v == Append(w, c)
<1>1. /\ n \in Nat /\ (w = <<>> <=> n = 0) /\ Len(v) = n + 1
      /\ \A k \in 1..n : v[k] = w[k]
      /\ v[n + 1] = c
  BY Appended, EmptySeq
<1> HIDE DEF n, v
<1>2. \A k \in 1..(n + 1) : k \in 1..n \/ k = n + 1
  BY <1>1
<1>3. \A k \in 1..n : k \in 1..(n + 1)
  BY <1>1
<1>4. n + 1 \in 1..(n + 1) /\ (n + 1 # 1 <=> w # <<>>)
  BY <1>1
<1>5. Spoilt(v) <=> \E k \in 1..(n + 1) : ~IsDigit(v[k]) /\ (k # 1 \/ v[k] # Minus)
  BY <1>1 DEF Spoilt
<1>6. Spoilt(w) <=> \E k \in 1..n : ~IsDigit(v[k]) /\ (k # 1 \/ v[k] # Minus)
  BY <1>1 DEF Spoilt, n
<1> QED BY <1>1, <1>2, <1>3, <1>4, <1>5, <1>6 DEF v

(* The running value: a digit is one more digit of the number, a minus in    *)
(* front none.                                                               *)
LEMMA ValueGrows ==
  ASSUME NEW w \in Seq(-3..9), NEW c \in -3..9, ~Spoilt(Append(w, c))
  PROVE  /\ ~Spoilt(w) /\ Value(Digits(w)) \in Nat
         /\ IsDigit(c) => Value(Digits(Append(w, c))) = 10 * Value(Digits(w)) + c
         /\ ~IsDigit(c) => Value(Digits(Append(w, c))) = Value(Digits(w))
<1> DEFINE n == Len(w)
           v == Append(w, c)
<1>1. /\ v \in Seq(-3..9) /\ n \in Nat /\ (w = <<>> <=> n = 0) /\ Len(v) = n + 1
      /\ \A k \in 1..n : v[k] = w[k]
      /\ v[n + 1] = c
  BY Appended, EmptySeq
<1>2. ~Spoilt(w) /\ (IsDigit(c) \/ (c = Minus /\ w = <<>>))
  BY SpoiltByOne
<1>3. /\ Digits(w) \in Seq(0..9)
      /\ Signed(w) => /\ Len(Digits(w)) = n - 1
                      /\ \A k \in 1..Len(Digits(w)) : Digits(w)[k] = w[k + 1]
      /\ ~Signed(w) => Digits(w) = w
  BY <1>2, DigitsOf
<1>4. /\ Digits(v) \in Seq(0..9)
      /\ Signed(v) => /\ Len(Digits(v)) = Len(v) - 1
                      /\ \A k \in 1..Len(Digits(v)) : Digits(v)[k] = v[k + 1]
      /\ ~Signed(v) => Digits(v) = v
  BY <1>1, DigitsOf
<1>5. \A ds \in Seq(0..9) : Value(ds) \in Nat
  BY ValueAppended, 0 \in 0..9
<1> HIDE DEF n, v
<1>6. CASE IsDigit(c)
  <2>1. c \in 0..9 /\ c # Minus
    BY <1>6 DEF IsDigit, Minus
  <2>2. v # <<>>
    BY Appended DEF v
  <2>3. Signed(v) <=> Signed(w)
    <3>1. CASE n = 0
      BY <1>1, <2>1, <3>1 DEF Signed
    <3>2. CASE n # 0
      BY <1>1, <2>2, <3>2 DEF Signed
    <3> QED BY <3>1, <3>2
  <2>4. /\ Append(Digits(w), c) \in Seq(0..9) /\ Len(Digits(w)) \in Nat
        /\ Len(Append(Digits(w), c)) = Len(Digits(w)) + 1
        /\ \A k \in 1..Len(Digits(w)) : Append(Digits(w), c)[k] = Digits(w)[k]
        /\ Append(Digits(w), c)[Len(Digits(w)) + 1] = c
    BY <1>3, <2>1, Appended
  <2>5. Digits(v) = Append(Digits(w), c)
    <3>1. CASE Signed(w)
      <4>1. /\ Len(Digits(w)) = n - 1 /\ Len(Digits(v)) = n /\ n >= 1
            /\ \A k \in 1..(n - 1) : Digits(w)[k] = w[k + 1]
            /\ \A k \in 1..n : Digits(v)[k] = v[k + 1]
        BY <1>1, <1>3, <1>4, <2>3, <2>4, <3>1 DEF Signed
      <4>2. ASSUME NEW k \in 1..n PROVE Digits(v)[k] = Append(Digits(w), c)[k]
        <5>1. CASE k = n
          BY <1>1, <2>4, <4>1, <5>1
        <5>2. CASE k # n
          <6>1. k \in 1..(n - 1) /\ k + 1 \in 1..n
            BY <1>1, <5>2
          <6>2. v[k + 1] = w[k + 1]
            BY <1>1, <6>1
          <6>3. Digits(w)[k] = w[k + 1] /\ Digits(v)[k] = v[k + 1]
            BY <4>1, <6>1
          <6>4. Append(Digits(w), c)[k] = Digits(w)[k]
            BY <2>4, <4>1, <6>1
          <6> QED BY <6>2, <6>3, <6>4
        <5> QED BY <5>1, <5>2
      <4> QED BY <1>1, <1>4, <2>4, <4>1, <4>2, SeqEqual
    <3>2. CASE ~Signed(w)
      BY <1>3, <1>4, <2>3, <3>2 DEF v
    <3> QED BY <3>1, <3>2
  <2>6. Value(Append(Digits(w), c)) = 10 * Value(Digits(w)) + c
    BY <1>3, <2>1, ValueAppended
  <2> QED BY <1>2, <1>3, <1>5, <1>6, <2>5, <2>6 DEF v
<1>7. CASE ~IsDigit(c)
  <2>1. c = Minus /\ w = <<>> /\ n = 0
    BY <1>1, <1>2, <1>7
  <2>2. Signed(v) /\ ~Signed(w)
    <3>1. Len(v) = 1 /\ v[1] = c
      BY <1>1, <2>1
    <3>3. v # <<>>
      BY Appended DEF v
    <3> QED BY <2>1, <3>1, <3>3 DEF Signed
  <2>3. Digits(w) = <<>> /\ Len(Digits(v)) = 0
    BY <1>1, <1>3, <1>4, <2>1, <2>2
  <2>4. Digits(v) = <<>>
    BY <1>4, <2>3, EmptySeq
  <2> QED BY <1>2, <1>3, <1>5, <1>7, <2>3, <2>4 DEF v
<1> QED BY <1>6, <1>7

(* A word that a space ends: it is a number if nothing spoilt it and it is   *)
(* not a minus alone, and the last digit decides what 5 divides.             *)
LEMMA WordEnds ==
  ASSUME NEW w \in Seq(-3..9), w # <<>>
  PROVE  /\ IsNumber(w) <=> ~Spoilt(w) /\ w[Len(w)] # Minus
         /\ IsNumber(w) => Value(Digits(w)) \in Nat /\ Value(Digits(w)) % 5 = w[Len(w)] % 5
<1> DEFINE n == Len(w)
           ds == Digits(w)
<1>1. n \in Nat \ {0} /\ \A k \in 1..n : w[k] \in -3..9
  BY LenProperties, ElementOfSeq, EmptySeq
<1> HIDE DEF n, ds
<1>2. ASSUME IsNumber(w) PROVE ~Spoilt(w) /\ w[n] # Minus
  <2>1. CASE Signed(w)
    <3>1. ds = Tail(w)
      BY <2>1 DEF ds, Digits, Signed
    <3>2. ds \in Seq(-3..9) /\ Len(ds) = n - 1 /\ \A k \in 1..(n - 1) : ds[k] = w[k + 1]
      BY <3>1, HeadTailProperties DEF n
    <3>3. ds # <<>> /\ DOMAIN ds = 1..(n - 1) /\ \A k \in DOMAIN ds : IsDigit(ds[k])
      BY <1>2, <3>2, LenProperties DEF IsNumber, ds
    <3>4. n - 1 # 0
      BY <3>2, <3>3, EmptySeq
    <3>5. \A k \in 2..n : IsDigit(w[k])
      <4> TAKE k \in 2..n
      <4>1. k - 1 \in 1..(n - 1) /\ k - 1 + 1 = k
        BY <1>1
      <4> QED BY <3>2, <3>3, <4>1
    <3>6. n \in 2..n
      BY <1>1, <3>4
    <3>7. \A k \in 1..n : k = 1 \/ k \in 2..n
      BY <1>1
    <3> QED BY <2>1, <3>5, <3>6, <3>7 DEF Spoilt, Signed, IsDigit, Minus, n
  <2>2. CASE ~Signed(w)
    <3>1. ds = w /\ DOMAIN w = 1..n
      BY <2>2, LenProperties DEF ds, Digits, Signed, n
    <3>2. \A k \in 1..n : IsDigit(w[k])
      BY <1>2, <3>1 DEF IsNumber, ds
    <3> QED BY <1>1, <3>2 DEF Spoilt, IsDigit, Minus, n
  <2> QED BY <2>1, <2>2
<1>3. ASSUME ~Spoilt(w), w[n] # Minus
      PROVE  IsNumber(w) /\ Value(ds) \in Nat /\ Value(ds) % 5 = w[n] % 5
  <2>1. /\ ds \in Seq(0..9)
        /\ Signed(w) => Len(ds) = n - 1 /\ \A k \in 1..Len(ds) : ds[k] = w[k + 1]
        /\ ~Signed(w) => ds = w
    BY <1>3, DigitsOf DEF ds, n
  <2>2. Len(ds) \in Nat /\ DOMAIN ds = 1..Len(ds) /\ \A k \in 1..Len(ds) : ds[k] \in 0..9
    BY <2>1, LenProperties, ElementOfSeq
  <2>3. Len(ds) # 0 /\ ds[Len(ds)] = w[n]
    <3>1. CASE Signed(w)
      <4>1. n # 1
        BY <1>3, <3>1 DEF Signed
      <4> QED BY <1>1, <2>1, <2>2, <3>1, <4>1
    <3>2. CASE ~Signed(w)
      BY <1>1, <2>1, <3>2 DEF n
    <3> QED BY <3>1, <3>2
  <2>4. IsNumber(w)
    BY <2>2, <2>3, EmptySeq DEF IsNumber, IsDigit, ds
  <2>5. PICK f \in [0..Len(ds) -> Nat] : Counts(f, ds) /\ Value(ds) = f[Len(ds)]
    BY <2>1, ValueIs
  <2> DEFINE m == Len(ds)
             v == f[m - 1]
  <2>6. m \in 1..m /\ m - 1 \in 0..m
    BY <2>2, <2>3
  <2>7. v \in Nat /\ ds[m] \in 0..9 /\ Value(ds) = 10 * v + ds[m]
    BY <2>2, <2>5, <2>6 DEF Counts
  <2> HIDE DEF m, v
  <2>8. 10 * v + ds[m] \in Nat /\ (10 * v + ds[m]) % 5 = ds[m] % 5
    BY <2>7, NextDigit
  <2>9. Value(ds) \in Nat /\ Value(ds) % 5 = ds[m] % 5
    BY <2>7, <2>8
  <2> QED BY <2>3, <2>4, <2>9 DEF m
<1> QED BY <1>2, <1>3 DEF n, ds

PassStates == [out : Seq(-5..9), word : Seq(-3..9), buf : -3..9, summa : 0..2,
               flag : BOOLEAN, last_sp : Int]

(* What one character does to each part of the state.                        *)
Looked(s, c, ix, t) ==
  /\ t \in PassStates /\ t.out = s.out /\ t.buf = s.buf /\ t.last_sp = s.last_sp
  /\ t.word = (IF c = Space THEN s.word ELSE Append(s.word, c))
  /\ t.summa = (IF IsDigit(c) THEN (s.summa + c) % 3 ELSE s.summa)
  /\ t.flag <=> \/ s.flag
                \/ c # Space /\ ~IsDigit(c) /\ (c # Minus \/ ix # s.last_sp + 1)
                \/ c = Space /\ s.buf = Minus
(* What one character shows of the word. *)
LEMMA LookFields ==
  ASSUME NEW s \in PassStates, NEW c \in -3..9, NEW ix \in Int
  PROVE  Looked(s, c, ix, Look(s, c, ix))
<1> DEFINE f == \/ s.flag
                \/ c # Space /\ ~IsDigit(c) /\ (c # Minus \/ ix # s.last_sp + 1)
                \/ c = Space /\ s.buf = Minus
           m == IF IsDigit(c) THEN (s.summa + c) % 3 ELSE s.summa
           w == IF c = Space THEN s.word ELSE Append(s.word, c)
           t == Look(s, c, ix)
<1>1. s.word \in Seq(-3..9) /\ s.summa \in 0..2
  BY DEF PassStates
<1>2. f \in BOOLEAN
  OBVIOUS
<1>3. m \in 0..2
  <2>1. ASSUME IsDigit(c) PROVE (s.summa + c) % 3 \in 0..2
    <3>1. s.summa + c \in Nat
      BY <1>1, <2>1 DEF IsDigit
    <3> QED BY <3>1
  <2> QED BY <1>1, <2>1
<1>4. w \in Seq(-3..9)
  BY <1>1, Appended
<1>5. t = [s EXCEPT !.flag = f, !.summa = m, !.word = w]
  BY DEF Look
<1> HIDE DEF f, m, w, t
<1>6. /\ t \in PassStates /\ t.out = s.out /\ t.buf = s.buf /\ t.last_sp = s.last_sp
      /\ t.word = w /\ t.summa = m /\ t.flag = f
  BY <1>2, <1>3, <1>4, <1>5 DEF PassStates
<1> QED BY <1>6 DEF f, m, w, t, Looked

(* What stands for a word is a text.                                          *)
LEMMA ReplaceType ==
  ASSUME NEW t \in PassStates
  PROVE  Replace(t) \in Seq(-5..9)
<1> DEFINE bizz == IF ~t.flag /\ t.summa = 0 THEN <<Bizz>> ELSE <<>>
           buzz == IF ~t.flag /\ t.buf % 5 = 0 THEN <<Buzz>> ELSE <<>>
           stays == t.flag \/ (buzz = <<>> /\ t.summa # 0)
           kept == IF stays THEN t.word ELSE <<>>
<1>1. <<>> \in Seq(-5..9) /\ <<Bizz>> \in Seq(-5..9) /\ <<Buzz>> \in Seq(-5..9)
  BY DEF Bizz, Buzz
<1>2. t.word \in Seq(-5..9)
  <2>1. t.word \in Seq(-3..9) /\ -3..9 \subseteq -5..9
    BY DEF PassStates
  <2> QED BY <2>1, SeqMonotonic
<1>3. bizz \in Seq(-5..9) /\ buzz \in Seq(-5..9) /\ kept \in Seq(-5..9)
  BY <1>1, <1>2
<1>4. Replace(t) = (bizz \o buzz) \o kept
  BY DEF Replace
<1> HIDE DEF bizz, buzz, kept
<1> QED BY <1>3, <1>4, ConcatProperties

Stepped(s, c, ix, t, n) ==
  /\ n \in PassStates /\ n.buf = c
  /\ c # Space =>
       /\ n.out = s.out /\ n.word = Append(s.word, c) /\ n.last_sp = s.last_sp
       /\ n.summa = (IF IsDigit(c) THEN (s.summa + c) % 3 ELSE s.summa)
       /\ n.flag <=> s.flag \/ (~IsDigit(c) /\ (c # Minus \/ ix # s.last_sp + 1))
  /\ c = Space =>
       /\ n.word = <<>> /\ n.last_sp = ix
       /\ n.out = Append(IF s.word = <<>> THEN s.out ELSE s.out \o Replace(t), Space)
       /\ s.word = <<>> => n.summa = s.summa /\ (n.flag <=> s.flag \/ s.buf = Minus)
       /\ s.word # <<>> => n.summa = 0 /\ ~n.flag
(* The same with the end of a word, and where it was.                         *)
LEMMA StepFields ==
  ASSUME NEW s \in PassStates, NEW c \in -3..9, NEW ix \in Int
  PROVE  Stepped(s, c, ix, Look(s, c, ix), Step(s, c, ix))
<1> DEFINE t == Look(s, c, ix)
           ends == c = Space /\ s.word # <<>>
           r == [t EXCEPT !.out = @ \o Replace(t), !.summa = 0, !.flag = FALSE, !.word = <<>>]
           e == IF ends THEN r ELSE t
           o == IF c = Space THEN Append(e.out, c) ELSE e.out
           l == IF c = Space THEN ix ELSE e.last_sp
           n == Step(s, c, ix)
<1>0. Looked(s, c, ix, t)
  BY LookFields
<1>2. n = [e EXCEPT !.buf = c, !.last_sp = l, !.out = o]
  BY DEF Step, SumAfter
<1> HIDE DEF t, n
<1>1. /\ t \in PassStates /\ t.out = s.out /\ t.buf = s.buf /\ t.last_sp = s.last_sp
      /\ t.word = (IF c = Space THEN s.word ELSE Append(s.word, c))
      /\ t.summa = (IF IsDigit(c) THEN (s.summa + c) % 3 ELSE s.summa)
      /\ t.flag <=> \/ s.flag
                    \/ c # Space /\ ~IsDigit(c) /\ (c # Minus \/ ix # s.last_sp + 1)
                    \/ c = Space /\ s.buf = Minus
  BY <1>0 DEF Looked
<1>3. r \in PassStates /\ r.out = t.out \o Replace(t) /\ r.summa = 0 /\ r.flag = FALSE /\ r.word = <<>>
  <2> DEFINE x == t.out \o Replace(t)
             zero == 0
             no == FALSE
             nil == <<>>
  <2>1. t \in PassStates /\ t.out \in Seq(-5..9)
    BY <1>1 DEF PassStates
  <2>2. x \in Seq(-5..9) /\ zero \in 0..2 /\ no \in BOOLEAN /\ nil \in Seq(-3..9)
    BY <2>1, ReplaceType, ConcatProperties, EmptySeq
  <2>3. r = [t EXCEPT !.out = x, !.summa = zero, !.flag = no, !.word = nil]
    OBVIOUS
  <2> HIDE DEF x, r, zero, no, nil
  <2>4. r \in PassStates /\ r.out = x /\ r.summa = zero /\ r.flag = no /\ r.word = nil
    BY <2>1, <2>2, <2>3 DEF PassStates
  <2> QED BY <2>4 DEF x, zero, no, nil
<1> HIDE DEF r
<1>4. e \in PassStates
  BY <1>1, <1>3
<1>5. o \in Seq(-5..9) /\ l \in Int /\ c \in -5..9
  <2>1. e.out \in Seq(-5..9) /\ e.last_sp \in Int /\ c \in -5..9
    BY <1>4 DEF PassStates
  <2> HIDE DEF e
  <2>2. Append(e.out, c) \in Seq(-5..9)
    BY <2>1, Appended
  <2> QED BY <2>1, <2>2
<1>6. /\ n \in PassStates /\ n.buf = c /\ n.last_sp = l /\ n.out = o
      /\ n.word = e.word /\ n.summa = e.summa /\ n.flag = e.flag
  <2> HIDE DEF e, l, o
  <2> QED BY <1>2, <1>4, <1>5 DEF PassStates
<1>7. CASE c # Space
  <2>1. e = t /\ l = t.last_sp /\ o = t.out
    BY <1>7
  <2> QED BY <1>1, <1>6, <1>7, <2>1 DEF n, t, Stepped
<1>8. CASE c = Space
  <2>1. ~IsDigit(c)
    BY <1>8 DEF IsDigit, Space
  <2>2. l = ix /\ o = Append(e.out, Space)
    BY <1>8
  <2>3. CASE s.word = <<>>
    <3>1. e = t
      BY <2>3
    <3> QED BY <1>1, <1>6, <1>8, <2>1, <2>2, <2>3, <3>1 DEF n, t, Stepped
  <2>4. CASE s.word # <<>>
    <3>1. e = r
      BY <1>8, <2>4
    <3> QED BY <1>1, <1>3, <1>6, <1>8, <2>2, <2>4, <3>1 DEF n, t, Stepped
  <2> QED BY <2>3, <2>4
<1> QED BY <1>7, <1>8

(* What is known of the word that ends before the i-th character, and where  *)
(* it begins.                                                                *)
WordSoFar(txt, ix, s) ==
  /\ s.last_sp \in -1..(ix - 1)
  /\ s.last_sp # -1 => txt[s.last_sp + 1] = Space
  /\ \A k \in (s.last_sp + 2)..ix : txt[k] # Space
  /\ s.word = SubSeq(txt, s.last_sp + 2, ix)
  /\ s.flag <=> Spoilt(s.word)
  /\ ~s.flag => s.summa = Value(Digits(s.word)) % 3
  /\ s.word = <<>> => s.buf # Minus /\ s.summa = 0
  /\ s.word # <<>> => s.buf = s.word[Len(s.word)]

(* The empty word.                                                            *)
LEMMA NothingYet == Spoilt(<<>>) = FALSE /\ Digits(<<>>) = <<>> /\ Value(Digits(<<>>)) % 3 = 0
<1>1. Len(<<>>) = 0
  BY EmptySeq
<1>2. ~Spoilt(<<>>) /\ Digits(<<>>) = <<>>
  BY <1>1 DEF Spoilt, Digits
<1> QED BY <1>2, ValueEmpty DEF Spoilt

(* The pass begins with the empty word.                                       *)
LEMMA StartState == \A txt : Start \in PassStates /\ WordSoFar(txt, 0, Start)
<1> TAKE txt
<1>1. <<>> \in Seq(-5..9) /\ <<>> \in Seq(-3..9)
  BY EmptySeq
<1>2. Start \in PassStates
  BY <1>1 DEF Start, PassStates
<1>3. SubSeq(txt, 1, 0) = <<>>
  BY SubSeqEmpty
<1> QED BY <1>2, <1>3, NothingYet DEF Start, WordSoFar, Minus

(* The word that a space ends is replaced by what it becomes.                *)
LEMMA ReplacedRight ==
  ASSUME NEW txt, NEW ix, NEW s \in PassStates, WordSoFar(txt, ix, s), s.word # <<>>, NEW j \in Int
  PROVE  Replace(Look(s, Space, j)) = Becomes(s.word)
<1> DEFINE w == s.word
           v == Value(Digits(w))
           t == Look(s, Space, j)
<1>1. w \in Seq(-3..9) /\ s.flag \in BOOLEAN /\ s.summa \in 0..2 /\ s.buf \in -3..9
  BY DEF PassStates
<1>2. (t.flag <=> s.flag \/ s.buf = Minus) /\ t.summa = s.summa /\ t.buf = s.buf /\ t.word = w
  <2>1. Space \in -3..9 /\ ~IsDigit(Space)
    BY DEF Space, IsDigit
  <2> QED BY <2>1, LookFields DEF Looked
<1>3. /\ s.flag <=> Spoilt(w)
      /\ ~s.flag => s.summa = v % 3
      /\ s.buf = w[Len(w)]
  BY DEF WordSoFar
<1>4. /\ IsNumber(w) <=> ~Spoilt(w) /\ w[Len(w)] # Minus
      /\ IsNumber(w) => v \in Nat /\ v % 5 = w[Len(w)] % 5
  BY <1>1, WordEnds
<1>5. w # <<>> /\ Replace(t) =
         LET bizz == IF ~t.flag /\ t.summa = 0 THEN <<Bizz>> ELSE <<>>
             buzz == IF ~t.flag /\ t.buf % 5 = 0 THEN <<Buzz>> ELSE <<>>
             stays == t.flag \/ (buzz = <<>> /\ t.summa # 0)
         IN bizz \o buzz \o (IF stays THEN t.word ELSE <<>>)
  BY DEF Replace
<1>6. Becomes(w) =
         IF ~IsNumber(w) \/ (v % 3 # 0 /\ v % 5 # 0) THEN w
         ELSE (IF v % 3 = 0 THEN <<Bizz>> ELSE <<>>) \o (IF v % 5 = 0 THEN <<Buzz>> ELSE <<>>)
  BY <1>5 DEF Becomes
<1>7. <<>> \o <<>> = <<>> /\ <<>> \o w = w
  BY <1>1, EmptySeq, ConcatEmptySeq
<1> HIDE DEF w, v, t
<1>8. CASE ~IsNumber(w)
  <2>1. t.flag
    BY <1>2, <1>3, <1>4, <1>8
  <2> QED BY <1>2, <1>5, <1>6, <1>7, <1>8, <2>1 DEF w, t
<1>9. CASE IsNumber(w)
  <2>1. ~t.flag /\ t.summa = v % 3 /\ t.buf % 5 = v % 5
    BY <1>2, <1>3, <1>4, <1>9
  <2>2. CASE v % 3 # 0 /\ v % 5 # 0
    BY <1>2, <1>5, <1>6, <1>7, <2>1, <2>2 DEF w, t
  <2>3. CASE v % 3 = 0 \/ v % 5 = 0
    <3> DEFINE bizz == IF v % 3 = 0 THEN <<Bizz>> ELSE <<>>
               buzz == IF v % 5 = 0 THEN <<Buzz>> ELSE <<>>
    <3>1. <<Buzz>> # <<>>
      OBVIOUS
    <3>2. Replace(t) = (bizz \o buzz) \o <<>>
      BY <1>5, <2>1, <2>3, <3>1
    <3>3. bizz \in Seq(Int) /\ buzz \in Seq(Int)
      BY DEF Bizz, Buzz
    <3>4. (bizz \o buzz) \o <<>> = bizz \o buzz
      <4> HIDE DEF bizz, buzz
      <4> QED BY <3>3, ConcatProperties, ConcatEmptySeq
    <3> QED BY <1>6, <1>9, <2>3, <3>2, <3>4 DEF w, t
  <2> QED BY <2>2, <2>3
<1> QED BY <1>8, <1>9 DEF w, t

(* What a word becomes is a text.                                             *)
LEMMA BecomesType ==
  ASSUME NEW w \in Seq(-3..9)
  PROVE  Becomes(w) \in Seq(-5..9)
<1>1. w \in Seq(-5..9)
  <2>1. -3..9 \subseteq -5..9
    OBVIOUS
  <2> QED BY <2>1, SeqMonotonic
<1>2. <<>> \in Seq(-5..9) /\ <<Bizz>> \in Seq(-5..9) /\ <<Buzz>> \in Seq(-5..9)
  BY DEF Bizz, Buzz
<1> DEFINE v == Value(Digits(w))
           bizz == IF v % 3 = 0 THEN <<Bizz>> ELSE <<>>
           buzz == IF v % 5 = 0 THEN <<Buzz>> ELSE <<>>
<1>3. bizz \in Seq(-5..9) /\ buzz \in Seq(-5..9)
  BY <1>2
<1>4. Becomes(w) = w \/ Becomes(w) = bizz \o buzz
  BY DEF Becomes
<1> HIDE DEF bizz, buzz
<1>5. bizz \o buzz \in Seq(-5..9)
  BY <1>3, ConcatProperties
<1> QED BY <1>1, <1>4, <1>5

(* One character keeps what is known of the word; a space finds the word     *)
(* that the reference replaces there, and writes what it becomes.            *)
LEMMA StepRight ==
  ASSUME NEW txt \in Seq(-3..9), NEW ix \in 1..Len(txt),
         NEW s \in PassStates, WordSoFar(txt, ix - 1, s)
  PROVE  LET n == Step(s, txt[ix], ix - 1)
         IN /\ n \in PassStates /\ WordSoFar(txt, ix, n)
            /\ txt[ix] = Space =>
                 /\ WordBefore(txt, ix) = s.word
                 /\ n.out = s.out \o Becomes(s.word) \o <<Space>>
            /\ txt[ix] # Space => n.out = s.out
<1> DEFINE c == txt[ix]
           n == Step(s, c, ix - 1)
           j == s.last_sp + 1
<1>1. /\ c \in -3..9 /\ ix \in Nat \ {0} /\ ix - 1 \in Int /\ Len(txt) \in Nat
      /\ \A k \in 1..Len(txt) : txt[k] \in -3..9
  BY ElementOfSeq, LenProperties
<1>2. /\ s.out \in Seq(-5..9) /\ s.word \in Seq(-3..9) /\ s.buf \in -3..9 /\ s.summa \in 0..2
      /\ s.flag \in BOOLEAN /\ s.last_sp \in Int
  BY DEF PassStates
<1>3. /\ j \in 0..(ix - 1) /\ (j # 0 => txt[j] = Space) /\ \A k \in (j + 1)..(ix - 1) : txt[k] # Space
      /\ s.word = SubSeq(txt, j + 1, ix - 1)
  <2>1. s.last_sp + 2 = j + 1 /\ s.last_sp = j - 1
    BY <1>2
  <2>2. s.last_sp \in -1..(ix - 1 - 1)
    BY DEF WordSoFar
  <2>3. j \in 0..(ix - 1) /\ (j # 0 <=> s.last_sp # -1)
    BY <1>1, <1>2, <2>2
  <2>4. /\ s.last_sp # -1 => txt[s.last_sp + 1] = Space
        /\ \A k \in (s.last_sp + 2)..(ix - 1) : txt[k] # Space
        /\ s.word = SubSeq(txt, s.last_sp + 2, ix - 1)
    BY DEF WordSoFar
  <2> QED BY <2>1, <2>3, <2>4
<1>4. /\ s.flag <=> Spoilt(s.word)
      /\ ~s.flag => s.summa = Value(Digits(s.word)) % 3
      /\ s.word = <<>> => s.buf # Minus /\ s.summa = 0
      /\ s.word # <<>> => s.buf = s.word[Len(s.word)]
  BY DEF WordSoFar
<1>5. Len(s.word) = ix - 1 - j /\ \A k \in 1..(ix - 1 - j) : s.word[k] = txt[j + k]
  <2> HIDE DEF j
  <2>1. ASSUME NEW k \in (j + 1)..(ix - 1) PROVE txt[k] \in -3..9
    <3>1. k \in 1..Len(txt)
      BY <1>1, <1>3
    <3> QED BY <1>1, <3>1
  <2>2. j \in Int /\ ix - 1 \in Int /\ j <= ix - 1
    BY <1>1, <1>3
  <2> QED BY <1>3, <2>1, <2>2, Segment
<1>6. s.word = <<>> <=> j = ix - 1
  <2> HIDE DEF j
  <2>1. s.word = <<>> <=> Len(s.word) = 0
    BY <1>2, EmptySeq
  <2>2. Len(s.word) = ix - 1 - j
    BY <1>5
  <2>3. ix \in Int /\ j \in 0..(ix - 1)
    BY <1>1, <1>3
  <2> QED BY <2>1, <2>2, <2>3
<1>7. CASE c = Space
  <2>1. WordBefore(txt, ix) = s.word
    <3> DEFINE From(f) == /\ f = 0 \/ f \in Spaces(txt)
                          /\ \A k \in (f + 1)..(ix - 1) : txt[k] # Space
               from == CHOOSE f \in 0..(ix - 1) : From(f)
    <3>1. From(j)
      BY <1>1, <1>3, LenProperties DEF Spaces
    <3>2. \A f \in 0..(ix - 1) : From(f) => f = j
      <4> SUFFICES ASSUME NEW f \in 0..(ix - 1), From(f), f # j PROVE FALSE
        OBVIOUS
      <4>1. f # 0 => txt[f] = Space
        BY DEF Spaces
      <4> HIDE DEF j
      <4>2. CASE f < j
        <5>1. j \in (f + 1)..(ix - 1) /\ txt[j] = Space
          BY <1>1, <1>3, <4>2
        <5> QED BY <5>1
      <4>3. CASE f > j
        <5>1. f \in (j + 1)..(ix - 1) /\ txt[f] = Space
          BY <1>1, <1>3, <4>1, <4>3
        <5> QED BY <1>3, <5>1
      <4> QED BY <1>1, <1>3, <4>2, <4>3
    <3>3. from = j
      <4> HIDE DEF From, j
      <4> QED BY <1>3, <3>1, <3>2
    <3>4. WordBefore(txt, ix) = SubSeq(txt, from + 1, ix - 1)
      BY DEF WordBefore
    <3> HIDE DEF from, j
    <3> QED BY <1>3, <3>3, <3>4
  <2>2. /\ n \in PassStates /\ n.buf = Space /\ n.word = <<>> /\ n.last_sp = ix - 1
        /\ n.out = Append(IF s.word = <<>> THEN s.out ELSE s.out \o Replace(Look(s, Space, ix - 1)), Space)
        /\ s.word = <<>> => n.summa = s.summa /\ (n.flag <=> s.flag \/ s.buf = Minus)
        /\ s.word # <<>> => n.summa = 0 /\ ~n.flag
    <3>1. Stepped(s, Space, ix - 1, Look(s, Space, ix - 1), n)
      <4> HIDE DEF c
      <4>1. Stepped(s, c, ix - 1, Look(s, c, ix - 1), n)
        BY <1>1, StepFields
      <4> QED BY <1>7, <4>1
    <3> QED BY <3>1 DEF Stepped
  <2> HIDE DEF n
  <2>3. n.summa = 0 /\ ~n.flag
    BY <1>4, <2>2, NothingYet
  <2>4. n.out = s.out \o Becomes(s.word) \o <<Space>>
    <3> DEFINE o == s.out \o Becomes(s.word)
    <3>1. o \in Seq(-5..9)
      BY <1>2, BecomesType, ConcatProperties
    <3>2. (IF s.word = <<>> THEN s.out ELSE s.out \o Replace(Look(s, Space, ix - 1))) = o
      <4>1. CASE s.word = <<>>
        <5>1. Becomes(s.word) = <<>>
          BY <4>1 DEF Becomes
        <5> QED BY <1>2, <4>1, <5>1, ConcatEmptySeq
      <4>2. CASE s.word # <<>>
        BY <1>1, <4>2, ReplacedRight
      <4> QED BY <4>1, <4>2
    <3>3. n.out = Append(o, Space)
      BY <2>2, <3>2
    <3> HIDE DEF o
    <3>4. Append(o, Space) = o \o <<Space>>
      BY <3>1
    <3> QED BY <3>3, <3>4 DEF o
  <2>5. WordSoFar(txt, ix, n)
    <3>1. SubSeq(txt, ix + 1, ix) = <<>>
      BY <1>1, SubSeqEmpty
    <3>2. ix - 1 + 1 = ix /\ ix - 1 + 2 = ix + 1 /\ ix - 1 \in -1..(ix - 1) /\ ~\E k \in (ix + 1)..ix : TRUE
      BY <1>1
    <3>3. n.last_sp \in -1..(ix - 1) /\ txt[n.last_sp + 1] = Space
      BY <1>7, <2>2, <3>2
    <3>4. n.word = SubSeq(txt, n.last_sp + 2, ix) /\ \A k \in (n.last_sp + 2)..ix : txt[k] # Space
      BY <2>2, <3>1, <3>2
    <3>5. (~n.flag <=> ~Spoilt(n.word)) /\ n.summa = Value(Digits(n.word)) % 3
      BY <2>2, <2>3, NothingYet
    <3>6. n.buf # Minus
      BY <2>2 DEF Space, Minus
    <3> QED BY <2>2, <2>3, <3>3, <3>4, <3>5, <3>6 DEF WordSoFar
  <2> QED BY <1>7, <2>1, <2>2, <2>4, <2>5 DEF n
<1>8. CASE c # Space
  <2> DEFINE w == s.word
             v == Append(w, c)
  <2>1. /\ n \in PassStates /\ n.buf = c /\ n.out = s.out /\ n.word = v /\ n.last_sp = s.last_sp
        /\ n.summa = (IF IsDigit(c) THEN (s.summa + c) % 3 ELSE s.summa)
        /\ n.flag <=> s.flag \/ (~IsDigit(c) /\ (c # Minus \/ ix - 1 # j))
    <3> HIDE DEF c
    <3>1. Stepped(s, c, ix - 1, Look(s, c, ix - 1), n)
      BY <1>1, StepFields
    <3> HIDE DEF n
    <3> QED BY <1>8, <3>1 DEF Stepped
  <2> HIDE DEF n
  <2>2. /\ v \in Seq(-3..9) /\ Len(v) = Len(w) + 1 /\ Len(w) \in Nat /\ v[Len(w) + 1] = c
        /\ v # <<>> /\ \A k \in 1..Len(w) : v[k] = w[k]
    <3>1. w \in Seq(-3..9) /\ c \in -3..9
      BY <1>1, <1>2
    <3> HIDE DEF w, c
    <3> QED BY <3>1, Appended
  <2>3. v # <<>>
    BY <2>2
  <2>4. n.flag <=> Spoilt(v)
    <3>1. Spoilt(v) <=> Spoilt(w) \/ (~IsDigit(c) /\ (c # Minus \/ w # <<>>))
      BY <1>1, <1>2, SpoiltByOne
    <3> HIDE DEF v, j
    <3> QED BY <1>4, <1>6, <2>1, <3>1
  <2>5. ASSUME ~n.flag PROVE n.summa = Value(Digits(v)) % 3
    <3>1. IsDigit(c) => c \in 0..9
      BY DEF IsDigit
    <3> HIDE DEF v, w
    <3>2. /\ ~Spoilt(w) /\ Value(Digits(w)) \in Nat
          /\ IsDigit(c) => Value(Digits(v)) = 10 * Value(Digits(w)) + c
          /\ ~IsDigit(c) => Value(Digits(v)) = Value(Digits(w))
      BY <1>1, <1>2, <2>4, <2>5, ValueGrows DEF v, w
    <3>3. s.summa = Value(Digits(w)) % 3
      BY <1>4, <3>2 DEF w
    <3>4. IsDigit(c) => (10 * Value(Digits(w)) + c) % 3 = ((Value(Digits(w)) % 3) + c) % 3
      BY <3>1, <3>2, NextDigit
    <3> QED BY <2>1, <3>2, <3>3, <3>4
  <2>7. v = SubSeq(txt, j + 1, ix)
    <3> DEFINE u == SubSeq(txt, j + 1, ix)
    <3> HIDE DEF j
    <3>1. ASSUME NEW k \in (j + 1)..ix PROVE txt[k] \in -3..9
      <4>1. k \in 1..Len(txt)
        BY <1>1, <1>3
      <4> QED BY <1>1, <4>1
    <3>2. u \in Seq(-3..9) /\ Len(u) = ix - j /\ \A k \in 1..(ix - j) : u[k] = txt[j + k]
      <4>1. j \in Int /\ ix \in Int /\ j <= ix
        BY <1>1, <1>3
      <4> QED BY <3>1, <4>1, Segment
    <3>4. \A k \in 1..(ix - 1 - j) : w[k] = txt[j + k]
      BY <1>5
    <3> HIDE DEF u, v
    <3>5. Len(w) = ix - 1 - j /\ Len(v) = ix - j
      <4>1. Len(w) = ix - 1 - j /\ Len(v) = Len(w) + 1
        BY <1>5, <2>2
      <4> QED BY <1>1, <1>3, <4>1
    <3>6. ASSUME NEW k \in 1..(ix - j) PROVE v[k] = u[k]
      <4>1. CASE k = ix - j
        <5>1. j + k = ix /\ k = Len(w) + 1
          BY <1>1, <1>3, <3>5, <4>1
        <5> QED BY <2>2, <3>2, <5>1
      <4>2. CASE k # ix - j
        <5>1. k \in 1..(ix - 1 - j)
          BY <1>1, <1>3, <4>2
        <5> QED BY <2>2, <3>2, <3>4, <3>5, <5>1
      <4> QED BY <4>1, <4>2
    <3> QED BY <2>2, <3>2, <3>5, <3>6, SeqEqual DEF u
  <2>8. WordSoFar(txt, ix, n)
    <3>1. s.last_sp \in -1..(ix - 1) /\ s.last_sp + 2 = j + 1
      <4>1. s.last_sp \in -1..(ix - 1 - 1)
        BY DEF WordSoFar
      <4> QED BY <1>1, <1>2, <4>1
    <3>2. s.last_sp # -1 => txt[s.last_sp + 1] = Space
      BY DEF WordSoFar
    <3>3. \A k \in (j + 1)..ix : txt[k] # Space
      <4> HIDE DEF j
      <4> TAKE k \in (j + 1)..ix
      <4>1. k = ix \/ k \in (j + 1)..(ix - 1)
        BY <1>1, <1>3
      <4> QED BY <1>3, <1>8, <4>1
    <3>4. v[Len(v)] = c
      BY <2>2
    <3> HIDE DEF v, j
    <3> QED BY <2>1, <2>3, <2>4, <2>5, <2>7, <3>1, <3>2, <3>3, <3>4 DEF WordSoFar
  <2> QED BY <1>8, <2>1, <2>8 DEF n
<1> QED BY <1>7, <1>8

(* The pass, character by character.                                         *)
LEMMA PassIs ==
  ASSUME NEW txt \in Seq(-3..9)
  PROVE  \E a \in [0..Len(txt) -> PassStates] :
           /\ a[0] = Start /\ \A k \in 1..Len(txt) : a[k] = Step(a[k - 1], txt[k], k - 1)
           /\ \A k \in 0..Len(txt) : WordSoFar(txt, k, a[k])
           /\ Pass(txt) = a[Len(txt)].out
<1> DEFINE n == Len(txt)
           Next1(k, s) == IF WordSoFar(txt, k - 1, s) THEN Step(s, txt[k], k - 1) ELSE s
           F == [k \in 1..n |-> [s \in PassStates |-> Next1(k, s)]]
           Fits(g) == g = [k \in 0..n |-> IF k = 0 THEN Start ELSE Step(g[k - 1], txt[k], k - 1)]
<1>1. n \in Nat /\ Start \in PassStates /\ WordSoFar(txt, 0, Start)
  BY LenProperties, StartState
<1>2. ASSUME NEW k \in 1..n, NEW s \in PassStates
      PROVE  /\ Next1(k, s) \in PassStates
             /\ WordSoFar(txt, k - 1, s) =>
                  Next1(k, s) = Step(s, txt[k], k - 1) /\ WordSoFar(txt, k, Next1(k, s))
  <2>1. CASE WordSoFar(txt, k - 1, s)
    BY <2>1, StepRight
  <2>2. CASE ~WordSoFar(txt, k - 1, s)
    BY <2>2
  <2> QED BY <2>1, <2>2
<1> HIDE DEF n, Next1
<1>3. F \in [1..n -> [PassStates -> PassStates]] /\ \A k \in 1..n, s \in PassStates : F[k][s] = Next1(k, s)
  BY <1>2
<1>4. PICK a \in [0..n -> PassStates] : a[0] = Start /\ \A k \in 1..n : a[k] = F[k][a[k - 1]]
  <2> HIDE DEF F
  <2>1. \E a \in [0..n -> PassStates] : Repeats(a, Start, n, F)
    BY <1>1, <1>3, RepeatedSteps
  <2> QED BY <2>1 DEF Repeats
<1> HIDE DEF F
<1>5. \A k \in 1..n : a[k - 1] \in PassStates /\ a[k] = Next1(k, a[k - 1])
  <2> TAKE k \in 1..n
  <2>1. k - 1 \in 0..n
    BY <1>1
  <2> QED BY <1>3, <1>4, <2>1
<1>6. \A k \in 0..n : WordSoFar(txt, k, a[k])
  <2> DEFINE T == {k \in 0..n : WordSoFar(txt, k, a[k])}
  <2>1. 0 \in T
    BY <1>1, <1>4
  <2>2. \A k \in 1..n : k - 1 \in T => k \in T
    BY <1>1, <1>2, <1>5
  <2>3. \A k \in 0..n : k \in T
    <3> HIDE DEF T
    <3> QED BY <1>1, <2>1, <2>2, StepByStep
  <2> QED BY <2>3
<1>7. \A k \in 1..n : a[k] = Step(a[k - 1], txt[k], k - 1)
  <2> TAKE k \in 1..n
  <2>1. k - 1 \in 0..n
    BY <1>1
  <2> QED BY <1>2, <1>5, <1>6, <2>1
<1>8. Fits(a)
  BY <1>1, <1>4, <1>7
<1> DEFINE g == CHOOSE g : Fits(g)
<1>9. Pass(txt) = g[n].out
  BY DEF Pass, n
<1>10. Fits(g)
  <2> HIDE DEF Fits
  <2> QED BY <1>8
<1> HIDE DEF g
<1>11. g[0] = Start /\ \A k \in 1..n : g[k] = Step(g[k - 1], txt[k], k - 1)
  <2>1. g = [k \in 0..n |-> IF k = 0 THEN Start ELSE Step(g[k - 1], txt[k], k - 1)]
    BY <1>10
  <2> QED BY <1>1, <2>1
<1>12. \A k \in 0..n : g[k] = a[k]
  <2> DEFINE T == {k \in 0..n : g[k] = a[k]}
  <2>1. 0 \in T /\ \A k \in 1..n : k - 1 \in T => k \in T
    BY <1>1, <1>4, <1>7, <1>11
  <2>2. \A k \in 0..n : k \in T
    <3> HIDE DEF T
    <3> QED BY <1>1, <2>1, StepByStep
  <2> QED BY <2>2
<1>13. Pass(txt) = a[n].out
  BY <1>1, <1>9, <1>12
<1> QED BY <1>4, <1>6, <1>7, <1>13 DEF n

(* For every text: one pass writes what the reference does word by word.     *)
LEMMA PassIsReference ==
  ASSUME NEW txt \in Seq(-3..9)
  PROVE  Pass(txt) = Reference(txt)
<1> DEFINE n == Len(txt)
           Fits(g) == g = [k \in 0..n |->
                             IF k = 0 THEN <<>>
                             ELSE IF txt[k] = Space THEN g[k - 1] \o Becomes(WordBefore(txt, k)) \o <<Space>>
                             ELSE g[k - 1]]
<1>1. n \in Nat
  BY LenProperties
<1>2. PICK a \in [0..n -> PassStates] :
         /\ a[0] = Start /\ \A k \in 1..n : a[k] = Step(a[k - 1], txt[k], k - 1)
         /\ \A k \in 0..n : WordSoFar(txt, k, a[k])
         /\ Pass(txt) = a[n].out
  BY PassIs
<1>3. \A k \in 1..n : /\ txt[k] = Space => /\ WordBefore(txt, k) = a[k - 1].word
                                            /\ a[k].out = a[k - 1].out \o Becomes(a[k - 1].word) \o <<Space>>
                      /\ txt[k] # Space => a[k].out = a[k - 1].out
  <2> TAKE k \in 1..n
  <2>1. k - 1 \in 0..n
    BY <1>1
  <2>2. a[k - 1] \in PassStates /\ WordSoFar(txt, k - 1, a[k - 1]) /\ a[k] = Step(a[k - 1], txt[k], k - 1)
    BY <1>2, <2>1
  <2> QED BY <2>2, StepRight
<1> HIDE DEF n
<1> DEFINE o == [k \in 0..n |-> a[k].out]
<1>4. Fits(o)
  <2>1. o[0] = <<>>
    BY <1>1, <1>2 DEF Start
  <2>2. ASSUME NEW k \in 1..n
        PROVE  o[k] = IF txt[k] = Space THEN o[k - 1] \o Becomes(WordBefore(txt, k)) \o <<Space>> ELSE o[k - 1]
    <3>1. k \in 0..n /\ k - 1 \in 0..n
      BY <1>1
    <3>2. o[k] = a[k].out /\ o[k - 1] = a[k - 1].out
      BY <3>1
    <3> HIDE DEF o
    <3> QED BY <1>3, <3>2
  <2>3. o = [k \in 0..n |-> o[k]]
    OBVIOUS
  <2> HIDE DEF o
  <2>4. ASSUME NEW k \in 0..n
        PROVE  o[k] = IF k = 0 THEN <<>>
                      ELSE IF txt[k] = Space THEN o[k - 1] \o Becomes(WordBefore(txt, k)) \o <<Space>>
                      ELSE o[k - 1]
    BY <1>1, <2>1, <2>2
  <2> QED BY <2>3, <2>4
<1> DEFINE g == CHOOSE g : Fits(g)
<1>5. Reference(txt) = g[n]
  BY DEF Reference, n
<1>6. Fits(g)
  <2> HIDE DEF Fits, o
  <2> QED BY <1>4
<1> HIDE DEF g, o
<1>7. \A k \in 0..n : g[k] = o[k]
  <2>1. g[0] = o[0]
    BY <1>1, <1>4, <1>6
  <2>2. ASSUME NEW k \in 1..n, g[k - 1] = o[k - 1] PROVE g[k] = o[k]
    <3>1. k \in 0..n /\ k # 0
      BY <1>1
    <3>2. g[k] = IF txt[k] = Space THEN g[k - 1] \o Becomes(WordBefore(txt, k)) \o <<Space>> ELSE g[k - 1]
      BY <1>6, <3>1
    <3>3. o[k] = IF txt[k] = Space THEN o[k - 1] \o Becomes(WordBefore(txt, k)) \o <<Space>> ELSE o[k - 1]
      BY <1>4, <3>1
    <3> QED BY <2>2, <3>2, <3>3
  <2> DEFINE T == {k \in 0..n : g[k] = o[k]}
  <2>3. 0 \in T /\ \A k \in 1..n : k - 1 \in T => k \in T
    BY <1>1, <2>1, <2>2
  <2>4. \A k \in 0..n : k \in T
    <3> HIDE DEF T
    <3> QED BY <1>1, <2>3, StepByStep
  <2> QED BY <2>4
<1>8. n \in 0..n
  BY <1>1
<1> QED BY <1>2, <1>5, <1>7, <1>8 DEF o

(* What the program that transforms a text keeps.                             *)
BizzIInv ==
  /\ BizzTypeOK /\ TransferIsReference
  /\ program = "bizzbuzz" => input \in Texts

(* bizbuzz begins so.                                                         *)
LEMMA BizzInitInv == Init => BizzIInv
BY DEF Init, IfRuns, BizzInit, BizzIInv, BizzTypeOK, TransferIsReference

(* The one transformation of the text writes what the reference does.         *)
LEMMA BizzNextInv ==
  ASSUME BizzIInv, program' = program,
         IF program = "bizzbuzz" THEN [Transfer]_bizzVars ELSE UNCHANGED bizzVars
  PROVE  BizzIInv'
<1> USE DEF BizzIInv, BizzTypeOK, TransferIsReference, bizzVars
<1>1. CASE UNCHANGED bizzVars
  BY <1>1
<1>2. CASE program = "bizzbuzz" /\ Transfer
  <2>1. input \in Seq(-3..9)
    BY <1>2, BizzAssumption
  <2> QED BY <1>2, <2>1, PassIsReference DEF Transfer
<1> QED BY <1>1, <1>2
-----------------------------------------------------------------------------
(* socket.                                                                    *)
PrintIInv == PrintTypeOK /\ (server = "read" => serving \in PrintClients)

(* socket begins so.                                                          *)
LEMMA PrintInitInv == PrintInit => PrintIInv
<1> SUFFICES ASSUME PrintInit PROVE PrintIInv
  OBVIOUS
<1>1. waiting \in Seq(PrintClients) /\ starts \in 0..MaxStarts
  BY EmptySeq, PrintAssumption DEF PrintInit
<1> QED BY <1>1 DEF PrintInit, PrintTypeOK, PrintIInv

(* Every step of the print server and its clients keeps it.                   *)
LEMMA PrintNextInv == PrintIInv /\ [PrintNext]_printVars => PrintIInv'
<1> SUFFICES ASSUME PrintIInv, [PrintNext]_printVars PROVE PrintIInv'
  OBVIOUS
<1> USE DEF PrintIInv, PrintTypeOK
<1>1. CASE UNCHANGED printVars
  BY <1>1 DEF printVars
<1>2. CASE StartServer
  BY <1>2, PrintAssumption DEF StartServer
<1>3. CASE AcceptNext
  BY <1>3, HeadTailProperties DEF AcceptNext
<1>4. ASSUME NEW who \in PrintClients \cup {NoOne, Killer}, EndBy(who)
      PROVE  /\ server' = "off" /\ waiting' \in Seq(PrintClients)
             /\ cut' \in [PrintClients -> PrintClients \cup {NoOne, Killer}]
  <2>1. waiting' \in Seq(PrintClients)
    BY <1>4, EmptySeq DEF EndBy
  <2> QED BY <1>4, <2>1 DEF EndBy
<1>5. CASE ReadLine
  <2>1. serving \in PrintClients
    BY <1>5 DEF ReadLine
  <2> QED BY <1>4, <1>5, <2>1 DEF ReadLine
<1>6. CASE KillServer
  BY <1>4, <1>6 DEF KillServer
<1>7. ASSUME NEW c \in PrintClients, Connect(c) \/ WriteLine(c) \/ Abandon(c) PROVE PrintIInv'
  <2>1. client' \in [PrintClients -> {"start", "connected", "gone"}]
    BY <1>7 DEF Connect, WriteLine, Abandon, Leave
  <2>2. waiting' \in Seq(PrintClients)
    BY <1>7, AppendProperties DEF Connect, WriteLine, Abandon
  <2>3. line' \in [PrintClients -> Lines \cup {Silence}]
    BY <1>7 DEF Connect, WriteLine, Abandon
  <2> QED BY <1>7, <2>1, <2>2, <2>3 DEF Connect, WriteLine, Abandon
<1> QED BY <1>1, <1>2, <1>3, <1>5, <1>6, <1>7 DEF PrintNext
-----------------------------------------------------------------------------
(* flocks.  A byte that has been locked for writing all the time was listed,  *)
(* or is still ahead of the scan; and a lock that nothing was done to or next *)
(* to lies behind the byte the scan has got to and was listed once, or is     *)
(* still ahead of it.                                                         *)
Still(p, x) == held[p][x] = "F_WRLCK" /\ times[p][x] # Changed
Ahead(a) == i <= a /\ f1.type # "F_UNLCK"
Once(p, x) == \A a \in 0..x, b \in x..(LastByte - 1) :
  Unchanged(p, a, b) => (times[p][x] = 1 /\ b < i) \/ (times[p][x] = 0 /\ Ahead(a))
Scanned ==
  /\ i = f1.start
  /\ scan = "start" => i = 0 /\ f1.type # "F_UNLCK" /\ \A p \in Owners, x \in Bytes : times[p][x] = 0
  /\ scan = "scan" => \A p \in Owners : held[p] # Free => p \in owners
  /\ scan = "done" => Size <= i
  /\ scan # "start" => \A p \in Owners : owners \subseteq {p} => \A x \in Bytes : Still(p, x) =>
       (times[p][x] >= 1 \/ Ahead(x)) /\ Once(p, x)
LockIInv == LockTypeOK /\ Scanned
-----------------------------------------------------------------------------
(* flocks begins so.                                                          *)
LEMMA LockInitInv == LockInit => LockIInv
<1> SUFFICES ASSUME LockInit PROVE LockIInv
  OBVIOUS
<1>1. LockTypeOK
  BY DEF LockInit, LockTypeOK, LockTypes, Free
<1>2. Scanned
  BY DEF LockInit, Scanned
<1> QED BY <1>1, <1>2 DEF LockIInv

(* A byte that is locked is in some lock.                                     *)
LEMMA LockOfByte ==
  ASSUME LockTypeOK, NEW p \in Owners, NEW x \in Bytes, held[p][x] # "F_UNLCK"
  PROVE  \E a \in 0..x, b \in x..LastByte : IsLock(p, a, b)
<1>0. LastByte \in Nat /\ x \in Nat /\ x <= LastByte
  BY LockAssumption DEF Bytes
<1>1. PICK b \in x..LastByte : /\ \A y \in x..b : held[p][y] = held[p][x]
                               /\ b < LastByte => held[p][b + 1] # held[p][x]
  <2> DEFINE T == {y \in Nat : y > x /\ (y = LastByte + 1 \/ (y <= LastByte /\ held[p][y] # held[p][x]))}
  <2>1. LastByte + 1 \in T
    BY <1>0
  <2>2. PICK m \in T : \A y \in T : m <= y
    BY <2>1, LeastOfSet
  <2>3. m - 1 \in x..LastByte
    BY <1>0, <2>2
  <2>4. \A y \in x..(m - 1) : held[p][y] = held[p][x]
    BY <1>0, <2>2
  <2>5. m - 1 < LastByte => held[p][(m - 1) + 1] # held[p][x]
    BY <1>0, <2>2
  <2> HIDE DEF T
  <2> QED BY <2>3, <2>4, <2>5
<1>2. PICK a \in 0..x : /\ \A y \in a..x : held[p][y] = held[p][x]
                        /\ a > 0 => held[p][a - 1] # held[p][x]
  <2> DEFINE T == {n \in Nat : n > 0 /\ (n = x + 1 \/ (n <= x /\ held[p][x - n] # held[p][x]))}
  <2>1. x + 1 \in T
    BY <1>0
  <2>2. PICK m \in T : \A n \in T : m <= n
    BY <2>1, LeastOfSet
  <2>3. x - m + 1 \in 0..x
    BY <1>0, <2>2
  <2>4. ASSUME NEW y \in (x - m + 1)..x PROVE held[p][y] = held[p][x]
    <3>1. x - y \in Nat /\ x - y < m /\ x - y <= x /\ x - (x - y) = y
      BY <1>0, <2>2, <2>3
    <3>2. x - y > 0 => ~ (held[p][x - (x - y)] # held[p][x])
      BY <2>2, <3>1
    <3>3. y \in Int /\ (x - y = 0 => y = x)
      BY <1>0, <2>3
    <3> QED BY <3>1, <3>2, <3>3
  <2>5. x - m + 1 > 0 => held[p][(x - m + 1) - 1] # held[p][x]
    <3>1. (x - m + 1) - 1 = x - m
      BY <1>0, <2>2
    <3> QED BY <1>0, <2>2, <3>1
  <2> HIDE DEF T
  <2> QED BY <2>3, <2>4, <2>5
<1>3. a \in Nat /\ b \in Nat /\ a <= x /\ x <= b /\ b <= LastByte
  BY <1>0, <1>1, <1>2
<1>4. held[p][a] = held[p][x]
  BY <1>0, <1>2
<1>5. ASSUME NEW y \in a..b PROVE held[p][y] = held[p][a]
  <2>1. y \in a..x \/ y \in x..b
    BY <1>0, <1>3
  <2>2. held[p][y] = held[p][x]
    BY <2>1, <1>1, <1>2
  <2> QED BY <2>2, <1>4
<1>6. ASSUME NEW y \in {a - 1, b + 1} \cap Bytes PROVE held[p][y] # held[p][a]
  <2>1. y \in 0..LastByte
    BY DEF Bytes
  <2>2. (y = a - 1 /\ a > 0) \/ (y = b + 1 /\ b < LastByte)
    BY <2>1, <1>0, <1>3
  <2>3. held[p][y] # held[p][x]
    BY <2>2, <1>1, <1>2
  <2> QED BY <2>3, <1>4
<1>7. IsLock(p, a, b)
  BY <1>0, <1>3, <1>4, <1>5, <1>6 DEF IsLock
<1> QED BY <1>1, <1>2, <1>7

(* A byte is in one lock only.                                                *)
LEMMA LocksApart ==
  ASSUME NEW p \in Owners, LastByte \in Nat,
         NEW a \in Bytes, NEW b \in Bytes, NEW c \in Bytes, NEW d \in Bytes,
         IsLock(p, a, b), IsLock(p, c, d), c <= b, a <= d
  PROVE  a = c /\ b = d
<1>1. a <= b /\ c <= d
  BY DEF IsLock
<1>2. PICK y \in Bytes : y \in a..b /\ y \in c..d
  <2>1. CASE a <= c
    BY <1>1, <2>1 DEF Bytes
  <2>2. CASE c <= a
    BY <1>1, <2>2 DEF Bytes
  <2> QED BY <2>1, <2>2 DEF Bytes
<1>3. held[p][a] = held[p][c]
  BY <1>2 DEF IsLock
<1>4. ~ (a < c)
  <2>1. a < c => c - 1 \in a..b /\ c - 1 \in {c - 1, d + 1} \cap Bytes
    BY DEF Bytes
  <2> QED BY <1>3, <2>1 DEF IsLock
<1>5. ~ (c < a)
  <2>1. c < a => a - 1 \in c..d /\ a - 1 \in {a - 1, b + 1} \cap Bytes
    BY DEF Bytes
  <2> QED BY <1>3, <2>1 DEF IsLock
<1>6. ~ (b < d)
  <2>1. b < d => b + 1 \in c..d /\ b + 1 \in {a - 1, b + 1} \cap Bytes
    BY DEF Bytes
  <2> QED BY <1>3, <2>1 DEF IsLock
<1>7. ~ (d < b)
  <2>1. d < b => d + 1 \in a..b /\ d + 1 \in {c - 1, d + 1} \cap Bytes
    BY DEF Bytes
  <2> QED BY <1>3, <2>1 DEF IsLock
<1> QED BY <1>4, <1>5, <1>6, <1>7 DEF Bytes

(* What one process does to its locks leaves the scan's account right: what   *)
(* is unchanged afterwards was so before.                                     *)
LEMMA LockPut ==
  ASSUME LockIInv, NEW p \in Owners, NEW mine \in [Bytes -> LockTypes], Keep(p, mine),
         UNCHANGED <<scan, i, f1>>
  PROVE  /\ held' \in [Owners -> [Bytes -> LockTypes]]
         /\ times' \in [Owners -> [Bytes -> {Changed, 0, 1, 2}]]
         /\ owners' \subseteq Owners /\ Scanned'
<1>0. LockTypeOK /\ Scanned
  BY DEF LockIInv
<1>1. held' \in [Owners -> [Bytes -> LockTypes]] /\ held'[p] = mine /\ \A o \in Owners \ {p} : held'[o] = held[o]
  BY <1>0 DEF Keep, LockTypeOK
<1>2. owners' \subseteq Owners /\ owners \subseteq owners' /\ (scan = "scan" /\ mine # Free => p \in owners')
  BY <1>0 DEF Keep, LockTypeOK
<1>3. times' \in [Owners -> [Bytes -> {Changed, 0, 1, 2}]]
  BY <1>0 DEF Keep, LockTypeOK
<1>4. scan = "start" => times' = times
  BY DEF Keep
<1>5. ASSUME scan # "start", NEW o \in Owners, NEW x \in Bytes, times'[o][x] # Changed
      PROVE  held'[o][x] = held[o][x] /\ times'[o][x] = times[o][x]
  <2>1. times' = [times EXCEPT ![p] = [y \in Bytes |-> IF mine[y] = held[p][y] THEN times[p][y] ELSE Changed]]
    BY <1>5 DEF Keep
  <2>2. CASE o = p
    <3>1. times'[p][x] = IF mine[x] = held[p][x] THEN times[p][x] ELSE Changed
      BY <1>0, <2>1 DEF LockTypeOK
    <3> QED BY <1>1, <1>5, <2>2, <3>1
  <2>3. CASE o # p
    BY <1>0, <1>1, <2>1, <2>3 DEF LockTypeOK
  <2> QED BY <2>2, <2>3
<1>6. ASSUME scan # "start", NEW o \in Owners, NEW a \in Bytes, NEW b \in Bytes, Unchanged(o, a, b)'
      PROVE  Unchanged(o, a, b)
  <2>1. LastByte \in Nat /\ a \in Nat /\ b \in Nat /\ a <= LastByte /\ b <= LastByte
    BY LockAssumption DEF Bytes
  <2>2. IsLock(o, a, b)' /\ \A y \in ((a - 1)..(b + 1)) \cap Bytes : times'[o][y] # Changed
    BY <1>6 DEF Unchanged, Bytes
  <2>3. \A y \in ((a - 1)..(b + 1)) \cap Bytes : held'[o][y] = held[o][y] /\ times[o][y] # Changed
    BY <1>5, <1>6, <2>2
  <2>4. /\ a <= b /\ held'[o][a] # "F_UNLCK" /\ \A y \in a..b : held'[o][y] = held'[o][a]
        /\ \A y \in {a - 1, b + 1} \cap Bytes : held'[o][y] # held'[o][a]
    BY <2>2 DEF IsLock, Bytes
  <2>5. \A y \in a..b : y \in ((a - 1)..(b + 1)) \cap Bytes
    BY <2>1 DEF Bytes
  <2>6. \A y \in {a - 1, b + 1} \cap Bytes : y \in ((a - 1)..(b + 1)) \cap Bytes
    BY <2>1, <2>4 DEF Bytes
  <2>7. a \in a..b
    BY <2>1, <2>4
  <2>8. IsLock(o, a, b)
    BY <2>3, <2>4, <2>5, <2>6, <2>7 DEF IsLock
  <2> QED BY <2>3, <2>8 DEF Unchanged
<1>7. ASSUME scan # "start", NEW o \in Owners, owners' \subseteq {o}, NEW x \in Bytes, Still(o, x)'
      PROVE  (times'[o][x] >= 1 \/ Ahead(x)') /\ Once(o, x)'
  <2>1. times'[o][x] = times[o][x] /\ Still(o, x)
    BY <1>5, <1>7 DEF Still
  <2>2. (times[o][x] >= 1 \/ Ahead(x)) /\ Once(o, x)
    BY <1>0, <1>2, <1>7, <2>1 DEF Scanned
  <2>3. Ahead(x)' <=> Ahead(x)
    BY DEF Ahead
  <2>4. Once(o, x)'
    <3> SUFFICES ASSUME NEW a \in 0..x, NEW b \in x..(LastByte - 1), Unchanged(o, a, b)'
                 PROVE  (times'[o][x] = 1 /\ b < i') \/ (times'[o][x] = 0 /\ Ahead(a)')
      BY DEF Once
    <3>1. a \in Bytes /\ b \in Bytes
      BY LockAssumption DEF Bytes
    <3>2. Unchanged(o, a, b)
      BY <1>6, <1>7, <3>1
    <3>3. (times[o][x] = 1 /\ b < i) \/ (times[o][x] = 0 /\ Ahead(a))
      BY <2>2, <3>2 DEF Once
    <3> QED BY <2>1, <3>3 DEF Ahead
  <2> QED BY <2>1, <2>2, <2>3, <2>4
<1>8. Scanned'
  <2>1. scan = "scan" => \A o \in Owners : held'[o] # Free => o \in owners'
    BY <1>0, <1>1, <1>2 DEF Scanned
  <2>2. Free' = Free
    BY DEF Free
  <2> QED BY <1>0, <1>4, <1>7, <2>1, <2>2 DEF Scanned
<1> QED BY <1>1, <1>2, <1>3, <1>8

(* What the kernel is asked for.                                              *)
LEMMA SetLockPuts ==
  ASSUME LockTypeOK, NEW p \in Owners, NEW type \in LockTypes, NEW l, SetLock(p, type, l) \/ Release(p)
  PROVE  \E mine \in [Bytes -> LockTypes] : Keep(p, mine)
<1>1. CASE SetLock(p, type, l)
  <2> DEFINE mine == [x \in Bytes |-> IF x \in Covered(l) THEN type ELSE held[p][x]]
  <2>1. mine \in [Bytes -> LockTypes]
    BY DEF LockTypeOK
  <2>2. Keep(p, mine)
    BY <1>1 DEF SetLock
  <2> HIDE DEF mine
  <2> QED BY <2>1, <2>2
<1>2. CASE Release(p)
  <2>1. Free \in [Bytes -> LockTypes]
    BY DEF Free, LockTypes
  <2> QED BY <1>2, <2>1 DEF Release
<1> QED BY <1>1, <1>2

(* A step of setlk keeps it.                                                  *)
LEMMA SetterInv ==
  ASSUME LockIInv, NEW p \in Setters, SetFirst(p) \/ SetSecond(p) \/ SetterEnds(p)
  PROVE  LockIInv'
<1>0. LockTypeOK /\ p \in Owners
  BY DEF LockIInv, Owners
<1>1. UNCHANGED <<scan, i, f1>>
  BY DEF SetFirst, SetSecond, SetterEnds, Setlk
<1>2. \E l : SetLock(p, "F_WRLCK", l) \/ Release(p)
  BY DEF SetFirst, SetSecond, SetterEnds, Setlk, First, Second, Lock
<1>3. setter' \in [Setters -> {"first", "second", "sleep", "done"}]
  BY <1>0 DEF SetFirst, SetSecond, SetterEnds, Setlk, LockTypeOK
<1>4. PICK mine \in [Bytes -> LockTypes] : Keep(p, mine)
  <2>1. "F_WRLCK" \in LockTypes
    BY DEF LockTypes
  <2> QED BY <1>0, <1>2, <2>1, SetLockPuts
<1>5. /\ held' \in [Owners -> [Bytes -> LockTypes]]
      /\ times' \in [Owners -> [Bytes -> {Changed, 0, 1, 2}]]
      /\ owners' \subseteq Owners /\ Scanned'
  BY <1>0, <1>1, <1>4, LockPut
<1> QED BY <1>0, <1>1, <1>3, <1>5 DEF LockTypeOK, LockIInv

(* A step of another program that locks keeps it.                             *)
LEMMA OtherInv ==
  ASSUME LockIInv, NEW p \in Others,
         OtherReleases(p) \/ \E l \in Regions : OtherLocks(p, l) \/ OtherUnlocks(p, l)
  PROVE  LockIInv'
<1>0. LockTypeOK /\ p \in Owners
  BY DEF LockIInv, Owners
<1>1. UNCHANGED <<setter, scan, i, f1>>
  BY DEF OtherReleases, OtherLocks, OtherUnlocks
<1>2. PICK mine \in [Bytes -> LockTypes] : Keep(p, mine)
  <2>1. \A l \in Regions : l.type \in LockTypes
    BY LockAssumption DEF LockTypes
  <2>2. "F_UNLCK" \in LockTypes
    BY DEF LockTypes
  <2> QED BY <1>0, <2>1, <2>2, SetLockPuts DEF OtherReleases, OtherLocks, OtherUnlocks
<1>3. /\ held' \in [Owners -> [Bytes -> LockTypes]]
      /\ times' \in [Owners -> [Bytes -> {Changed, 0, 1, 2}]]
      /\ owners' \subseteq Owners /\ Scanned'
  BY <1>0, <1>1, <1>2, LockPut
<1> QED BY <1>0, <1>1, <1>3 DEF LockTypeOK, LockIInv

(* The scan lists the first lock that ends after the byte it has got to.      *)
LEMMA FoundInv ==
  ASSUME LockIInv, NEW p \in Owners, NEW r \in Blocking(p), Found(p, r)
  PROVE  LockIInv'
<1>0. LockTypeOK /\ Scanned /\ LastByte \in Nat
  BY LockAssumption DEF LockIInv
<1>1. /\ r = <<r[1], r[2]>> /\ r[1] \in Bytes /\ r[2] \in Bytes /\ IsLock(p, r[1], r[2]) /\ i <= r[2]
      /\ r[1] <= r[2] /\ r[1] \in Nat /\ r[2] \in Nat /\ r[2] <= LastByte
  BY <1>0 DEF Blocking, Scanned, IsLock, Bytes
<1>2. scan = "scan" /\ f1.type # "F_UNLCK" /\ (\A s \in Blocking(p) : r[1] <= s[1])
  BY DEF Found, FirstBlocking
<1>3. /\ i' = After(r) /\ f1' = [type |-> held[p][r[1]], start |-> After(r)]
      /\ times' = [times EXCEPT ![p] = [x \in Bytes |-> IF x \in r[1]..r[2] /\ times[p][x] \in {0, 1}
                                                        THEN times[p][x] + 1 ELSE times[p][x]]]
      /\ UNCHANGED <<held, setter, scan, owners>>
  BY DEF Found
<1>4. i' \in Nat /\ (r[2] < LastByte => i' = r[2] + 1) /\ (r[2] = LastByte => i' = r[1])
  BY <1>0, <1>1, <1>3 DEF After
<1>5. held[p][r[1]] \in LockTypes \ {"F_UNLCK"}
  BY <1>0, <1>1 DEF LockTypeOK, IsLock
<1>6. times' \in [Owners -> [Bytes -> {Changed, 0, 1, 2}]]
  BY <1>0, <1>3 DEF LockTypeOK, Changed
<1>7. LockTypeOK'
  BY <1>0, <1>3, <1>4, <1>5, <1>6 DEF LockTypeOK
<1>8. ASSUME NEW o \in Owners, owners' \subseteq {o}, NEW x \in Bytes, Still(o, x)'
      PROVE  (times'[o][x] >= 1 \/ Ahead(x)') /\ Once(o, x)'
  <2>1. o = p
    <3>1. held[p] # Free
      BY <1>1, <1>5 DEF Free
    <3> QED BY <1>0, <1>2, <1>3, <1>8, <3>1 DEF Scanned
  <2>2. /\ x \in Nat /\ x <= LastByte /\ i \in Nat /\ held[p][x] = "F_WRLCK" /\ times'[p][x] # Changed
        /\ times[p][x] \in {Changed, 0, 1, 2}
    BY <1>0, <1>3, <1>8, <2>1 DEF Still, LockTypeOK, Bytes
  <2>3. times'[p][x] = IF x \in r[1]..r[2] /\ times[p][x] \in {0, 1} THEN times[p][x] + 1 ELSE times[p][x]
    BY <1>0, <1>3 DEF LockTypeOK
  <2>4. times[p][x] \in 0..2 /\ Still(p, x)
    BY <2>2, <2>3 DEF Still, Changed
  <2>5. (times[p][x] >= 1 \/ Ahead(x)) /\ Once(p, x)
    BY <1>0, <1>2, <1>3, <1>8, <2>1, <2>4 DEF Scanned
  <2>6. Ahead(x) => x >= r[1]
    <3> SUFFICES ASSUME i <= x PROVE x >= r[1]
      BY DEF Ahead
    <3>1. PICK a \in 0..x, b \in x..LastByte : IsLock(p, a, b)
      BY <1>0, <2>2, LockOfByte
    <3>2. a \in Bytes /\ b \in Bytes /\ f1.start <= b /\ held[p][a] = "F_WRLCK"
      BY <1>0, <2>2, <3>1 DEF IsLock, Bytes, Scanned
    <3>3. <<a, b>> \in Blocking(p)
      BY <3>1, <3>2 DEF Blocking
    <3> QED BY <1>1, <1>2, <2>2, <3>1, <3>3
  <2>7. times'[p][x] >= 1 \/ Ahead(x)'
    <3>1. CASE times[p][x] >= 1
      BY <2>3, <2>4, <3>1
    <3>2. CASE x \in r[1]..r[2]
      BY <2>3, <2>4, <3>2
    <3>3. CASE Ahead(x) /\ x \notin r[1]..r[2]
      <4>1. r[2] < x
        BY <1>1, <2>2, <2>6, <3>3
      <4>2. i' <= x
        BY <1>0, <1>1, <1>4, <2>2, <4>1
      <4> QED BY <1>3, <1>5, <4>2 DEF Ahead
    <3> QED BY <2>5, <3>1, <3>2, <3>3
  <2>8. ASSUME NEW a \in 0..x, NEW b \in x..(LastByte - 1), Unchanged(p, a, b)
        PROVE  (times'[p][x] = 1 /\ b < i') \/ (times'[p][x] = 0 /\ Ahead(a)')
    <3>1. /\ a \in Bytes /\ b \in Bytes /\ a <= x /\ x <= b /\ b < LastByte
          /\ a \in Nat /\ b \in Nat /\ IsLock(p, a, b)
      <4>1. a \in Bytes /\ b \in Bytes /\ a <= x /\ x <= b /\ b < LastByte /\ a \in Nat /\ b \in Nat
        BY <1>0, <2>2 DEF Bytes
      <4> QED BY <2>8, <4>1 DEF Unchanged
    <3>2. (times[p][x] = 1 /\ b < i) \/ (times[p][x] = 0 /\ Ahead(a))
      BY <2>5, <2>8 DEF Once
    <3>3. (r[1] <= b /\ a <= r[2]) => r[1] = a /\ r[2] = b
      BY <1>0, <1>1, <3>1, LocksApart
    <3>4. CASE times[p][x] = 1 /\ b < i
      <4>1. b < r[1]
        BY <1>0, <1>1, <2>2, <3>1, <3>3, <3>4
      <4>2. times'[p][x] = 1
        BY <1>1, <2>2, <2>3, <3>1, <3>4, <4>1
      <4>3. b < i'
        BY <1>0, <1>1, <1>4, <3>1, <4>1
      <4> QED BY <4>2, <4>3
    <3>5. CASE times[p][x] = 0 /\ Ahead(a)
      <4>1. r[1] <= a
        <5>1. held[p][a] = "F_WRLCK" /\ f1.start <= b
          BY <1>0, <2>2, <3>1, <3>5 DEF IsLock, Scanned, Ahead
        <5>2. <<a, b>> \in Blocking(p)
          BY <3>1, <5>1 DEF Blocking
        <5> QED BY <1>2, <5>2
      <4>2. CASE r[2] = b
        <5>1. r[1] = a
          BY <1>1, <2>2, <3>1, <3>3, <4>1, <4>2
        <5>2. times'[p][x] = 1
          BY <2>3, <3>1, <3>5, <4>2, <5>1, <2>2
        <5> QED BY <1>1, <1>4, <3>1, <4>2, <5>2
      <4>3. CASE r[2] # b
        <5>1. r[2] < a
          BY <1>1, <2>2, <3>1, <3>3, <4>1, <4>3
        <5>2. times'[p][x] = 0
          BY <1>1, <2>2, <2>3, <3>1, <3>5, <5>1
        <5>3. i' <= a /\ f1'.type # "F_UNLCK"
          BY <1>0, <1>1, <1>3, <1>4, <1>5, <3>1, <5>1
        <5> QED BY <5>2, <5>3 DEF Ahead
      <4> QED BY <4>2, <4>3
    <3> QED BY <3>2, <3>4, <3>5
  <2>9. ASSUME NEW a, NEW b, Unchanged(p, a, b)' PROVE Unchanged(p, a, b)
    <3>1. IsLock(p, a, b)
      BY <1>3, <2>9 DEF Unchanged, IsLock, Bytes
    <3>2. ASSUME NEW y \in ((a - 1)..(b + 1)) \cap Bytes PROVE times[p][y] # Changed
      <4>1. times'[p][y] # Changed
        BY <2>9 DEF Unchanged, Bytes
      <4>2. times'[p][y] = IF y \in r[1]..r[2] /\ times[p][y] \in {0, 1} THEN times[p][y] + 1 ELSE times[p][y]
        BY <1>0, <1>3 DEF LockTypeOK
      <4> QED BY <4>1, <4>2 DEF Changed
    <3> QED BY <3>1, <3>2 DEF Unchanged
  <2>10. Once(p, x)'
    BY <2>8, <2>9 DEF Once
  <2> QED BY <2>1, <2>7, <2>10
<1>9. Scanned'
  <2>1. i' = f1'.start
    BY <1>3
  <2>2. scan' = "scan" /\ (\A o \in Owners : held'[o] # Free' => o \in owners')
    BY <1>0, <1>2, <1>3 DEF Scanned, Free
  <2> QED BY <1>8, <2>1, <2>2 DEF Scanned
<1> QED BY <1>7, <1>9 DEF LockIInv

(* A step of the scan that finds no lock keeps it.                            *)
LEMMA ScanInv ==
  ASSUME LockIInv, OpenFile \/ NotFound \/ CloseFile
  PROVE  LockIInv'
<1>0. LockTypeOK /\ Scanned /\ LastByte \in Nat /\ Size \in Nat /\ i \in Nat
  BY LockAssumption DEF LockIInv, LockTypeOK
<1>1. held' = held /\ times' = times /\ setter' = setter
  BY DEF OpenFile, NotFound, CloseFile
<1>2. \A p, a, b : Unchanged(p, a, b)' <=> Unchanged(p, a, b)
  BY <1>1 DEF Unchanged, IsLock
<1>3. \A p, x : Still(p, x)' <=> Still(p, x)
  BY <1>1 DEF Still
<1>4. CASE OpenFile
  <2>1. /\ scan = "start" /\ scan' = "scan" /\ owners' = {p \in Owners : held[p] # Free}
        /\ UNCHANGED <<held, setter, i, f1, times>>
    BY <1>4 DEF OpenFile
  <2>2. LockTypeOK'
    BY <1>0, <2>1 DEF LockTypeOK
  <2>3. ASSUME NEW p \in Owners, NEW x \in Bytes PROVE (times'[p][x] >= 1 \/ Ahead(x)') /\ Once(p, x)'
    <3>1. \A a \in 0..x : times'[p][x] = 0 /\ Ahead(a)'
      BY <1>0, <2>1 DEF Scanned, Ahead, Bytes
    <3>2. x \in 0..x
      BY <1>0 DEF Bytes
    <3> QED BY <3>1, <3>2 DEF Once
  <2>4. Scanned'
    BY <1>0, <2>1, <2>3 DEF Scanned, Free
  <2> QED BY <2>2, <2>4 DEF LockIInv
<1>5. CASE NotFound
  <2>1. /\ scan = "scan" /\ i' = i + 1 /\ f1' = [type |-> "F_UNLCK", start |-> f1.start + 1]
        /\ UNCHANGED <<held, setter, scan, times, owners>>
    BY <1>5 DEF NotFound
  <2>2. LockTypeOK'
    BY <1>0, <2>1 DEF LockTypeOK, LockTypes
  <2>3. ASSUME NEW p \in Owners, owners \subseteq {p}, NEW x \in Bytes, Still(p, x)
        PROVE  (times'[p][x] >= 1 \/ Ahead(x)') /\ Once(p, x)'
    <3>1. (times[p][x] >= 1 \/ Ahead(x)) /\ Once(p, x)
      BY <1>0, <2>1, <2>3 DEF Scanned
    <3>2. x \in Nat /\ x <= LastByte
      BY <1>0 DEF Bytes
    <3>3. ~Ahead(x)
      <4> SUFFICES ASSUME Ahead(x) PROVE FALSE
        OBVIOUS
      <4>1. PICK a \in 0..x, b \in x..LastByte : IsLock(p, a, b)
        BY <1>0, <2>3, LockOfByte DEF Still
      <4>2. a \in Bytes /\ b \in Bytes /\ f1.start <= b /\ held[p][a] = "F_WRLCK"
        BY <1>0, <2>3, <3>2, <4>1 DEF IsLock, Bytes, Scanned, Ahead, Still
      <4>3. <<a, b>> \in Blocking(p)
        BY <4>1, <4>2 DEF Blocking
      <4> QED BY <1>5, <4>3 DEF NotFound, Ahead
    <3>4. \A a \in 0..x : ~Ahead(a)
      <4> SUFFICES ASSUME NEW a \in 0..x, Ahead(a) PROVE Ahead(x)
        BY <3>3
      <4> QED BY <1>0, <3>2 DEF Ahead
    <3>5. Once(p, x)'
      <4> SUFFICES ASSUME NEW a \in 0..x, NEW b \in x..(LastByte - 1), Unchanged(p, a, b)'
                   PROVE  times'[p][x] = 1 /\ b < i'
        BY DEF Once
      <4>1. times[p][x] = 1 /\ b < i
        BY <1>2, <3>1, <3>4 DEF Once
      <4> QED BY <1>0, <2>1, <3>2, <4>1
    <3> QED BY <2>1, <3>1, <3>3, <3>5
  <2>4. Scanned'
    <3>1. i' = f1'.start
      BY <1>0, <2>1 DEF Scanned
    <3> QED BY <1>0, <1>3, <2>1, <2>3, <3>1 DEF Scanned, Free
  <2> QED BY <2>2, <2>4 DEF LockIInv
<1>6. CASE CloseFile
  <2>1. scan = "scan" /\ scan' = "done" /\ i >= Size /\ UNCHANGED <<held, setter, i, f1, times, owners>>
    BY <1>6 DEF CloseFile
  <2>2. LockTypeOK'
    BY <1>0, <2>1 DEF LockTypeOK
  <2>3. ASSUME NEW p \in Owners, owners \subseteq {p}, NEW x \in Bytes, Still(p, x)
        PROVE  (times'[p][x] >= 1 \/ Ahead(x)') /\ Once(p, x)'
    <3>1. (times[p][x] >= 1 \/ Ahead(x)) /\ Once(p, x)
      BY <1>0, <2>1, <2>3 DEF Scanned
    <3> QED BY <1>2, <2>1, <3>1 DEF Once, Ahead
  <2>4. Scanned'
    BY <1>0, <1>3, <2>1, <2>3 DEF Scanned
  <2> QED BY <2>2, <2>4 DEF LockIInv
<1> QED BY <1>4, <1>5, <1>6

(* Every step of getlk and of those that lock keeps it.                       *)
LEMMA LockNextInv == LockIInv /\ [LockNext]_lockVars => LockIInv'
<1> SUFFICES ASSUME LockIInv, [LockNext]_lockVars PROVE LockIInv'
  OBVIOUS
<1>1. CASE UNCHANGED lockVars
  <2>1. LockTypeOK'
    BY <1>1 DEF LockIInv, LockTypeOK, lockVars
  <2>2. \A p, x : (Still(p, x)' <=> Still(p, x)) /\ (Once(p, x)' <=> Once(p, x)) /\ (Ahead(x)' <=> Ahead(x))
    BY <1>1 DEF Still, Once, Unchanged, IsLock, Ahead, lockVars
  <2>3. Scanned'
    BY <1>1, <2>2 DEF LockIInv, Scanned, Free, lockVars
  <2> QED BY <2>1, <2>3 DEF LockIInv
<1>2. CASE LockNext
  BY <1>2, SetterInv, OtherInv, FoundInv, ScanInv DEF LockNext, ScanStep
<1> QED BY <1>1, <1>2

(* A scan that is complete has listed what was there all the time.            *)
LEMMA LockListed == LockIInv => StableLocksListed
<1> SUFFICES ASSUME LockIInv, scan = "done", Cardinality(owners) = 1,
                    NEW p \in owners, NEW x \in 0..(Size - 1),
                    held[p][x] = "F_WRLCK", times[p][x] # Changed
             PROVE  /\ times[p][x] >= 1
                    /\ \A a \in 0..x, b \in x..(LastByte - 1) : Unchanged(p, a, b) => times[p][x] = 1
  BY DEF StableLocksListed
<1>1. LockTypeOK /\ Scanned
  BY DEF LockIInv
<1>2. p \in Owners /\ IsFiniteSet(owners)
  BY <1>1, LockAssumption, FS_Subset DEF LockTypeOK, Owners
<1>3. owners = {p}
  BY <1>2, FS_Singleton
<1>4. x \in Bytes /\ x < i /\ i \in Nat /\ x \in Nat
  BY <1>1, LockAssumption DEF LockTypeOK, Bytes, Scanned
<1>5. (times[p][x] >= 1 \/ Ahead(x)) /\ Once(p, x)
  BY <1>1, <1>2, <1>3, <1>4 DEF Scanned, Still
<1>6. \A a \in 0..x : ~Ahead(a)
  BY <1>4 DEF Ahead
<1>7. times[p][x] >= 1
  BY <1>4, <1>5, <1>6
<1> QED BY <1>5, <1>6, <1>7 DEF Once
-----------------------------------------------------------------------------
(* log.  What buf and the records consist of; t ends with the first j parts   *)
(* of a call.                                                                 *)
Words == {Nul} \cup (Steps \X (0..MaxLogCalls))
EndsWith(t, c, j) == j <= Len(t) /\ \A k \in 1..j : t[Len(t) - j + k] = Part(c.n, Kinds[k])

(* A sound call that is not interrupted has its parts at the end of the       *)
(* string t in buf, and pos behind the last or, where it is yet to advance,   *)
(* behind the last but one.                                                   *)
Upto(t, p, f, j, ahead) == Len(t) = p + ahead /\ EndsWith(t, f, j)
Undisturbed(t, p, f) ==
  /\ f.at = "level" => p <= Len(t)
  /\ f.at = "level+" => Upto(t, p, f, 1, 1)
  /\ f.at = "time" => Upto(t, p, f, 1, 0)
  /\ f.at = "time+" => Upto(t, p, f, 2, 1)
  /\ f.at = "pid" => Upto(t, p, f, 2, 0)
  /\ f.at = "pid+" => Upto(t, p, f, 3, 1)
  /\ f.at = "message" => Upto(t, p, f, 3, 0)
  /\ f.at = "strerror" => f.err /\ Upto(t, p, f, 4, 1)
  /\ f.at = "write" => EndsWith(t, f, IF f.err THEN 5 ELSE 4)

(* Only the innermost call may be uncut; where it is about to clear the       *)
(* buffer, pos has been reset, by it or by the last handler that broke in.    *)
Whole(c) == c.n > 0 /\ ~c.cut /\ c.sound
LogParts ==
  /\ text \in Seq(Words) /\ record.parts \in Seq(Words)
  /\ \A k \in 1..(Len(frames) - 1) : frames[k].cut
  /\ frames # <<>> /\ Top.sound /\ ~Top.cut => Undisturbed(String(text), pos, Top)
  /\ frames # <<>> /\ allOK /\ Top.at = "clear" => pos = 0
  /\ Whole(record.by) => EndsWith(String(record.parts), record.by, IF record.by.err THEN 5 ELSE 4)
LogIInv == LogTypeOK /\ LogParts /\ CleanWhenIdle
-----------------------------------------------------------------------------
(* log begins so: the buffer is clean.                                        *)
LEMMA LogInitInv == LogInit => LogIInv
<1> SUFFICES ASSUME LogInit PROVE LogIInv
  OBVIOUS
<1>1. text = <<>> /\ frames = <<>> /\ record.parts = <<>> /\ Len(frames) = 0
  BY DEF LogInit
<1>2. record.by \in FrameType /\ record.by.n = 0
  BY LogAssumption DEF LogInit, Frame, FrameType, Steps, Main
<1>3. LogTypeOK
  <2>1. frames \in Seq(FrameType)
    BY <1>1, EmptySeq
  <2>2. pos \in Nat /\ allOK \in BOOLEAN /\ logCalls \in 0..MaxLogCalls /\ logFails \in 0..MaxLogFails
    BY LogAssumption DEF LogInit
  <2> QED BY <1>2, <2>1, <2>2 DEF LogTypeOK
<1>4. text \in Seq(Words) /\ record.parts \in Seq(Words)
  BY <1>1, EmptySeq
<1>5. LogParts
  <2>1. \A k \in 1..(Len(frames) - 1) : frames[k].cut
    BY <1>1
  <2>2. ~Whole(record.by)
    BY <1>2 DEF Whole
  <2> QED BY <1>1, <1>4, <2>1, <2>2 DEF LogParts
<1>6. CleanWhenIdle
  BY DEF LogInit, CleanWhenIdle
<1> QED BY <1>3, <1>5, <1>6 DEF LogIInv

(* The innermost call goes on: the others are as they were.                   *)
LEMMA LogGoOn ==
  ASSUME LogTypeOK, frames # <<>>, NEW step \in Steps, GoOn(step)
  PROVE  /\ frames' \in Seq(FrameType) /\ Len(frames') = Len(frames) /\ Len(frames) \in Nat \ {0}
         /\ \A k \in 1..(Len(frames) - 1) : frames'[k] = frames[k]
         /\ frames' # <<>> /\ Top \in FrameType /\ Top' = [Top EXCEPT !.at = step]
<1>1. Len(frames) \in Nat \ {0} /\ frames \in [1..Len(frames) -> FrameType]
  BY LenProperties, EmptySeq DEF LogTypeOK
<1>2. frames[Len(frames)] \in FrameType
  BY <1>1
<1>3. [frames[Len(frames)] EXCEPT !.at = step] \in FrameType
  BY <1>2 DEF FrameType
<1>4. frames' = [frames EXCEPT ![Len(frames)] = [frames[Len(frames)] EXCEPT !.at = step]]
  BY DEF GoOn
<1>5. frames' \in Seq(FrameType) /\ Len(frames') = Len(frames)
  BY <1>1, <1>3, <1>4, ExceptSeq DEF LogTypeOK
<1> QED BY <1>1, <1>2, <1>4, <1>5 DEF Top, Last

(* The innermost call is over: the others remain, and are cut.               *)
LEMMA LogReturn ==
  ASSUME LogTypeOK, frames # <<>>, frames' = Front(frames)
  PROVE  /\ frames' \in Seq(FrameType) /\ Len(frames') = Len(frames) - 1 /\ Len(frames) \in Nat \ {0}
         /\ \A k \in 1..Len(frames') : frames'[k] = frames[k]
         /\ frames' # <<>> => Top' = frames[Len(frames) - 1] /\ Len(frames) - 1 \in 1..(Len(frames) - 1)
<1>1. Len(frames) \in Nat \ {0} /\ \A k \in 1..Len(frames) : frames[k] \in FrameType
  BY LenProperties, EmptySeq, ElementOfSeq DEF LogTypeOK
<1>2. /\ frames' \in Seq(FrameType) /\ Len(frames') = Len(frames) - 1
      /\ \A k \in 1..(Len(frames) - 1) : frames'[k] = frames[k]
  <2> DEFINE n == Len(frames) - 1
  <2>1. frames' = SubSeq(frames, 1, n)
    BY DEF Front
  <2>2. n \in Nat /\ \A k \in 1..n : frames[k] \in FrameType
    BY <1>1
  <2> HIDE DEF n
  <2>3. /\ SubSeq(frames, 1, n) \in Seq(FrameType)
        /\ Len(SubSeq(frames, 1, n)) = IF 1 <= n THEN n - 1 + 1 ELSE 0
        /\ \A v \in 1..(n - 1 + 1) : SubSeq(frames, 1, n)[v] = frames[1 + v - 1]
    BY <2>2, SubSeqProperties
  <2>4. n - 1 + 1 = n /\ (~(1 <= n) => n = 0) /\ \A v \in 1..n : 1 + v - 1 = v
    BY <2>2
  <2>5. Len(frames') = n /\ frames' \in Seq(FrameType) /\ \A k \in 1..n : frames'[k] = frames[k]
    BY <2>1, <2>3, <2>4
  <2> QED BY <2>5 DEF n
<1>3. frames' # <<>> => Top' = frames[Len(frames) - 1] /\ Len(frames) - 1 \in 1..(Len(frames) - 1)
  <2> SUFFICES ASSUME frames' # <<>> PROVE Top' = frames[Len(frames) - 1] /\ Len(frames) - 1 \in 1..(Len(frames) - 1)
    OBVIOUS
  <2>1. Len(frames') # 0
    BY <1>2, EmptySeq
  <2>2. Len(frames) - 1 \in 1..(Len(frames) - 1)
    BY <1>1, <1>2, <2>1
  <2> QED BY <1>2, <2>2 DEF Top, Last
<1> QED BY <1>1, <1>2, <1>3

(* A string goes up to the first zero byte, if there is one.                  *)
LEMMA LogString ==
  ASSUME NEW t \in Seq(Words)
  PROVE  /\ String(t) \in Seq(Words) /\ Len(String(t)) \in Nat /\ Len(String(t)) <= Len(t)
         /\ \A k \in 1..Len(String(t)) : String(t)[k] = t[k] /\ t[k] # Nul
         /\ Len(String(t)) < Len(t) => t[Len(String(t)) + 1] = Nul
<1>1. Len(t) \in Nat /\ DOMAIN t = 1..Len(t) /\ \A k \in 1..Len(t) : t[k] \in Words
  BY LenProperties, ElementOfSeq
<1>2. CASE \A k \in DOMAIN t : t[k] # Nul
  <2>1. String(t) = t
    BY <1>2 DEF String
  <2> QED BY <1>1, <1>2, <2>1
<1>3. CASE \E k \in DOMAIN t : t[k] = Nul
  <2> DEFINE Zeros == {k \in 1..Len(t) : t[k] = Nul}
             z == CHOOSE k \in DOMAIN t : t[k] = Nul /\ \A j \in 1..(k - 1) : t[j] # Nul
  <2>1. Zeros \in SUBSET Nat /\ Zeros # {}
    BY <1>1, <1>3
  <2>2. PICK x \in Zeros : \A y \in Zeros : x <= y
    BY <2>1, LeastOfSet
  <2>3. \A j \in 1..(x - 1) : t[j] # Nul
    <3> SUFFICES ASSUME NEW j \in 1..(x - 1), t[j] = Nul PROVE FALSE
      OBVIOUS
    <3>1. x \in 1..Len(t) /\ j \in 1..Len(t) /\ j < x /\ j \in Int /\ x \in Int
      BY <1>1
    <3>2. j \in Zeros
      BY <3>1
    <3> QED BY <2>2, <3>1, <3>2
  <2>4. x \in DOMAIN t /\ t[x] = Nul
    BY <1>1
  <2>5. z \in DOMAIN t /\ t[z] = Nul /\ \A j \in 1..(z - 1) : t[j] # Nul
    BY <2>3, <2>4
  <2>6. String(t) = SubSeq(t, 1, z - 1)
    BY <1>3 DEF String
  <2> HIDE DEF z, Zeros
  <2>7. \A v \in 1..(z - 1) : t[v] \in Words
    BY <1>1, <2>5
  <2>8. z \in 1..Len(t) /\ z - 1 \in Nat /\ z \in Int
    BY <1>1, <2>5
  <2>9. /\ SubSeq(t, 1, z - 1) \in Seq(Words)
        /\ Len(SubSeq(t, 1, z - 1)) = IF 1 <= z - 1 THEN z - 1 - 1 + 1 ELSE 0
        /\ \A v \in 1..(z - 1 - 1 + 1) : SubSeq(t, 1, z - 1)[v] = t[1 + v - 1]
    BY <2>7, <2>8, SubSeqProperties
  <2>10. z - 1 - 1 + 1 = z - 1 /\ (~(1 <= z - 1) => z - 1 = 0) /\ \A v \in 1..(z - 1) : 1 + v - 1 = v
    BY <2>8
  <2>11. String(t) \in Seq(Words) /\ Len(String(t)) = z - 1 /\ \A v \in 1..(z - 1) : String(t)[v] = t[v]
    BY <2>6, <2>9, <2>10
  <2>12. Len(String(t)) + 1 = z /\ Len(String(t)) <= Len(t)
    BY <1>1, <2>8, <2>11
  <2> QED BY <2>5, <2>8, <2>11, <2>12
<1> QED BY <1>2, <1>3

(* sprintf leaves a text.                                                     *)
LEMMA LogPaste ==
  ASSUME text \in Seq(Words), NEW n \in Nat, NEW part \in Words, text' = PasteAt(n, part)
  PROVE  /\ text' \in Seq(Words) /\ Len(text') \in Nat /\ Len(text') >= n + 2
         /\ text'[n + 1] = part /\ text'[n + 2] = Nul
         /\ \A k \in 1..n : k <= Len(text) => text'[k] = text[k]
<1> DEFINE m == IF Len(text) > n + 2 THEN Len(text) ELSE n + 2
<1>1. Len(text) \in Nat /\ \A k \in 1..Len(text) : text[k] \in Words
  BY LenProperties, ElementOfSeq
<1>2. Nul \in Words /\ m \in Nat /\ m >= n + 2
  BY <1>1 DEF Words
<1>3. text' = [k \in 1..m |-> IF k = n + 1 THEN part ELSE IF k = n + 2 \/ k > Len(text) THEN Nul ELSE text[k]]
  BY DEF PasteAt
<1> HIDE DEF m
<1>4. \A k \in 1..m : text'[k] = IF k = n + 1 THEN part ELSE IF k = n + 2 \/ k > Len(text) THEN Nul ELSE text[k]
  BY <1>2, <1>3
<1>5. text' \in [1..m -> Words]
  BY <1>1, <1>2, <1>3, <1>4
<1>6. text' \in Seq(Words) /\ Len(text') = m
  BY <1>2, <1>5, LenProperties, SeqDef
<1> QED BY <1>1, <1>2, <1>4, <1>6

(* Where n is not beyond the string, that string now goes on with the part,   *)
(* and ends.                                                                  *)
LEMMA LogPasteEnds ==
  ASSUME text \in Seq(Words), NEW n \in Nat, n <= Len(String(text)),
         NEW part \in Words, part # Nul, text' = PasteAt(n, part)
  PROVE  /\ String(text') \in Seq(Words) /\ Len(String(text')) = n + 1 /\ String(text')[n + 1] = part
         /\ \A k \in 1..n : String(text')[k] = String(text)[k]
<1>1. /\ Len(String(text)) \in Nat /\ Len(String(text)) <= Len(text) /\ Len(text) \in Nat
      /\ \A k \in 1..Len(String(text)) : String(text)[k] = text[k] /\ text[k] # Nul
  BY LogString, LenProperties
<1>2. /\ text' \in Seq(Words) /\ Len(text') \in Nat /\ Len(text') >= n + 2
      /\ text'[n + 1] = part /\ text'[n + 2] = Nul
      /\ \A k \in 1..n : k <= Len(text) => text'[k] = text[k]
  BY LogPaste
<1> DEFINE s == String(text')
<1>3. /\ s \in Seq(Words) /\ Len(s) \in Nat /\ Len(s) <= Len(text')
      /\ \A k \in 1..Len(s) : s[k] = text'[k] /\ text'[k] # Nul
      /\ Len(s) < Len(text') => text'[Len(s) + 1] = Nul
  BY <1>2, LogString
<1> HIDE DEF s
<1>4. \A k \in 1..n : text'[k] = String(text)[k] /\ text'[k] # Nul
  BY <1>1, <1>2
<1>5. ~ (Len(s) < n + 1)
  <2> SUFFICES ASSUME Len(s) < n + 1 PROVE FALSE
    OBVIOUS
  <2>1. text'[Len(s) + 1] = Nul /\ Len(s) + 1 \in 1..(n + 1)
    BY <1>2, <1>3
  <2>2. Len(s) + 1 = n + 1 \/ Len(s) + 1 \in 1..n
    BY <1>3, <2>1
  <2> QED BY <1>2, <1>4, <2>1, <2>2
<1>6. ~ (Len(s) > n + 1)
  <2> SUFFICES ASSUME Len(s) > n + 1 PROVE FALSE
    OBVIOUS
  <2>1. n + 2 \in 1..Len(s)
    BY <1>3
  <2> QED BY <1>2, <1>3, <2>1
<1>7. Len(s) = n + 1
  BY <1>3, <1>5, <1>6
<1>8. s[n + 1] = part /\ \A k \in 1..n : s[k] = String(text)[k]
  BY <1>2, <1>3, <1>4, <1>7
<1> QED BY <1>3, <1>7, <1>8 DEF s

(* A part is no zero byte, and tells the call and the kind.                         *)
LEMMA LogWord ==
  ASSUME NEW n \in 0..MaxLogCalls, NEW step \in Steps
  PROVE  Part(n, step) \in Words /\ Part(n, step) # Nul
<1>1. <<step, n>> # <<"nul">>
  <2>1. DOMAIN <<step, n>> = {1, 2} /\ DOMAIN <<"nul">> = {1}
    OBVIOUS
  <2> QED BY <2>1
<1> QED BY <1>1 DEF Part, Words, Nul

(* The order in which a call writes its parts.                                *)
LEMMA LogKinds == /\ Kinds[1] = "level" /\ Kinds[2] = "time" /\ Kinds[3] = "pid"
                  /\ Kinds[4] = "message" /\ Kinds[5] = "strerror"
BY DEF Kinds

(* Pasting the next part behind those that are there.                        *)
LEMMA LogNextPart ==
  ASSUME LogTypeOK, text \in Seq(Words), NEW f \in FrameType, NEW g \in FrameType, g.n = f.n,
         NEW j \in 1..4, j # 1 => Upto(String(text), pos, f, j - 1, 0),
         pos <= Len(String(text)), text' = PasteAt(pos, Part(f.n, Kinds[j]))
  PROVE  Upto(String(text'), pos, g, j, 1)
<1> DEFINE s == String(text)
           t == String(text')
<1>1. f.n \in 0..MaxLogCalls /\ Kinds[j] \in Steps
  BY LogKinds DEF FrameType, Steps
<1>2. Part(f.n, Kinds[j]) \in Words /\ Part(f.n, Kinds[j]) # Nul
  BY <1>1, LogWord
<1>3. pos \in Nat
  BY DEF LogTypeOK
<1>4. /\ Len(t) = pos + 1 /\ t[pos + 1] = Part(f.n, Kinds[j])
      /\ \A k \in 1..pos : t[k] = s[k]
  BY <1>2, <1>3, LogPasteEnds
<1>5. Len(s) \in Nat /\ (j # 1 => Upto(s, pos, f, j - 1, 0))
  BY LogString
<1> HIDE DEF s, t
<1>6. j <= pos + 1
  BY <1>3, <1>5 DEF Upto, EndsWith
<1>7. ASSUME NEW k \in 1..j PROVE t[pos + 1 - j + k] = Part(g.n, Kinds[k])
  <2>1. CASE k = j
    <3>1. pos + 1 - j + k = pos + 1
      BY <2>1, <1>3
    <3> QED BY <2>1, <3>1, <1>4
  <2>2. CASE k # j
    <3>1. /\ k \in 1..(j - 1) /\ j # 1 /\ pos + 1 - j + k \in 1..pos
          /\ pos + 1 - j + k = Len(s) - (j - 1) + k
      BY <2>2, <1>3, <1>5, <1>6 DEF Upto
    <3>2. s[Len(s) - (j - 1) + k] = Part(f.n, Kinds[k])
      BY <3>1, <1>5 DEF Upto, EndsWith
    <3> QED BY <3>1, <3>2, <1>4
  <2> QED BY <2>1, <2>2
<1>8. Upto(t, pos, g, j, 1)
  <2>1. Len(t) \in Nat
    BY <1>3, <1>4
  <2> QED BY <1>3, <1>4, <1>6, <1>7, <2>1 DEF Upto, EndsWith
<1> QED BY <1>8 DEF t

(* Whatever step the innermost call takes, only what it leaves in buf needs   *)
(* to be looked at.                                                           *)
LEMMA LogOneStep ==
  ASSUME LogIInv, frames # <<>>, NEW step \in Steps, GoOn(step),
         pos' \in Nat, text' \in Seq(Words), UNCHANGED <<record, allOK, logCalls, logFails>>,
         Top.sound /\ ~Top.cut => Undisturbed(String(text'), pos', Top'),
         step = "clear" /\ allOK => pos' = 0
  PROVE  LogIInv'
<1>1. /\ frames' \in Seq(FrameType) /\ Len(frames') = Len(frames) /\ Len(frames) \in Nat \ {0}
      /\ \A k \in 1..(Len(frames) - 1) : frames'[k] = frames[k]
      /\ frames' # <<>> /\ Top \in FrameType /\ Top' = [Top EXCEPT !.at = step]
  BY LogGoOn DEF LogIInv
<1>2. LogTypeOK'
  BY <1>1 DEF LogIInv, LogTypeOK
<1>3. Top'.sound = Top.sound /\ Top'.cut = Top.cut /\ Top'.at = step
  BY <1>1 DEF FrameType
<1>4. \A k \in 1..(Len(frames') - 1) : frames'[k].cut
  BY <1>1 DEF LogIInv, LogParts
<1>5. LogParts'
  BY <1>3, <1>4 DEF LogIInv, LogParts
<1> QED BY <1>1, <1>2, <1>5 DEF LogIInv, CleanWhenIdle

(* get_log_level, get_time, paste_pid and vsnprintf.                          *)
LEMMA LogPastes ==
  ASSUME LogIInv, NEW j \in 1..4, NEW after \in Steps, Paste(Kinds[j], after),
         \/ j = 1 /\ after = "level+"
         \/ j = 2 /\ after = "time+"
         \/ j = 3 /\ after = "pid+"
         \/ j = 4 /\ after = IF Top.err THEN "strerror" ELSE "write"
  PROVE  LogIInv'
<1>1. frames # <<>> /\ Top.at = Kinds[j] /\ GoOn(after) /\ pos' = pos
      /\ text' = PasteAt(pos, Part(Top.n, Kinds[j]))
  BY DEF Paste, At
<1>2. Top \in FrameType /\ Top' \in FrameType /\ Top' = [Top EXCEPT !.at = after]
  BY <1>1, LogGoOn DEF LogIInv, FrameType
<1>3. Top'.n = Top.n /\ Top'.at = after /\ Top'.err = Top.err /\ Top.n \in 0..MaxLogCalls
  BY <1>2 DEF FrameType
<1>4. pos \in Nat /\ text \in Seq(Words) /\ Len(text) \in Nat
  BY LenProperties DEF LogIInv, LogParts, LogTypeOK
<1>5. text' \in Seq(Words)
  <2>1. Part(Top.n, Kinds[j]) \in Words
    BY <1>3, LogWord, LogKinds DEF Steps
  <2> QED BY <1>1, <1>4, <2>1, LogPaste
<1>6. ASSUME Top.sound, ~Top.cut PROVE Undisturbed(String(text'), pos', Top')
  <2>1. Undisturbed(String(text), pos, Top)
    BY <1>1, <1>6 DEF LogIInv, LogParts
  <2>2. (j # 1 => Upto(String(text), pos, Top, j - 1, 0)) /\ pos <= Len(String(text))
    <3>1. CASE j = 1
      BY <2>1, <3>1, <1>1, LogKinds DEF Undisturbed
    <3>2. CASE j # 1
      <4>1. Upto(String(text), pos, Top, j - 1, 0)
        BY <2>1, <3>2, <1>1, LogKinds DEF Undisturbed
      <4> QED BY <4>1, <1>4 DEF Upto
    <3> QED BY <3>1, <3>2
  <2>3. Upto(String(text'), pos, Top', j, 1)
    BY <1>1, <1>2, <1>3, <1>4, <2>2, LogNextPart DEF LogIInv
  <2>4. EndsWith(String(text'), Top', j)
    BY <2>3 DEF Upto
  <2> QED BY <1>1, <1>3, <2>3, <2>4 DEF Undisturbed
<1>7. after # "clear"
  BY <1>2
<1> QED BY <1>1, <1>4, <1>5, <1>6, <1>7, LogOneStep DEF Paste

(* The position follows.                                                      *)
LEMMA LogAdvances ==
  ASSUME LogIInv, NEW step \in Steps, NEW after \in Steps, Advance(step, after),
         \/ step = "level+" /\ after = "time"
         \/ step = "time+" /\ after = "pid"
         \/ step = "pid+" /\ after = "message"
  PROVE  LogIInv'
<1>1. frames # <<>> /\ Top.at = step /\ GoOn(after) /\ pos' = pos + 1 /\ text' = text
  BY DEF Advance, At
<1>2. Top \in FrameType /\ Top' = [Top EXCEPT !.at = after]
  BY <1>1, LogGoOn DEF LogIInv
<1>3. Top'.n = Top.n /\ Top'.at = after
  BY <1>2 DEF FrameType
<1>4. pos \in Nat /\ text \in Seq(Words) /\ Len(text) \in Nat
  BY LenProperties DEF LogIInv, LogParts, LogTypeOK
<1>5. ASSUME Top.sound, ~Top.cut PROVE Undisturbed(String(text'), pos', Top')
  <2>1. Undisturbed(String(text), pos, Top)
    BY <1>1, <1>5 DEF LogIInv, LogParts
  <2>2. ASSUME NEW j \in 1..3, Upto(String(text), pos, Top, j, 1) PROVE Upto(String(text'), pos', Top', j, 0)
    <3>1. EndsWith(String(text'), Top', j)
      BY <2>2, <1>1, <1>3 DEF Upto, EndsWith
    <3> QED BY <2>2, <3>1, <1>1, <1>4 DEF Upto
  <2> QED BY <1>1, <1>3, <2>1, <2>2 DEF Undisturbed
<1>6. after # "clear"
  OBVIOUS
<1> QED BY <1>1, <1>4, <1>5, <1>6, LogOneStep DEF Advance

(* An error's text goes behind the string that is there.                      *)
LEMMA LogError ==
  ASSUME LogIInv, Strerror
  PROVE  LogIInv'
<1> DEFINE s == String(text)
           t == String(text')
           w == Part(Top.n, "strerror")
<1>1. /\ frames # <<>> /\ Top.at = "strerror" /\ GoOn("write") /\ pos' = pos
      /\ text' = PasteAt(Len(s), w)
  BY DEF Strerror, At
<1>2. Top \in FrameType /\ Top' = [Top EXCEPT !.at = "write"]
  BY <1>1, LogGoOn DEF LogIInv, Steps
<1>3. Top'.n = Top.n /\ Top'.at = "write" /\ Top'.err = Top.err /\ Top.n \in 0..MaxLogCalls
  BY <1>2 DEF FrameType
<1>4. pos \in Nat /\ text \in Seq(Words) /\ Len(s) \in Nat
  BY LogString DEF LogIInv, LogParts, LogTypeOK
<1>5. w \in Words /\ w # Nul
  BY <1>3, LogWord DEF Steps
<1>6. text' \in Seq(Words)
  BY <1>1, <1>4, <1>5, LogPaste
<1>7. Len(t) = Len(s) + 1 /\ t[Len(s) + 1] = w /\ \A k \in 1..Len(s) : t[k] = s[k]
  <2>1. Len(s) <= Len(s)
    BY <1>4
  <2> QED BY <1>1, <1>4, <1>5, <2>1, LogPasteEnds
<1>8. ASSUME Top.sound, ~Top.cut PROVE Undisturbed(t, pos', Top')
  <2>1. Top.err /\ Upto(s, pos, Top, 4, 1)
    BY <1>1, <1>8 DEF LogIInv, LogParts, Undisturbed
  <2> HIDE DEF s, t
  <2>2. 4 <= Len(s) /\ \A k \in 1..4 : s[Len(s) - 4 + k] = Part(Top.n, Kinds[k])
    BY <2>1 DEF Upto, EndsWith
  <2>3. ASSUME NEW k \in 1..5 PROVE t[Len(t) - 5 + k] = Part(Top'.n, Kinds[k])
    <3>1. CASE k = 5
      <4>1. Len(t) - 5 + k = Len(s) + 1
        BY <3>1, <1>4, <1>7
      <4> QED BY <3>1, <4>1, <1>3, <1>7, LogKinds
    <3>2. CASE k # 5
      <4>1. k \in 1..4 /\ Len(t) - 5 + k = Len(s) - 4 + k /\ Len(s) - 4 + k \in 1..Len(s)
        BY <3>2, <1>4, <1>7, <2>2
      <4> QED BY <4>1, <1>3, <1>7, <2>2
    <3> QED BY <3>1, <3>2
  <2>4. EndsWith(t, Top', 5)
    BY <1>4, <1>7, <2>2, <2>3 DEF EndsWith
  <2> QED BY <1>3, <2>1, <2>4 DEF Undisturbed
<1> QED BY <1>1, <1>4, <1>6, <1>8, LogOneStep DEF Strerror, Steps

(* A call that returns leaves those below as they were: they are cut.         *)
LEMMA LogReturns ==
  ASSUME LogIInv, frames # <<>>, frames' = Front(frames),
         text' \in Seq(Words), UNCHANGED pos, allOK' \in BOOLEAN, logCalls' = logCalls,
         logFails' \in 0..MaxLogFails,
         allOK' => pos = 0 /\ text' = <<>>,
         \/ record' = record
         \/ record' = [parts |-> text, by |-> Top] /\ Top.at = "write"
  PROVE  LogIInv'
<1>1. /\ frames' \in Seq(FrameType) /\ Len(frames') = Len(frames) - 1 /\ Len(frames) \in Nat \ {0}
      /\ \A k \in 1..Len(frames') : frames'[k] = frames[k]
      /\ frames' # <<>> => Top' = frames[Len(frames) - 1] /\ Len(frames) - 1 \in 1..(Len(frames) - 1)
  BY LogReturn DEF LogIInv
<1>2. Top \in FrameType
  BY <1>1, ElementOfSeq DEF Top, Last, LogIInv, LogTypeOK
<1>3. /\ record'.by \in FrameType /\ record'.parts \in Seq(Words)
      /\ Whole(record'.by) => EndsWith(String(record'.parts), record'.by, IF record'.by.err THEN 5 ELSE 4)
  <2>1. CASE record' = record
    BY <2>1 DEF LogIInv, LogParts, LogTypeOK
  <2>2. CASE record' = [parts |-> text, by |-> Top] /\ Top.at = "write"
    <3>1. record'.by = Top /\ record'.parts = text
      BY <2>2
    <3>2. Whole(Top) => EndsWith(String(text), Top, IF Top.err THEN 5 ELSE 4)
      BY <2>2 DEF LogIInv, LogParts, Undisturbed, Whole
    <3> QED BY <1>2, <3>1, <3>2 DEF LogIInv, LogParts
  <2> QED BY <2>1, <2>2
<1>4. LogTypeOK'
  BY <1>1, <1>3 DEF LogIInv, LogTypeOK
<1>5. (\A k \in 1..(Len(frames') - 1) : frames'[k].cut) /\ (frames' # <<>> => Top'.cut)
  <2>1. \A k \in 1..(Len(frames) - 1) : frames[k].cut
    BY DEF LogIInv, LogParts
  <2> QED BY <1>1, <2>1
<1>6. LogParts'
  BY <1>3, <1>5 DEF LogParts
<1> QED BY <1>4, <1>6 DEF LogIInv, CleanWhenIdle

(* The record is written, or fails to be.                                     *)
LEMMA LogWrites ==
  ASSUME LogIInv, Write
  PROVE  LogIInv'
<1>1. frames # <<>> /\ Top.at = "write" /\ UNCHANGED <<text, pos, logCalls>>
  BY DEF Write, At
<1>2. text \in Seq(Words) /\ pos \in Nat
  BY DEF LogIInv, LogParts, LogTypeOK
<1>3. CASE Written /\ GoOn("pos") /\ UNCHANGED <<allOK, logFails>>
  <2>1. /\ frames' \in Seq(FrameType) /\ Len(frames') = Len(frames) /\ Len(frames) \in Nat \ {0}
        /\ \A k \in 1..(Len(frames) - 1) : frames'[k] = frames[k]
        /\ frames' # <<>> /\ Top \in FrameType /\ Top' = [Top EXCEPT !.at = "pos"]
    BY <1>1, <1>3, LogGoOn DEF LogIInv, Steps
  <2>2. Top'.at = "pos"
    BY <2>1 DEF FrameType
  <2>3. record'.by = Top /\ record'.parts = text
    BY <1>3 DEF Written
  <2>4. Whole(Top) => EndsWith(String(text), Top, IF Top.err THEN 5 ELSE 4)
    BY <1>1 DEF LogIInv, LogParts, Undisturbed, Whole
  <2>5. LogTypeOK'
    BY <1>1, <1>3, <2>1, <2>3 DEF LogIInv, LogTypeOK
  <2>6. \A k \in 1..(Len(frames') - 1) : frames'[k].cut
    BY <2>1 DEF LogIInv, LogParts
  <2>7. LogParts'
    BY <1>1, <1>2, <2>2, <2>3, <2>4, <2>6 DEF LogParts, Undisturbed
  <2> QED BY <2>1, <2>5, <2>7 DEF LogIInv, CleanWhenIdle
<1>4. CASE Fail /\ (record' = record \/ Written)
  <2>1. logFails' \in 0..MaxLogFails
    BY <1>4, LogAssumption DEF Fail, LogIInv, LogTypeOK
  <2> QED BY <1>1, <1>2, <1>4, <2>1, LogReturns DEF Fail, Written
<1> QED BY <1>3, <1>4 DEF Write

(* A call begins: it is cut by nothing, and everything below it is.           *)
LEMMA LogBegins ==
  ASSUME LogIInv, NEW who \in {Main} \cup Handlers, NEW err \in BOOLEAN, Begin(who, err), allOK' \in BOOLEAN
  PROVE  LogIInv'
<1> DEFINE cuts == [k \in DOMAIN frames |-> [frames[k] EXCEPT !.cut = TRUE]]
           sound == pos = 0 \/ (frames # <<>> /\ allOK /\ Top.sound /\ pos <= Len(String(text)))
           f == Frame(who, logCalls + 1, err, sound)
<1>1. Len(frames) \in Nat /\ DOMAIN frames = 1..Len(frames) /\ \A k \in 1..Len(frames) : frames[k] \in FrameType
  BY LenProperties, ElementOfSeq DEF LogIInv, LogTypeOK
<1>2. cuts \in Seq(FrameType) /\ Len(cuts) = Len(frames)
  <2>1. \A k \in 1..Len(frames) : [frames[k] EXCEPT !.cut = TRUE] \in FrameType
    BY <1>1 DEF FrameType
  <2>2. cuts \in [1..Len(frames) -> FrameType]
    BY <1>1, <2>1
  <2> QED BY <1>1, <2>2, LenProperties, SeqDef
<1>3. \A k \in 1..Len(frames) : cuts[k].cut
  BY <1>1 DEF FrameType
<1>4. pos \in Nat /\ text \in Seq(Words) /\ Len(String(text)) \in Nat
  BY LogString DEF LogIInv, LogParts, LogTypeOK
<1>5. logCalls + 1 \in 0..MaxLogCalls /\ logCalls' = logCalls + 1
  BY LogAssumption DEF Begin, LogIInv, LogTypeOK
<1>6. /\ f \in FrameType /\ f.at = "level" /\ (f.sound => pos <= Len(String(text)))
  <2>1. sound \in BOOLEAN /\ (sound => pos <= Len(String(text)))
    BY <1>4
  <2> HIDE DEF sound
  <2> QED BY <1>5, <2>1 DEF Frame, FrameType, Steps
<1>7. frames' = Append(cuts, f)
  BY DEF Begin
<1> HIDE DEF cuts, f, sound
<1>8. /\ frames' \in Seq(FrameType) /\ Len(frames') = Len(frames) + 1 /\ frames' # <<>>
      /\ frames'[Len(frames) + 1] = f /\ \A k \in 1..Len(frames) : frames'[k] = cuts[k]
  BY <1>2, <1>6, <1>7, AppendProperties
<1>9. Top' = f
  BY <1>8 DEF Top, Last
<1>10. \A k \in 1..(Len(frames') - 1) : frames'[k].cut
  BY <1>1, <1>3, <1>8
<1>11. f.sound => Undisturbed(String(text), pos, f)
  BY <1>6 DEF Undisturbed
<1>12. LogTypeOK'
  BY <1>5, <1>8 DEF Begin, LogIInv, LogTypeOK
<1>13. LogParts'
  BY <1>6, <1>9, <1>10, <1>11 DEF Begin, LogIInv, LogParts
<1> QED BY <1>8, <1>12, <1>13 DEF LogIInv, CleanWhenIdle

(* Every step of the program keeps the invariant.                             *)
LEMMA LogNextInv == LogIInv /\ [LogNext]_logVars => LogIInv'
<1> SUFFICES ASSUME LogIInv, [LogNext]_logVars PROVE LogIInv'
  OBVIOUS
<1>1. ASSUME Paste("level", "level+") \/ Paste("time", "time+") \/ Paste("pid", "pid+") \/ PasteMessage
      PROVE  LogIInv'
  <2>1. CASE Paste("level", "level+")
    <3>1. Paste(Kinds[1], "level+") /\ "level+" \in Steps
      BY <2>1, LogKinds DEF Steps
    <3> QED BY <3>1, LogPastes
  <2>2. CASE Paste("time", "time+")
    <3>1. Paste(Kinds[2], "time+") /\ "time+" \in Steps
      BY <2>2, LogKinds DEF Steps
    <3> QED BY <3>1, LogPastes
  <2>3. CASE Paste("pid", "pid+")
    <3>1. Paste(Kinds[3], "pid+") /\ "pid+" \in Steps
      BY <2>3, LogKinds DEF Steps
    <3> QED BY <3>1, LogPastes
  <2>4. CASE PasteMessage
    <3>1. Paste(Kinds[4], IF Top.err THEN "strerror" ELSE "write")
      BY <2>4, LogKinds DEF PasteMessage
    <3>2. (IF Top.err THEN "strerror" ELSE "write") \in Steps
      BY DEF Steps
    <3> QED BY <3>1, <3>2, LogPastes
  <2> QED BY <1>1, <2>1, <2>2, <2>3, <2>4
<1>2. ASSUME Advance("level+", "time") \/ Advance("time+", "pid") \/ Advance("pid+", "message")
      PROVE  LogIInv'
  <2>1. CASE Advance("level+", "time")
    <3>1. "level+" \in Steps /\ "time" \in Steps
      BY DEF Steps
    <3> QED BY <2>1, <3>1, LogAdvances
  <2>2. CASE Advance("time+", "pid")
    <3>1. "time+" \in Steps /\ "pid" \in Steps
      BY DEF Steps
    <3> QED BY <2>2, <3>1, LogAdvances
  <2>3. CASE Advance("pid+", "message")
    <3>1. "pid+" \in Steps /\ "message" \in Steps
      BY DEF Steps
    <3> QED BY <2>3, <3>1, LogAdvances
  <2> QED BY <1>2, <2>1, <2>2, <2>3
<1>3. ASSUME ResetPos PROVE LogIInv'
  <2>1. frames # <<>> /\ GoOn("clear") /\ pos' = 0 /\ UNCHANGED <<text, record, allOK, logCalls, logFails>>
    BY <1>3 DEF ResetPos, At
  <2>2. Top' = [Top EXCEPT !.at = "clear"] /\ Top \in FrameType
    BY <2>1, LogGoOn DEF LogIInv, Steps
  <2>3. Undisturbed(String(text'), pos', Top')
    BY <2>2 DEF Undisturbed, FrameType
  <2> QED BY <2>1, <2>3, LogOneStep DEF LogIInv, LogParts, Steps
<1>4. ASSUME Clear PROVE LogIInv'
  <2>1. frames # <<>> /\ Top.at = "clear" /\ frames' = Front(frames) /\ text' = <<>>
    BY <1>4 DEF Clear, At
  <2>2. allOK => pos = 0
    BY <2>1 DEF LogIInv, LogParts
  <2>3. text' \in Seq(Words)
    BY <2>1, EmptySeq
  <2>4. /\ pos' = pos /\ record' = record /\ allOK' = allOK /\ logCalls' = logCalls
        /\ logFails' \in 0..MaxLogFails /\ allOK \in BOOLEAN
    BY <1>4 DEF Clear, LogIInv, LogTypeOK
  <2>5. (allOK' => pos = 0 /\ text' = <<>>) /\ allOK' \in BOOLEAN
    BY <2>1, <2>2, <2>4
  <2> QED BY <2>1, <2>3, <2>4, <2>5, LogReturns
<1>5. ASSUME NEW err \in BOOLEAN, CallLog(err) \/ \E h \in Handlers : Interrupt(h, err) PROVE LogIInv'
  BY <1>5, LogBegins DEF CallLog, Interrupt, LogIInv, LogTypeOK
<1>6. ASSUME UNCHANGED logVars PROVE LogIInv'
  <2>1. LogTypeOK'
    BY <1>6 DEF LogIInv, LogTypeOK, logVars
  <2>2. Top' = Top
    BY <1>6 DEF logVars, Top
  <2>3. LogParts'
    BY <1>6, <2>2 DEF LogIInv, LogParts, logVars
  <2> QED BY <1>6, <2>1, <2>3 DEF LogIInv, CleanWhenIdle, logVars
<1>7. CASE LogStep
  BY <1>7, <1>1, <1>2, <1>3, <1>4, LogError, LogWrites DEF LogStep
<1> QED BY <1>5, <1>6, <1>7 DEF LogNext

(* A list that is at the end of another is a suffix of it, by the definition  *)
(* of IsSuffix in SequencesExt.                                               *)
LEMMA EndIsSuffix ==
  ASSUME NEW S, NEW a \in Seq(S), NEW b \in Seq(S), Len(a) <= Len(b),
         \A k \in 1..Len(a) : b[Len(b) - Len(a) + k] = a[k]
  PROVE  IsSuffix(a, b)
<1> DEFINE n == Len(a)
           m == Len(b)
           ra == Reverse(a)
           rb == Reverse(b)
<1>1. n \in Nat /\ m \in Nat /\ n <= m /\ (\A k \in 1..n : a[k] \in S) /\ (\A k \in 1..m : b[k] \in S)
  BY LenProperties, ElementOfSeq
<1>2. /\ ra \in Seq(S) /\ Len(ra) = n /\ \A k \in 1..n : ra[k] = a[n - k + 1]
      /\ rb \in Seq(S) /\ Len(rb) = m /\ \A k \in 1..m : rb[k] = b[m - k + 1]
  <2>1. ra = [k \in 1..n |-> a[n - k + 1]] /\ rb = [k \in 1..m |-> b[m - k + 1]]
    BY DEF Reverse
  <2> HIDE DEF n, m, ra, rb
  <2>2. ra \in [1..n -> S] /\ rb \in [1..m -> S]
    BY <1>1, <2>1
  <2>3. ra \in Seq(S) /\ rb \in Seq(S)
    BY <1>1, <2>2, SeqDef
  <2>4. Len(ra) = n /\ Len(rb) = m
    <3>1. DOMAIN ra = 1..n /\ DOMAIN rb = 1..m
      BY <2>2
    <3> QED BY <1>1, <2>3, <3>1, LenProperties
  <2> QED BY <2>1, <2>3, <2>4
<1>3. \A k \in 1..n : ra[k] = rb[k]
  <2> SUFFICES ASSUME NEW k \in 1..n PROVE ra[k] = rb[k]
    OBVIOUS
  <2>1. n - k + 1 \in 1..n /\ m - n + (n - k + 1) = m - k + 1 /\ k \in 1..m
    BY <1>1
  <2>2. b[m - n + (n - k + 1)] = a[n - k + 1]
    BY <2>1
  <2> QED BY <1>2, <2>1, <2>2
<1> HIDE DEF n, m, ra, rb
<1>4. (\A k \in 1..n : ra[k] \in S) /\ (\A k \in 1..n : rb[k] \in S)
  BY <1>1, <1>2, ElementOfSeq
<1>5. SubSeq(ra, 1, n) = SubSeq(rb, 1, n)
  <2> DEFINE sa == SubSeq(ra, 1, n)
             sb == SubSeq(rb, 1, n)
  <2>1. /\ sa \in Seq(S) /\ Len(sa) = IF 1 <= n THEN n - 1 + 1 ELSE 0
        /\ \A v \in 1..(n - 1 + 1) : sa[v] = ra[1 + v - 1]
        /\ sb \in Seq(S) /\ Len(sb) = IF 1 <= n THEN n - 1 + 1 ELSE 0
        /\ \A v \in 1..(n - 1 + 1) : sb[v] = rb[1 + v - 1]
    BY <1>1, <1>4, SubSeqProperties
  <2>2. n - 1 + 1 = n /\ \A v \in 1..n : 1 + v - 1 = v
    BY <1>1
  <2> HIDE DEF sa, sb
  <2>3. Len(sa) = Len(sb) /\ \A v \in 1..Len(sa) : sa[v] = sb[v]
    <3>1. Len(sa) = n /\ Len(sb) = n
      BY <1>1, <2>1
    <3> SUFFICES ASSUME NEW v \in 1..n PROVE sa[v] = sb[v]
      BY <3>1
    <3>2. sa[v] = ra[v] /\ sb[v] = rb[v]
      BY <2>1, <2>2
    <3> QED BY <1>3, <3>2
  <2>4. sa = sb
    BY <2>1, <2>3, SeqEqual
  <2> QED BY <2>4 DEF sa, sb
<1>6. IsPrefix(ra, rb)
  BY <1>1, <1>2, <1>5 DEF IsPrefix
<1> QED BY <1>6 DEF IsSuffix, ra, rb

(* The parts of a call that was not cut end its record.                       *)
LEMMA LogWhole == LogIInv => UncutRecordWhole
<1> SUFFICES ASSUME LogIInv, Whole(record.by) PROVE IsSuffix(PartsOf(record.by), String(record.parts))
  BY DEF UncutRecordWhole, Whole
<1> DEFINE c == record.by
           j == IF c.err THEN 5 ELSE 4
           p == PartsOf(c)
           s == String(record.parts)
<1>1. c \in FrameType /\ s \in Seq(Words) /\ EndsWith(s, c, j)
  BY LogString DEF LogIInv, LogTypeOK, LogParts
<1>2. j \in 4..5 /\ c.n \in 0..MaxLogCalls
  BY <1>1 DEF FrameType
<1>3. p = [k \in 1..j |-> Part(c.n, Kinds[k])]
  BY DEF PartsOf
<1> HIDE DEF p, j, c, s
<1>4. \A k \in 1..j : Part(c.n, Kinds[k]) \in Words
  <2>1. \A k \in 1..5 : Kinds[k] \in Steps
    BY LogKinds DEF Steps
  <2> QED BY <1>2, <2>1, LogWord
<1>5. p \in Seq(Words) /\ Len(p) = j /\ \A k \in 1..j : p[k] = Part(c.n, Kinds[k])
  <2>1. p \in [1..j -> Words]
    BY <1>3, <1>4
  <2>2. j \in Nat
    BY <1>2
  <2> QED BY <1>3, <2>1, <2>2, LenProperties, SeqDef
<1>6. Len(p) <= Len(s) /\ \A k \in 1..Len(p) : s[Len(s) - Len(p) + k] = p[k]
  BY <1>1, <1>5 DEF EndsWith
<1>7. IsSuffix(p, s)
  BY <1>1, <1>5, <1>6, EndIsSuffix
<1> QED BY <1>7 DEF p, c, s
-----------------------------------------------------------------------------
(* The programs side by side: whichever runs, each part's invariant holds.    *)
ExercisesIInv ==
  /\ program \in Programs
  /\ MsgIInv /\ PipeIInv /\ ListIInv /\ RegistryIInv
  /\ LockIInv /\ LogIInv /\ BizzIInv /\ PrintIInv

(* Each program begins with its part of the invariant.                        *)
LEMMA ExercisesInit == Init => ExercisesIInv
<1> SUFFICES ASSUME Init PROVE ExercisesIInv
  OBVIOUS
<1>1. \A p, found : found # {} => IfRuns(p, found) \in SUBSET found
  BY DEF IfRuns
<1>2. MsgIInv
  <2>1. LeftOver # {}
    BY DEF LeftOver
  <2>2. MsgInit(IfRuns("msg", LeftOver)) /\ IfRuns("msg", LeftOver) \in SUBSET LeftOver
    BY <1>1, <2>1 DEF Init
  <2> QED BY <2>2, MsgInitInv
<1>3. PipeIInv
  <2>1. PipeInit(IfRuns("grep", Pipelines)) /\ IfRuns("grep", Pipelines) \in SUBSET Pipelines
    BY <1>1, PipelineAssumption DEF Init
  <2> QED BY <2>1, PipeInitInv
<1>4. BizzIInv
  BY BizzInitInv
<1>5. program \in Programs /\ ListIInv /\ RegistryIInv /\ LockIInv /\ LogIInv /\ PrintIInv
  BY ListInitInv, RegistryInitInv, LockInitInv, LogInitInv, PrintInitInv DEF Init
<1> QED BY <1>2, <1>3, <1>4, <1>5 DEF ExercisesIInv

(* A step of one program is a step of its own part, and leaves the others.    *)
LEMMA OneProgram ==
  ASSUME [Next]_vars
  PROVE  /\ program' = program /\ [MsgNext]_msgVars /\ [PipeNext]_pipeVars
         /\ [ListNext]_listVars
         /\ IF program = "modules" THEN [RegistryNext]_<<listVars, registryVars>> ELSE UNCHANGED registryVars
         /\ [LockNext]_lockVars /\ [LogNext]_logVars /\ [PrintNext]_printVars
         /\ IF program = "bizzbuzz" THEN [Transfer]_bizzVars ELSE UNCHANGED bizzVars
<1>1. CASE UNCHANGED vars
  BY <1>1 DEF vars
<1>2. CASE RunMsg
  BY <1>2 DEF RunMsg
<1>3. CASE RunGrep
  BY <1>3 DEF RunGrep
<1>4. CASE RunList
  BY <1>4 DEF RunList
<1>5. CASE RunModules
  BY <1>5, RegistryLists DEF RunModules
<1>6. CASE RunFlocks
  BY <1>6 DEF RunFlocks
<1>7. CASE RunLog
  BY <1>7 DEF RunLog
<1>8. CASE RunBizzbuzz
  BY <1>8 DEF RunBizzbuzz
<1>9. CASE RunPrint
  BY <1>9 DEF RunPrint
<1> QED BY <1>1, <1>2, <1>3, <1>4, <1>5, <1>6, <1>7, <1>8, <1>9 DEF Next

(* Every step keeps it.                                                       *)
LEMMA ExercisesNext == ExercisesIInv /\ [Next]_vars => ExercisesIInv'
<1> SUFFICES ASSUME ExercisesIInv, [Next]_vars PROVE ExercisesIInv'
  OBVIOUS
<1> USE DEF ExercisesIInv
<1>1. program' \in Programs
  BY OneProgram
<1>2. MsgIInv' /\ PipeIInv'
  BY OneProgram, MsgNextInv, PipeNextInv
<1>3. ListIInv' /\ RegistryIInv'
  BY OneProgram, ListStep, RegistryNextInv
<1>4. LockIInv' /\ LogIInv'
  BY OneProgram, LockNextInv, LogNextInv
<1>5. BizzIInv' /\ PrintIInv'
  BY OneProgram, BizzNextInv, PrintNextInv
<1> QED BY <1>1, <1>2, <1>3, <1>4, <1>5

(* The invariant of all the exercises, from which the others follow: where    *)
(* each process of each program may be, and what it then holds.               *)
THEOREM ExercisesInvariant == Spec => []ExercisesIInv
<1> QED BY ExercisesInit, ExercisesNext, PTL DEF Spec

(* TypeOK: the types of all the exercises; it holds whatever is left over,    *)
(* locked, typed or interrupted.                                              *)
THEOREM ExercisesTypes == Spec => []TypeOK
<1>1. ExercisesIInv => TypeOK
  BY DEF ExercisesIInv, TypeOK, ListIInv, RegistryIInv, MsgIInv, PipeIInv, PipeControl, LockIInv, LogIInv, BizzIInv, PrintIInv
<1> QED BY <1>1, ExercisesInvariant, PTL

(* Exchanged: the one sen that runs gets the pid of a rec that got its own    *)
(* (sen.c:27), however many recs are started after it, wherever they find it  *)
(* between its system calls and whatever queue an earlier run left.           *)
THEOREM PidsExchanged == OneSen => (Spec => []Exchanged)
<1> SUFFICES ASSUME OneSen PROVE Spec => []Exchanged
  OBVIOUS
<1>1. ExercisesIInv => Exchanged
  BY DEF ExercisesIInv, MsgIInv, Exchange, Exchanged
<1> QED BY <1>1, ExercisesInvariant, PTL

(* RunnerIsLast: one wait for each pipe and one more is enough for every      *)
(* command, also when pieces of the file are empty (grep.c:67).               *)
THEOREM RunnerReturnsLast == Spec => []RunnerIsLast
<1>1. ExercisesIInv => RunnerIsLast
  BY PipeLast DEF ExercisesIInv
<1> QED BY <1>1, ExercisesInvariant, PTL

(* ScreenInOrder: dup2 and the closing of the pipes (grep.c:40) join any      *)
(* number of commands so that nothing is lost, repeated or out of order.      *)
THEOREM ScreenIsOrdered == Spec => []ScreenInOrder
<1>1. ExercisesIInv => ScreenInOrder
  BY PipeOrdered DEF ExercisesIInv
<1> QED BY <1>1, ExercisesInvariant, PTL

(* ListIsSequence: in whatever order items are added at either end and        *)
(* deleted, the links of field.h:25 and :49 stand for the sequence of these   *)
(* calls, for any number of items.                                            *)
THEOREM ListImplementsSequence == Spec => ListIsSequence
<1>1. Init => Sequence!Init
  BY ListInitInv DEF Init
<1>2. ExercisesIInv /\ [Next]_vars => [Sequence!Next]_(Sequence!vars)
  BY OneProgram, ListStep DEF ExercisesIInv
<1> QED BY <1>1, <1>2, ExercisesInvariant, PTL DEF Spec, ListIsSequence, Sequence!Spec

(* SumsModulo: sum(m, a, b) adds modulo m, through get_field's search of the  *)
(* list and the spare field it renames (field.c:32), or dies of a cause the   *)
(* property names, whichever plugins were loaded.                             *)
THEOREM SumsAreModulo == Spec => []SumsModulo
<1>1. ExercisesIInv => SumsModulo
  BY DEF ExercisesIInv, RegistryIInv, RegistryInit, SumsModulo
<1> QED BY <1>1, ExercisesInvariant, PTL

(* StableLocksListed: with one owner no query of getlk (getlk.c:38) steps     *)
(* over a byte that is write-locked all the time, however the kernel joins    *)
(* and splits the locks around it, or finds a lock again that nothing was     *)
(* done to.                                                                   *)
THEOREM StableLocks == Spec => []StableLocksListed
<1>1. ExercisesIInv => StableLocksListed
  BY LockListed DEF ExercisesIInv
<1> QED BY <1>1, ExercisesInvariant, PTL

(* UncutRecordWhole: a call of log_error that no handler cuts has all its     *)
(* parts in a row (log.c:67) before the first zero byte of its record,        *)
(* whatever calls it interrupts itself and whatever these left in buf.        *)
THEOREM LogRecordsWhole == Spec => []UncutRecordWhole
<1>1. ExercisesIInv => UncutRecordWhole
  BY LogWhole DEF ExercisesIInv
<1> QED BY <1>1, ExercisesInvariant, PTL

(* CleanWhenIdle: the last call to return has reset buf and pos (log.c:49),   *)
(* unless a write failed.                                                     *)
THEOREM LogLeavesNothing == Spec => []CleanWhenIdle
<1>1. ExercisesIInv => CleanWhenIdle
  BY DEF ExercisesIInv, LogIInv
<1> QED BY <1>1, ExercisesInvariant, PTL

(* TransferIsReference: for every text, one pass with a sum modulo 3 and the  *)
(* last character writes what division of each word's value asks for, and     *)
(* carries nothing from one word to the next (bizzbuzz.c:21).                 *)
THEOREM TransferIsRight == Spec => []TransferIsReference
<1>1. ExercisesIInv => TransferIsReference
  BY DEF ExercisesIInv, BizzIInv
<1> QED BY <1>1, ExercisesInvariant, PTL
=============================================================================
