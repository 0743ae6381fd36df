----------------------------- MODULE TransProofs -----------------------------
(***************************************************************************)
(* Theorems about trans, for any number of senders with files of any       *)
(* length, of which any may be interrupted.                                *)
(***************************************************************************)
EXTENDS Trans, TLAPS, SequenceTheorems

(* It is a sender's turn from when it has been sent a SIGUSR1 until it queues *)
(* the next block, and the receiver's from then until it asks for another.    *)
SenderTurn(s) == \/ spc[s] \in {"read", "end", "queue", "bye"}
                 \/ sflag[s] \/ Has(s, "USR1")
ReceiverTurn == \/ rpc \in {"ignition", "clear", "ask", "write", "tail", "last"}
                \/ rflag \/ Has(R, "USR1")

(* A sender that has not been taken waits for its answer.                     *)
Outside ==
  \A s \in Senders : s # peer =>
    spc[s] \in {"hello", "confirm", "killed"} /\ ~sflag[s] /\ ~Has(s, "USR1") /\ pos[s] = 0

(* Blocks are only queued to a receiver that waits for them.                  *)
Turns ==
  /\ peer # Nobody /\ rpc # "done" => ~(SenderTurn(peer) /\ ReceiverTurn)
  /\ peer = Nobody => rpc \in {"ignition", "killed"}
  /\ Has(R, "USR1") => rpc = "receive"
  /\ rpc = "ask" => ~rflag
  /\ \A m \in pending[R] : m.sig = "CHLD" => m.from \in Senders
  /\ \A s \in Senders : spc[s] \in {"end", "queue"} => ~sflag[s] /\ ~Has(s, "USR1")

(* The receiver is told of the end when all full blocks have been read, so    *)
(* that a sender never queues a block to one that has returned.               *)
Ends ==
  /\ \A s \in Senders : /\ spc[s] \in {"hello", "confirm"} => pos[s] = 0
                        /\ spc[s] \in {"end", "bye"} => pos[s] > file[s].blocks
  /\ ~more \/ Has(R, "TERM") => peer # Nobody /\ pos[peer] > file[peer].blocks
  /\ rpc \in {"tail", "last", "done"} => ~more
  /\ rpc = "done" => spc[peer] \in {"wait", "bye", "done", "killed"}

(* How much of what the sender has read the receiver has written: all but the *)
(* block that is on its way.                                                  *)
Due == \/ rpc \in {"write", "tail"} \/ Has(R, "USR1")
       \/ rpc = "receive" /\ (rflag \/ spc[peer] \in {"end", "queue"})
Written == \/ rpc \in {"clear", "ask"}
           \/ /\ rpc = "receive"
              /\ \/ Has(peer, "USR1") \/ spc[peer] = "read"
                 \/ sflag[peer] /\ spc[peer] \in {"hello", "confirm", "wait"}
Amounts ==
  /\ rpc = "ignition" => out = <<>> /\ \A s \in Senders : pos[s] = 0
  /\ peer = Nobody => out = <<>>
  /\ peer # Nobody =>
       /\ Len(out) <= pos[peer]
       /\ Due => Len(out) = pos[peer] - 1
       /\ Written => Len(out) = pos[peer]

(* Each block is the next one of the sender's file.                           *)
NextBlock == [from |-> peer, k |-> pos[peer]]
Contents ==
  peer # Nobody /\ file[peer].bad # "eio" =>
    /\ \A n \in 1..Len(out) : out[n] = [from |-> peer, k |-> n]
    /\ rpc \in {"write", "tail"} \/ (rpc = "receive" /\ rflag) => mem = NextBlock
    /\ \A m \in pending[R] : m.sig = "USR1" => m.block = NextBlock

TransIInv == /\ TypeOK /\ Outside /\ Turns /\ Ends /\ Amounts /\ Contents
             /\ \A s \in Senders : pos[s] <= file[s].blocks + 1
-----------------------------------------------------------------------------
Processes == Senders \cup {R}
Signals == [sig : {"USR1", "TERM", "CHLD", "INT", "KILL"},
            from : Senders \cup {R, Nobody}, block : Blocks]

(* What a signal that is sent changes: at most it is added for its receiver.  *)
LEMMA SentTo ==
  ASSUME TypeOK, NEW x \in Processes, NEW y \in Processes, NEW m
  PROVE  Sent(x, m)[y] = IF y = x /\ Alive(x) /\ ~Has(x, m.sig)
                         THEN pending[y] \cup {m} ELSE pending[y]
  BY DEF TypeOK, Sent, Processes

(* A signal that is sent is pending.                                          *)
LEMMA SentType ==
  ASSUME TypeOK, NEW x \in Processes, NEW m \in Signals
  PROVE  Sent(x, m) \in [Processes -> SUBSET Signals]
  BY DEF TypeOK, Sent, Processes, Signals

(* The fields of a signal.                                                    *)
LEMMA SignalType ==
  ASSUME NEW sig \in {"USR1", "TERM", "CHLD", "INT", "KILL"},
         NEW x \in Senders \cup {R, Nobody}, NEW b \in Blocks
  PROVE  /\ Signal(sig, x, b) \in Signals
         /\ Signal(sig, x, b).sig = sig /\ Signal(sig, x, b).from = x
         /\ Signal(sig, x, b).block = b
  BY DEF Signal, Signals

(* A signal without a block carries this one.                                 *)
LEMMA NoBlockType == NoBlock \in Blocks
  BY TransAssumption DEF NoBlock, Blocks, Nobody

(* The initial states. *)
LEMMA TransInit == Init => TransIInv
  BY TransAssumption, NoBlockType
  DEF Init, TransIInv, TypeOK, Outside, Turns, Ends, Amounts, Contents, SenderPlaces, ReceiverPlaces, Has, Due, Written,
      SenderTurn, ReceiverTurn, File

(* A greeting. *)
LEMMA StepHello ==
  ASSUME TransIInv, NEW s \in Senders, Hello(s)
  PROVE  TransIInv'
<1> DEFINE m == Signal("CHLD", s, NoBlock)
<1>m. m \in Signals /\ m.sig = "CHLD" /\ m.from = s
  BY SignalType, NoBlockType
<1>1. TypeOK'
  BY SentType, <1>m DEF TransIInv, TypeOK, Hello, SGo, SenderPlaces, Processes, Signals, sender, receiver
<1>p. /\ \A x \in Senders : pending'[x] = pending[x]
      /\ pending'[R] \in {pending[R], pending[R] \cup {m}}
  BY SentTo, TransAssumption DEF Hello, Processes, TransIInv
<1>h. /\ \A x \in Senders : Has(x, "USR1")' <=> Has(x, "USR1")
      /\ Has(R, "USR1")' <=> Has(R, "USR1")
      /\ Has(R, "TERM")' <=> Has(R, "TERM")
  BY <1>p, <1>m DEF Has
<1> USE DEF Hello, SGo, sender, receiver
<1>2. Outside'
  BY <1>h DEF TransIInv, Outside, TypeOK
<1>3. Turns'
  BY <1>h, <1>p, <1>m DEF TransIInv, Turns, SenderTurn, ReceiverTurn, TypeOK
<1>4. Ends'
  BY <1>h, <1>p, <1>m DEF TransIInv, Ends, TypeOK
<1>5. Amounts'
  BY <1>h, <1>p, <1>m DEF TransIInv, Amounts, Due, Written, TypeOK
<1>6. Contents'
  BY <1>h, <1>p, <1>m DEF TransIInv, Contents, NextBlock, TypeOK
<1> QED  BY <1>1, <1>2, <1>3, <1>4, <1>5, <1>6 DEF TransIInv
(* A file has at most MaxBlocks full blocks.                                  *)
LEMMA FileType ==
  TypeOK => \A s \in Senders : file[s] \in File /\ file[s].blocks \in 0..MaxBlocks
  BY TransAssumption DEF TypeOK, File

(* The sender goes on when it has been asked. *)
LEMMA StepConfirmed ==
  ASSUME TransIInv, NEW s \in Senders, Confirmed(s)
  PROVE  TransIInv'
<1> USE DEF Confirmed, SGo, sender, receiver
<1>h. /\ \A x \in Senders : Has(x, "USR1")' <=> Has(x, "USR1")
      /\ Has(R, "USR1")' <=> Has(R, "USR1")
      /\ Has(R, "TERM")' <=> Has(R, "TERM")
  BY DEF Has
<1>1. TypeOK'
  BY TransAssumption DEF TransIInv, TypeOK, SenderPlaces, ReceiverPlaces
<1>2. Outside'
  BY <1>h, FileType DEF TransIInv, TypeOK, Outside
<1>3. Turns'
  BY <1>h, FileType DEF TransIInv, TypeOK, Turns, SenderTurn, ReceiverTurn
<1>4. Ends'
  BY <1>h, FileType DEF TransIInv, TypeOK, Ends
<1>5. Amounts'
  BY <1>h, FileType DEF TransIInv, TypeOK, Amounts, Due, Written
<1>6. Contents'
  BY <1>h, FileType DEF TransIInv, TypeOK, Contents, NextBlock
<1>7. \A x \in Senders : pos'[x] <= file'[x].blocks + 1
  BY <1>h, FileType DEF TransIInv, TypeOK
<1> QED  BY <1>1, <1>2, <1>3, <1>4, <1>5, <1>6, <1>7 DEF TransIInv

(* The receiver's next question. *)
LEMMA StepAnswered ==
  ASSUME TransIInv, NEW s \in Senders, Answered(s)
  PROVE  TransIInv'
<1> USE DEF Answered, SGo, sender, receiver
<1>h. /\ \A x \in Senders : Has(x, "USR1")' <=> Has(x, "USR1")
      /\ Has(R, "USR1")' <=> Has(R, "USR1")
      /\ Has(R, "TERM")' <=> Has(R, "TERM")
  BY DEF Has
<1>k. s = peer /\ peer # Nobody
  BY TransAssumption DEF TransIInv, Outside, Nobody
<1>1. TypeOK'
  BY TransAssumption DEF TransIInv, TypeOK, SenderPlaces, ReceiverPlaces
<1>2. Outside'
  BY <1>h, FileType DEF TransIInv, TypeOK, Outside
<1>3. Turns'
  BY <1>h, FileType DEF TransIInv, TypeOK, Turns, SenderTurn, ReceiverTurn
<1>4. Ends'
  BY <1>h, <1>k, FileType DEF TransIInv, TypeOK, Ends
<1>5. Amounts'
  BY <1>h, FileType DEF TransIInv, TypeOK, Amounts, Due, Written
<1>6. Contents'
  BY <1>h, FileType DEF TransIInv, TypeOK, Contents, NextBlock
<1>7. \A x \in Senders : pos'[x] <= file'[x].blocks + 1
  BY <1>h, FileType DEF TransIInv, TypeOK
<1> QED  BY <1>1, <1>2, <1>3, <1>4, <1>5, <1>6, <1>7 DEF TransIInv

(* A read; the flag is reset before the next block is queued. *)
LEMMA StepRead ==
  ASSUME TransIInv, NEW s \in Senders, Read(s)
  PROVE  TransIInv'
<1> USE DEF Read, SGo, sender, receiver
<1>h. /\ \A x \in Senders : Has(x, "USR1")' <=> Has(x, "USR1")
      /\ Has(R, "USR1")' <=> Has(R, "USR1")
      /\ Has(R, "TERM")' <=> Has(R, "TERM")
  BY DEF Has
<1>s. Ready(s) => ~Has(s, "USR1")
  BY DEF Ready, Has
<1>k. s = peer /\ peer # Nobody
  BY TransAssumption DEF TransIInv, Outside, Nobody
<1>b. /\ pos[s] \in Nat /\ pos[s] <= file[s].blocks /\ file[s].blocks \in 0..MaxBlocks
      /\ pos'[s] = pos[s] + 1 /\ \A x \in Senders \ {s} : pos'[x] = pos[x]
      /\ spc'[s] \in {"queue", "end"} /\ (spc'[s] = "end" => pos[s] = file[s].blocks)
      /\ \A x \in Senders \ {s} : spc'[x] = spc[x]
  BY FileType DEF TransIInv, TypeOK
<1>t. ~ReceiverTurn /\ rpc \in {"receive", "killed"}
  BY <1>k DEF TransIInv, Turns, Ends, SenderTurn, ReceiverTurn, TypeOK, ReceiverPlaces
<1>y. pos' \in [Senders -> 0..(MaxBlocks + 1)]
  <2>1. pos[s] + 1 \in 0..(MaxBlocks + 1)
    BY <1>b, TransAssumption
  <2> QED  BY <2>1 DEF TransIInv, TypeOK
<1>1. TypeOK'
  BY <1>y DEF TransIInv, TypeOK, SenderPlaces, ReceiverPlaces
<1>2. Outside'
  BY <1>h, <1>s, <1>k, <1>b, <1>t DEF TransIInv, TypeOK, Outside
<1>3. Turns'
  BY <1>h, <1>s, <1>k, <1>b, <1>t DEF TransIInv, TypeOK, Turns, SenderTurn, ReceiverTurn
<1>4. Ends'
  BY <1>h, <1>s, <1>k, <1>b, <1>t DEF TransIInv, TypeOK, Ends, ReceiverTurn
<1>5. Amounts'
  BY <1>h, <1>s, <1>k, <1>b, <1>t DEF TransIInv, TypeOK, Amounts, Due, Written, ReceiverTurn
<1>6. Contents'
  BY <1>h, <1>s, <1>k, <1>b, <1>t DEF TransIInv, TypeOK, Contents, ReceiverTurn, Has
<1>7. \A x \in Senders : pos'[x] <= file'[x].blocks + 1
  BY <1>h, <1>s, <1>k, <1>b, <1>t DEF TransIInv, TypeOK
<1> QED  BY <1>1, <1>2, <1>3, <1>4, <1>5, <1>6, <1>7 DEF TransIInv

(* The receiver has a sender. *)
LEMMA StepIgnite ==
  ASSUME TransIInv, Ignite
  PROVE  TransIInv'
<1> USE DEF Ignite, RGo, sender, receiver
<1>h. /\ \A x \in Senders : Has(x, "USR1")' <=> Has(x, "USR1")
      /\ Has(R, "USR1")' <=> Has(R, "USR1")
      /\ Has(R, "TERM")' <=> Has(R, "TERM")
  BY DEF Has
<1>r. Ready(R) => ~Has(R, "USR1") /\ ~Has(R, "TERM")
  BY DEF Ready, Has
<1>1. TypeOK'
  BY TransAssumption DEF TransIInv, TypeOK, SenderPlaces, ReceiverPlaces
<1>2. Outside'
  BY <1>h, <1>r, FileType DEF TransIInv, TypeOK, Outside
<1>3. Turns'
  BY <1>h, <1>r, FileType DEF TransIInv, TypeOK, Turns, SenderTurn, ReceiverTurn
<1>4. Ends'
  BY <1>h, <1>r, FileType DEF TransIInv, TypeOK, Ends
<1>5. Amounts'
  BY <1>h, <1>r, FileType DEF TransIInv, TypeOK, Amounts, Due, Written
<1>6. Contents'
  BY <1>h, <1>r, FileType DEF TransIInv, TypeOK, Contents, NextBlock
<1>7. \A x \in Senders : pos'[x] <= file'[x].blocks + 1
  BY <1>h, <1>r, FileType DEF TransIInv, TypeOK
<1> QED  BY <1>1, <1>2, <1>3, <1>4, <1>5, <1>6, <1>7 DEF TransIInv

(* Its flag goes down. *)
LEMMA StepClear ==
  ASSUME TransIInv, Clear
  PROVE  TransIInv'
<1> USE DEF Clear, RGo, sender, receiver
<1>h. /\ \A x \in Senders : Has(x, "USR1")' <=> Has(x, "USR1")
      /\ Has(R, "USR1")' <=> Has(R, "USR1")
      /\ Has(R, "TERM")' <=> Has(R, "TERM")
  BY DEF Has
<1>r. Ready(R) => ~Has(R, "USR1") /\ ~Has(R, "TERM")
  BY DEF Ready, Has
<1>1. TypeOK'
  BY TransAssumption DEF TransIInv, TypeOK, SenderPlaces, ReceiverPlaces
<1>2. Outside'
  BY <1>h, <1>r, FileType DEF TransIInv, TypeOK, Outside
<1>3. Turns'
  BY <1>h, <1>r, FileType DEF TransIInv, TypeOK, Turns, SenderTurn, ReceiverTurn
<1>4. Ends'
  BY <1>h, <1>r, FileType DEF TransIInv, TypeOK, Ends
<1>5. Amounts'
  BY <1>h, <1>r, FileType DEF TransIInv, TypeOK, Amounts, Due, Written
<1>6. Contents'
  BY <1>h, <1>r, FileType DEF TransIInv, TypeOK, Contents, NextBlock
<1>7. \A x \in Senders : pos'[x] <= file'[x].blocks + 1
  BY <1>h, <1>r, FileType DEF TransIInv, TypeOK
<1> QED  BY <1>1, <1>2, <1>3, <1>4, <1>5, <1>6, <1>7 DEF TransIInv

(* A block has arrived. *)
LEMMA StepReceived ==
  ASSUME TransIInv, Received
  PROVE  TransIInv'
<1> USE DEF Received, RGo, sender, receiver
<1>h. /\ \A x \in Senders : Has(x, "USR1")' <=> Has(x, "USR1")
      /\ Has(R, "USR1")' <=> Has(R, "USR1")
      /\ Has(R, "TERM")' <=> Has(R, "TERM")
  BY DEF Has
<1>r. Ready(R) => ~Has(R, "USR1") /\ ~Has(R, "TERM")
  BY DEF Ready, Has
<1>1. TypeOK'
  BY TransAssumption DEF TransIInv, TypeOK, SenderPlaces, ReceiverPlaces
<1>2. Outside'
  BY <1>h, <1>r, FileType DEF TransIInv, TypeOK, Outside
<1>3. Turns'
  BY <1>h, <1>r, FileType DEF TransIInv, TypeOK, Turns, SenderTurn, ReceiverTurn
<1>4. Ends'
  BY <1>h, <1>r, FileType DEF TransIInv, TypeOK, Ends
<1>5. Amounts'
  BY <1>h, <1>r, FileType DEF TransIInv, TypeOK, Amounts, Due, Written
<1>6. Contents'
  BY <1>h, <1>r, FileType DEF TransIInv, TypeOK, Contents, NextBlock
<1>7. \A x \in Senders : pos'[x] <= file'[x].blocks + 1
  BY <1>h, <1>r, FileType DEF TransIInv, TypeOK
<1> QED  BY <1>1, <1>2, <1>3, <1>4, <1>5, <1>6, <1>7 DEF TransIInv

(* A full block. *)
LEMMA StepWrite ==
  ASSUME TransIInv, Write
  PROVE  TransIInv'
<1> USE DEF Write, RGo, sender, receiver
<1>h. /\ \A x \in Senders : Has(x, "USR1")' <=> Has(x, "USR1")
      /\ Has(R, "USR1")' <=> Has(R, "USR1")
      /\ Has(R, "TERM")' <=> Has(R, "TERM")
  BY DEF Has
<1>r. Ready(R) => ~Has(R, "USR1") /\ ~Has(R, "TERM")
  BY DEF Ready, Has
<1>o. /\ mem \in Blocks /\ out \in Seq(Blocks) /\ Len(out) \in Nat /\ Len(out') = Len(out) + 1
      /\ \A n \in 1..Len(out) : out'[n] = out[n]
      /\ out'[Len(out) + 1] = mem
  BY DEF TransIInv, TypeOK
<1>n. peer # Nobody => peer \in Senders /\ pos[peer] \in Nat /\ Len(out) = pos[peer] - 1
  BY DEF TransIInv, TypeOK, Amounts, Due
<1>1. TypeOK'
  BY TransAssumption DEF TransIInv, TypeOK, SenderPlaces, ReceiverPlaces
<1>2. Outside'
  BY <1>h, <1>r, FileType DEF TransIInv, TypeOK, Outside
<1>3. Turns'
  BY <1>h, <1>r, FileType DEF TransIInv, TypeOK, Turns, SenderTurn, ReceiverTurn
<1>4. Ends'
  BY <1>h, <1>r, FileType DEF TransIInv, TypeOK, Ends
<1>5. Amounts'
  BY <1>h, <1>r, <1>o, <1>n DEF TransIInv, Turns, Amounts, Due, Written
<1>6. Contents'
  BY <1>h, <1>r, <1>o, <1>n DEF TransIInv, Contents, NextBlock
<1>7. \A x \in Senders : pos'[x] <= file'[x].blocks + 1
  BY <1>h, <1>r, FileType DEF TransIInv, TypeOK
<1> QED  BY <1>1, <1>2, <1>3, <1>4, <1>5, <1>6, <1>7 DEF TransIInv

(* The rest of the file, if it has one. *)
LEMMA StepWriteTail ==
  ASSUME TransIInv, WriteTail
  PROVE  TransIInv'
<1> USE DEF WriteTail, RGo, sender, receiver, Tail1
<1>h. /\ \A x \in Senders : Has(x, "USR1")' <=> Has(x, "USR1")
      /\ Has(R, "USR1")' <=> Has(R, "USR1")
      /\ Has(R, "TERM")' <=> Has(R, "TERM")
  BY DEF Has
<1>r. Ready(R) => ~Has(R, "USR1") /\ ~Has(R, "TERM")
  BY DEF Ready, Has
<1>o. /\ mem \in Blocks /\ out \in Seq(Blocks) /\ Len(out) \in Nat
      /\ \A n \in 1..Len(out) : out'[n] = out[n]
      /\ \/ out' = out
         \/ Len(out') = Len(out) + 1 /\ out'[Len(out) + 1] = mem
  BY DEF TransIInv, TypeOK
<1>n. peer # Nobody => peer \in Senders /\ pos[peer] \in Nat /\ Len(out) = pos[peer] - 1
  BY DEF TransIInv, TypeOK, Amounts, Due
<1>1. TypeOK'
  BY TransAssumption DEF TransIInv, TypeOK, SenderPlaces, ReceiverPlaces
<1>2. Outside'
  BY <1>h, <1>r, FileType DEF TransIInv, TypeOK, Outside
<1>3. Turns'
  BY <1>h, <1>r, FileType DEF TransIInv, TypeOK, Turns, SenderTurn, ReceiverTurn
<1>4. Ends'
  BY <1>h, <1>r, FileType DEF TransIInv, TypeOK, Ends
<1>5. Amounts'
  BY <1>h, <1>r, <1>o, <1>n DEF TransIInv, Turns, Amounts, Due, Written
<1>6. Contents'
  BY <1>h, <1>r, <1>o, <1>n DEF TransIInv, Contents, NextBlock
<1>7. \A x \in Senders : pos'[x] <= file'[x].blocks + 1
  BY <1>h, <1>r, FileType DEF TransIInv, TypeOK
<1> QED  BY <1>1, <1>2, <1>3, <1>4, <1>5, <1>6, <1>7 DEF TransIInv
(* The end is told before the rest is queued. *)
LEMMA StepEnd ==
  ASSUME TransIInv, NEW s \in Senders, End(s)
  PROVE  TransIInv'
<1> USE DEF End, SGo, sender, receiver
<1> DEFINE m == Signal("TERM", s, NoBlock)
<1>m. m \in Signals /\ m.sig = "TERM" /\ m.from = s /\ m.block = NoBlock
  BY SignalType, NoBlockType
<1>k. s = peer /\ peer # Nobody
  BY TransAssumption DEF TransIInv, Outside, Nobody
<1>p. /\ \A x \in Senders : pending'[x] = pending[x]
      /\ pending'[R] = pending[R] \/ (Alive(R) /\ pending'[R] = pending[R] \cup {m})
  BY SentTo, TransAssumption DEF Processes, TransIInv
<1>y. pending' \in [Processes -> SUBSET Signals]
  BY <1>m, SentType DEF Processes, TransIInv
<1>h. /\ \A x \in Senders : Has(x, "USR1")' <=> Has(x, "USR1")
      /\ Has(R, "USR1")' <=> Has(R, "USR1")
  BY <1>p, <1>m DEF Has
<1>1. TypeOK'
  BY <1>y, TransAssumption DEF TransIInv, TypeOK, SenderPlaces, ReceiverPlaces, Processes, Signals
<1>2. Outside'
  BY <1>h, <1>p, <1>m, <1>k, FileType DEF TransIInv, TypeOK, Outside
<1>3. Turns'
  BY <1>h, <1>p, <1>m, <1>k, FileType DEF TransIInv, TypeOK, Turns, SenderTurn, ReceiverTurn
<1>4. Ends'
  BY <1>h, <1>p, <1>m, <1>k, FileType DEF TransIInv, TypeOK, Ends
<1>5. Amounts'
  BY <1>h, <1>p, <1>m, <1>k, FileType DEF TransIInv, TypeOK, Amounts, Due, Written
<1>6. Contents'
  BY <1>h, <1>p, <1>m, <1>k, FileType DEF TransIInv, TypeOK, Contents, NextBlock
<1>7. \A x \in Senders : pos'[x] <= file'[x].blocks + 1
  BY <1>h, <1>p, <1>m, <1>k, FileType DEF TransIInv, TypeOK
<1> QED  BY <1>1, <1>2, <1>3, <1>4, <1>5, <1>6, <1>7 DEF TransIInv

(* The sender returns. *)
LEMMA StepBye ==
  ASSUME TransIInv, NEW s \in Senders, Bye(s)
  PROVE  TransIInv'
<1> USE DEF Bye, SGo, sender, receiver
<1> DEFINE m == Signal("TERM", s, NoBlock)
<1>m. m \in Signals /\ m.sig = "TERM" /\ m.from = s /\ m.block = NoBlock
  BY SignalType, NoBlockType
<1>k. s = peer /\ peer # Nobody
  BY TransAssumption DEF TransIInv, Outside, Nobody
<1>p. /\ \A x \in Senders : pending'[x] = pending[x]
      /\ pending'[R] = pending[R] \/ (Alive(R) /\ pending'[R] = pending[R] \cup {m})
  BY SentTo, TransAssumption DEF Processes, TransIInv
<1>y. pending' \in [Processes -> SUBSET Signals]
  BY <1>m, SentType DEF Processes, TransIInv
<1>h. /\ \A x \in Senders : Has(x, "USR1")' <=> Has(x, "USR1")
      /\ Has(R, "USR1")' <=> Has(R, "USR1")
  BY <1>p, <1>m DEF Has
<1>1. TypeOK'
  BY <1>y, TransAssumption DEF TransIInv, TypeOK, SenderPlaces, ReceiverPlaces, Processes, Signals
<1>2. Outside'
  BY <1>h, <1>p, <1>m, <1>k, FileType DEF TransIInv, TypeOK, Outside
<1>3. Turns'
  BY <1>h, <1>p, <1>m, <1>k, FileType DEF TransIInv, TypeOK, Turns, SenderTurn, ReceiverTurn
<1>4. Ends'
  BY <1>h, <1>p, <1>m, <1>k, FileType DEF TransIInv, TypeOK, Ends
<1>5. Amounts'
  BY <1>h, <1>p, <1>m, <1>k, FileType DEF TransIInv, TypeOK, Amounts, Due, Written
<1>6. Contents'
  BY <1>h, <1>p, <1>m, <1>k, FileType DEF TransIInv, TypeOK, Contents, NextBlock
<1>7. \A x \in Senders : pos'[x] <= file'[x].blocks + 1
  BY <1>h, <1>p, <1>m, <1>k, FileType DEF TransIInv, TypeOK
<1> QED  BY <1>1, <1>2, <1>3, <1>4, <1>5, <1>6, <1>7 DEF TransIInv

(* A block is queued: the receiver waits for it or is gone. *)
LEMMA StepQueue ==
  ASSUME TransIInv, NEW s \in Senders, Queue(s)
  PROVE  TransIInv'
<1>u. SGo(s, "queue", "wait") /\ UNCHANGED <<file, sflag, pos, receiver>>
  BY DEF Queue
<1> USE <1>u DEF SGo, sender, receiver
<1>b. PICK b \in Blocks :
        /\ b.from = s /\ (file[s].bad # "eio" => b = [from |-> s, k |-> pos[s]])
        /\ pending' = Sent(R, Signal("USR1", s, b))
  <2> DEFINE b == [from |-> s, k |-> IF file[s].bad = "eio" /\ pos[s] > file[s].blocks THEN 0 ELSE pos[s]]
  <2>1. b \in Blocks /\ b.from = s /\ (file[s].bad # "eio" => b = [from |-> s, k |-> pos[s]])
    BY TransAssumption DEF TransIInv, TypeOK, Blocks
  <2>2. pending' = Sent(R, Signal("USR1", s, b))
    BY DEF Queue
  <2> QED  BY <2>1, <2>2
<1> DEFINE m == Signal("USR1", s, b)
<1>m. m \in Signals /\ m.sig = "USR1" /\ m.from = s /\ m.block = b
  BY <1>b, SignalType
<1>q. pending' = Sent(R, m)
  BY <1>b
<1>k. s = peer /\ peer # Nobody
  BY TransAssumption DEF TransIInv, Outside, Nobody
<1>t. ~ReceiverTurn /\ rpc \in {"receive", "killed"}
  BY <1>k DEF TransIInv, Turns, Ends, SenderTurn, ReceiverTurn, TypeOK, ReceiverPlaces
<1>l. Alive(R) <=> rpc = "receive"
  BY <1>t DEF Alive
<1>p. /\ \A x \in Senders : pending'[x] = pending[x]
      /\ pending'[R] = pending[R] \/ (Alive(R) /\ pending'[R] = pending[R] \cup {m})
  BY <1>q, SentTo, TransAssumption DEF Processes, TransIInv
<1>y. pending' \in [Processes -> SUBSET Signals]
  BY <1>q, <1>m, SentType DEF Processes, TransIInv
<1>h. /\ \A x \in Senders : Has(x, "USR1")' <=> Has(x, "USR1")
      /\ Has(R, "USR1")' => rpc = "receive"
      /\ Has(R, "TERM")' <=> Has(R, "TERM")
  BY <1>p, <1>m, <1>t, <1>l DEF Has, ReceiverTurn
<1>s. ~Has(s, "USR1") /\ ~sflag[s]
  BY DEF TransIInv, Turns
<1>n. Len(out) = pos[s] - 1 \/ rpc = "killed"
  BY <1>k, <1>t DEF TransIInv, Amounts, Due
<1>1. TypeOK'
  BY <1>y, TransAssumption DEF TransIInv, TypeOK, SenderPlaces, ReceiverPlaces, Processes, Signals
<1>2. Outside'
  BY <1>h, <1>p, <1>m, <1>b, <1>k, <1>t, <1>s, <1>n DEF TransIInv, TypeOK, Outside
<1>3. Turns'
  BY <1>h, <1>p, <1>m, <1>b, <1>k, <1>t, <1>s, <1>n DEF TransIInv, TypeOK, Turns, SenderTurn, ReceiverTurn
<1>4. Ends'
  BY <1>h, <1>p, <1>m, <1>b, <1>k, <1>t, <1>s, <1>n DEF TransIInv, TypeOK, Ends
<1>5. Amounts'
  BY <1>h, <1>p, <1>m, <1>b, <1>k, <1>t, <1>s, <1>n DEF TransIInv, TypeOK, Amounts, Due, Written
<1>6. Contents'
  BY <1>h, <1>p, <1>m, <1>b, <1>k, <1>t, <1>s, <1>n DEF TransIInv, TypeOK, Contents, NextBlock
<1>7. \A x \in Senders : pos'[x] <= file'[x].blocks + 1
  BY <1>h, <1>p, <1>m, <1>b, <1>k, <1>t, <1>s, <1>n DEF TransIInv, TypeOK
<1> QED  BY <1>1, <1>2, <1>3, <1>4, <1>5, <1>6, <1>7 DEF TransIInv

(* The receiver asks: its turn is over. *)
LEMMA StepAsk ==
  ASSUME TransIInv, Ask
  PROVE  TransIInv'
<1> USE DEF Ask, RGo, sender, receiver
<1> DEFINE m == Signal("USR1", R, NoBlock)
<1>m. m \in Signals /\ m.sig = "USR1" /\ m.from = R /\ m.block = NoBlock
  BY SignalType, NoBlockType
<1>k. peer \in Senders /\ peer # Nobody /\ peer # R
  BY TransAssumption DEF TransIInv, Turns, TypeOK, Nobody
<1>t. ~SenderTurn(peer) /\ ~rflag /\ ~Has(R, "USR1") /\ pending[R] = {}
  BY <1>k DEF TransIInv, Turns, ReceiverTurn, Ready, Has
<1>n. Len(out) = pos[peer]
  BY <1>k DEF TransIInv, Amounts, Written
<1>p. /\ \A x \in Processes \ {peer} : pending'[x] = pending[x]
      /\ pending'[peer] = pending[peer] \/ pending'[peer] = pending[peer] \cup {m}
  BY <1>k, SentTo DEF Processes, TransIInv
<1>y. pending' \in [Processes -> SUBSET Signals]
  BY <1>m, <1>k, SentType DEF Processes, TransIInv
<1>h. /\ \A x \in Senders \ {peer} : Has(x, "USR1")' <=> Has(x, "USR1")
      /\ ~Has(R, "USR1")' /\ ~Has(R, "TERM")'
  BY <1>p, <1>t, <1>k DEF Has, Processes
<1>1. TypeOK'
  BY <1>y, TransAssumption DEF TransIInv, TypeOK, SenderPlaces, ReceiverPlaces, Processes, Signals
<1>2. Outside'
  BY <1>h, <1>p, <1>m, <1>k, <1>t, <1>n DEF TransIInv, TypeOK, Outside
<1>3. Turns'
  BY <1>h, <1>p, <1>m, <1>k, <1>t, <1>n DEF TransIInv, TypeOK, Turns, SenderTurn, ReceiverTurn, Processes
<1>4. Ends'
  BY <1>h, <1>p, <1>m, <1>k, <1>t, <1>n DEF TransIInv, TypeOK, Ends
<1>5. Amounts'
  BY <1>h, <1>p, <1>m, <1>k, <1>t, <1>n DEF TransIInv, TypeOK, Amounts, Due, Written, SenderTurn
<1>6. Contents'
  BY <1>h, <1>p, <1>m, <1>k, <1>t, <1>n DEF TransIInv, TypeOK, Contents, NextBlock, Processes
<1>7. \A x \in Senders : pos'[x] <= file'[x].blocks + 1
  BY <1>h, <1>p, <1>m, <1>k, <1>t, <1>n DEF TransIInv, TypeOK
<1> QED  BY <1>1, <1>2, <1>3, <1>4, <1>5, <1>6, <1>7 DEF TransIInv

(* The receiver returns: its last question finds a sender that has queued everything. *)
LEMMA StepLast ==
  ASSUME TransIInv, Last
  PROVE  TransIInv'
<1> USE DEF Last, RGo, sender, receiver
<1> DEFINE m == Signal("USR1", R, NoBlock)
<1>m. m \in Signals /\ m.sig = "USR1" /\ m.from = R /\ m.block = NoBlock
  BY SignalType, NoBlockType
<1>k. peer \in Senders /\ peer # Nobody /\ peer # R
  BY TransAssumption DEF TransIInv, Turns, TypeOK, Nobody
<1>t. /\ ~SenderTurn(peer) /\ ~more /\ pos[peer] > file[peer].blocks
      /\ file[peer].blocks \in Nat /\ pos[peer] \in Nat
  BY <1>k, FileType DEF TransIInv, TypeOK, Turns, Ends, ReceiverTurn
<1>w. spc[peer] \in {"wait", "done", "killed"}
  <2>1. spc[peer] \notin {"hello", "confirm", "read", "end", "queue", "bye"}
    BY <1>k, <1>t DEF TransIInv, Ends, SenderTurn
  <2> QED  BY <2>1, <1>k DEF TransIInv, TypeOK, SenderPlaces
<1>p. /\ \A x \in Senders \ {peer} : pending'[x] = pending[x]
      /\ pending'[peer] = pending[peer] \/ pending'[peer] = pending[peer] \cup {m}
      /\ pending'[R] = {}
  <2>1. Sent(peer, m) \in [Processes -> SUBSET Signals]
    BY <1>m, <1>k, SentType DEF Processes, TransIInv
  <2>2. pending' = [Sent(peer, m) EXCEPT ![R] = {}]
    OBVIOUS
  <2>3. \A x \in Processes : Sent(peer, m)[x] = IF x = peer /\ Alive(peer) /\ ~Has(peer, m.sig)
                                            THEN pending[x] \cup {m} ELSE pending[x]
    BY <1>k, SentTo DEF Processes, TransIInv
  <2> QED  BY <2>1, <2>2, <2>3, <1>k, TransAssumption DEF Processes
<1>y. pending' \in [Processes -> SUBSET Signals]
  BY <1>m, <1>k, SentType DEF Processes, TransIInv
<1>h. /\ \A x \in Senders \ {peer} : Has(x, "USR1")' <=> Has(x, "USR1")
      /\ ~Has(R, "USR1")' /\ ~Has(R, "TERM")'
  BY <1>p, <1>k DEF Has
<1>1. TypeOK'
  BY <1>y, TransAssumption DEF TransIInv, TypeOK, SenderPlaces, ReceiverPlaces, Processes, Signals
<1>2. Outside'
  BY <1>h, <1>p, <1>m, <1>k, <1>t, <1>w DEF TransIInv, TypeOK, Outside
<1>3. Turns'
  BY <1>h, <1>p, <1>m, <1>k, <1>t, <1>w DEF TransIInv, TypeOK, Turns, SenderTurn, ReceiverTurn
<1>4. Ends'
  BY <1>h, <1>p, <1>m, <1>k, <1>t, <1>w DEF TransIInv, TypeOK, Ends
<1>5. Amounts'
  BY <1>h, <1>p, <1>m, <1>k, <1>t, <1>w DEF TransIInv, TypeOK, Amounts, Due, Written
<1>6. Contents'
  BY <1>h, <1>p, <1>m, <1>k, <1>t, <1>w DEF TransIInv, TypeOK, Contents, NextBlock
<1>7. \A x \in Senders : pos'[x] <= file'[x].blocks + 1
  BY <1>h, <1>p, <1>m, <1>k, <1>t, <1>w DEF TransIInv, TypeOK
<1> QED  BY <1>1, <1>2, <1>3, <1>4, <1>5, <1>6, <1>7 DEF TransIInv
(* A sender has been asked for a block. *)
LEMMA StepSenderTold ==
  ASSUME TransIInv, NEW s \in Senders, NEW m \in pending[s], m.sig = "USR1",
         sflag' = [sflag EXCEPT ![s] = TRUE],
         pending' = [pending EXCEPT ![s] = @ \ {m}],
         UNCHANGED <<file, spc, pos, receiver>>
  PROVE  TransIInv'
<1> USE DEF receiver
<1>k. s = peer /\ peer # Nobody
  BY TransAssumption DEF TransIInv, Outside, Nobody, Has
<1>y. pending' \in [Processes -> SUBSET Signals]
  BY DEF TransIInv, TypeOK, Processes, Signals
<1>p. /\ \A x \in Processes \ {s} : pending'[x] = pending[x]
      /\ pending'[s] \subseteq pending[s] /\ s # R
  BY TransAssumption DEF TransIInv, TypeOK, Processes
<1>t. /\ spc[s] \notin {"end", "queue"} /\ ~ (peer # Nobody /\ rpc # "done" /\ ReceiverTurn)
      /\ Has(s, "USR1")
  BY <1>k DEF TransIInv, Turns, SenderTurn, Has
<1>n. spc[s] \in {"hello", "confirm", "wait"} /\ rpc = "receive" => Len(out) = pos[s]
  BY <1>k, <1>t DEF TransIInv, Amounts, Written
<1>h. /\ \A x \in Senders \ {s} : Has(x, "USR1")' <=> Has(x, "USR1")
      /\ (Has(s, "USR1")' => Has(s, "USR1"))
      /\ Has(R, "USR1")' <=> Has(R, "USR1")
      /\ Has(R, "TERM")' <=> Has(R, "TERM")
  BY <1>p DEF Has, Processes
<1>1. TypeOK'
  BY <1>y, TransAssumption DEF TransIInv, TypeOK, SenderPlaces, ReceiverPlaces, Processes, Signals
<1>2. Outside'
  BY <1>h, <1>p, <1>k, <1>t, <1>n DEF TransIInv, TypeOK, Outside
<1>3. Turns'
  BY <1>h, <1>p, <1>k, <1>t, <1>n DEF TransIInv, TypeOK, Turns, SenderTurn, ReceiverTurn, Processes
<1>4. Ends'
  BY <1>h, <1>p, <1>k, <1>t, <1>n DEF TransIInv, TypeOK, Ends
<1>5. Amounts'
  BY <1>h, <1>p, <1>k, <1>t, <1>n DEF TransIInv, TypeOK, Amounts, Due, Written
<1>6. Contents'
  BY <1>h, <1>p, <1>k, <1>t, <1>n DEF TransIInv, TypeOK, Contents, NextBlock, Processes
<1>7. \A x \in Senders : pos'[x] <= file'[x].blocks + 1
  BY <1>h, <1>p, <1>k, <1>t, <1>n DEF TransIInv, TypeOK
<1> QED  BY <1>1, <1>2, <1>3, <1>4, <1>5, <1>6, <1>7 DEF TransIInv

(* A sender is interrupted, and may interrupt the receiver, or killed. *)
LEMMA StepSenderKilled ==
  ASSUME TransIInv, NEW s \in Senders, NEW m \in Signals, m.sig = "INT",
         spc' = [spc EXCEPT ![s] = "killed"],
         \/ pending' = [Sent(R, m) EXCEPT ![s] = {}]
         \/ pending' = [pending EXCEPT ![s] = {}],
         UNCHANGED <<file, sflag, pos, receiver>>
  PROVE  TransIInv'
<1> USE DEF receiver
<1>y. pending' \in [Processes -> SUBSET Signals]
  <2>1. Sent(R, m) \in [Processes -> SUBSET Signals]
    BY SentType DEF Processes, TransIInv
  <2>2. pending \in [Processes -> SUBSET Signals]
    BY DEF TransIInv, TypeOK, Processes, Signals
  <2> QED  BY <2>1, <2>2
<1>p. /\ \A x \in Senders \ {s} : pending'[x] = pending[x]
      /\ pending'[s] = {} /\ s # R
      /\ pending'[R] = pending[R] \/ (Alive(R) /\ pending'[R] = pending[R] \cup {m})
  <2>1. Sent(R, m) \in [Processes -> SUBSET Signals]
    BY SentType DEF Processes, TransIInv
  <2>3. \A x \in Processes : Sent(R, m)[x] = IF x = R /\ Alive(R) /\ ~Has(R, m.sig)
                                             THEN pending[x] \cup {m} ELSE pending[x]
    BY SentTo DEF Processes, TransIInv
  <2> QED  BY <2>1, <2>3, TransAssumption DEF Processes, TransIInv, TypeOK
<1>h. /\ \A x \in Senders \ {s} : Has(x, "USR1")' <=> Has(x, "USR1")
      /\ ~Has(s, "USR1")'
      /\ Has(R, "USR1")' <=> Has(R, "USR1")
      /\ Has(R, "TERM")' <=> Has(R, "TERM")
  BY <1>p DEF Has
<1>1. TypeOK'
  BY <1>y, TransAssumption DEF TransIInv, TypeOK, SenderPlaces, ReceiverPlaces, Processes, Signals
<1>2. Outside'
  BY <1>h, <1>p DEF TransIInv, TypeOK, Outside
<1>3. Turns'
  BY <1>h, <1>p DEF TransIInv, TypeOK, Turns, SenderTurn, ReceiverTurn
<1>4. Ends'
  BY <1>h, <1>p DEF TransIInv, TypeOK, Ends
<1>5. Amounts'
  BY <1>h, <1>p DEF TransIInv, TypeOK, Amounts, Due, Written
<1>6. Contents'
  BY <1>h, <1>p DEF TransIInv, TypeOK, Contents, NextBlock
<1>7. \A x \in Senders : pos'[x] <= file'[x].blocks + 1
  BY <1>h, <1>p DEF TransIInv, TypeOK
<1> QED  BY <1>1, <1>2, <1>3, <1>4, <1>5, <1>6, <1>7 DEF TransIInv

(* A block is stored. *)
LEMMA StepOnUsr1 ==
  ASSUME TransIInv, NEW m \in pending[R], m.sig = "USR1", OnUsr1(m), UNCHANGED <<sender, out>>
  PROVE  TransIInv'
<1> USE DEF OnUsr1, sender
<1>y. pending' \in [Processes -> SUBSET Signals]
  BY DEF TransIInv, TypeOK, Processes, Signals
<1>m. m \in Signals
  BY DEF TransIInv, TypeOK, Signals
<1>p. /\ \A x \in Senders : pending'[x] = pending[x]
      /\ pending'[R] \subseteq pending[R]
  BY TransAssumption DEF TransIInv, TypeOK
<1>h. /\ \A x \in Senders : Has(x, "USR1")' <=> Has(x, "USR1")
      /\ Has(R, "USR1")' => Has(R, "USR1")
      /\ Has(R, "TERM")' => Has(R, "TERM")
  BY <1>p DEF Has
<1>t. Has(R, "USR1") /\ rpc = "receive"
  BY DEF Has, TransIInv, Turns
<1>1. TypeOK'
  BY <1>y, <1>m, TransAssumption DEF TransIInv, TypeOK, SenderPlaces, ReceiverPlaces, Processes, Signals
<1>2. Outside'
  BY <1>h, <1>p, <1>t DEF TransIInv, TypeOK, Outside
<1>3. Turns'
  BY <1>h, <1>p, <1>t DEF TransIInv, TypeOK, Turns, SenderTurn, ReceiverTurn
<1>4. Ends'
  BY <1>h, <1>p, <1>t DEF TransIInv, TypeOK, Ends
<1>5. Amounts'
  BY <1>h, <1>p, <1>t DEF TransIInv, TypeOK, Amounts, Due, Written
<1>6. Contents'
  BY <1>h, <1>p, <1>t DEF TransIInv, TypeOK, Contents, NextBlock
<1>7. \A x \in Senders : pos'[x] <= file'[x].blocks + 1
  BY <1>h, <1>p, <1>t DEF TransIInv, TypeOK
<1> QED  BY <1>1, <1>2, <1>3, <1>4, <1>5, <1>6, <1>7 DEF TransIInv

(* The receiver is told of the end. *)
LEMMA StepOnTerm ==
  ASSUME TransIInv, NEW m \in pending[R], m.sig = "TERM", OnTerm(m), UNCHANGED <<sender, out>>
  PROVE  TransIInv'
<1> USE DEF OnTerm, sender
<1>y. pending' \in [Processes -> SUBSET Signals]
  BY DEF TransIInv, TypeOK, Processes, Signals
<1>m. m \in Signals
  BY DEF TransIInv, TypeOK, Signals
<1>p. /\ \A x \in Senders : pending'[x] = pending[x]
      /\ pending'[R] \subseteq pending[R]
  BY TransAssumption DEF TransIInv, TypeOK
<1>h. /\ \A x \in Senders : Has(x, "USR1")' <=> Has(x, "USR1")
      /\ Has(R, "USR1")' => Has(R, "USR1")
      /\ Has(R, "TERM")' => Has(R, "TERM")
  BY <1>p DEF Has
<1>t. Has(R, "TERM")
  BY DEF Has
<1>1. TypeOK'
  BY <1>y, TransAssumption DEF TransIInv, TypeOK, SenderPlaces, ReceiverPlaces, Processes, Signals
<1>2. Outside'
  BY <1>h, <1>p, <1>t DEF TransIInv, TypeOK, Outside
<1>3. Turns'
  BY <1>h, <1>p, <1>t DEF TransIInv, TypeOK, Turns, SenderTurn, ReceiverTurn
<1>4. Ends'
  BY <1>h, <1>p, <1>t DEF TransIInv, TypeOK, Ends
<1>5. Amounts'
  BY <1>h, <1>p, <1>t DEF TransIInv, TypeOK, Amounts, Due, Written
<1>6. Contents'
  BY <1>h, <1>p, <1>t DEF TransIInv, TypeOK, Contents, NextBlock
<1>7. \A x \in Senders : pos'[x] <= file'[x].blocks + 1
  BY <1>h, <1>p, <1>t DEF TransIInv, TypeOK
<1> QED  BY <1>1, <1>2, <1>3, <1>4, <1>5, <1>6, <1>7 DEF TransIInv

(* Another sender greets: it is killed. *)
LEMMA StepOnChldOther ==
  ASSUME TransIInv, NEW m \in pending[R], NEW m2 \in Signals, m.sig = "CHLD", m2.sig = "KILL",
         pending' = [Sent(m.from, m2) EXCEPT ![R] = @ \ {m}],
         UNCHANGED <<rpc, rflag, more, peer, mem, sender, out>>
  PROVE  TransIInv'
<1> USE DEF sender
<1>k. m.from \in Senders /\ m.from # R
  BY TransAssumption DEF TransIInv, Turns
<1>s. Sent(m.from, m2) \in [Processes -> SUBSET Signals]
  BY <1>k, SentType DEF Processes, TransIInv
<1>y. pending' \in [Processes -> SUBSET Signals]
  BY <1>s DEF Processes
<1>p. /\ \A x \in Senders : pending'[x] \in {pending[x], pending[x] \cup {m2}}
      /\ pending'[R] \subseteq pending[R]
  <2>1. /\ \A x \in Processes : Sent(m.from, m2)[x] \in {pending[x], pending[x] \cup {m2}}
        /\ Sent(m.from, m2)[R] = pending[R]
    <3>1. TypeOK /\ m.from \in Processes
      BY <1>k DEF Processes, TransIInv
    <3>2. \A x \in Processes : Sent(m.from, m2)[x] =
            IF x = m.from /\ Alive(m.from) /\ ~Has(m.from, m2.sig)
            THEN pending[x] \cup {m2} ELSE pending[x]
      BY <3>1, SentTo
    <3> QED  BY <3>2, <1>k DEF Processes
  <2> QED  BY <2>1, <1>s, <1>k, TransAssumption DEF Processes
<1>h. /\ \A x \in Senders : Has(x, "USR1")' <=> Has(x, "USR1")
      /\ Has(R, "USR1")' => Has(R, "USR1")
      /\ Has(R, "TERM")' => Has(R, "TERM")
  BY <1>p DEF Has
<1>1. TypeOK'
  BY <1>y, TransAssumption DEF TransIInv, TypeOK, SenderPlaces, ReceiverPlaces, Processes, Signals
<1>2. Outside'
  BY <1>h, <1>p DEF TransIInv, TypeOK, Outside
<1>3. Turns'
  BY <1>h, <1>p DEF TransIInv, TypeOK, Turns, SenderTurn, ReceiverTurn
<1>4. Ends'
  BY <1>h, <1>p DEF TransIInv, TypeOK, Ends
<1>5. Amounts'
  BY <1>h, <1>p DEF TransIInv, TypeOK, Amounts, Due, Written
<1>6. Contents'
  BY <1>h, <1>p DEF TransIInv, TypeOK, Contents, NextBlock
<1>7. \A x \in Senders : pos'[x] <= file'[x].blocks + 1
  BY <1>h, <1>p DEF TransIInv, TypeOK
<1> QED  BY <1>1, <1>2, <1>3, <1>4, <1>5, <1>6, <1>7 DEF TransIInv

(* The first sender that greets is taken. *)
LEMMA StepOnChldFirst ==
  ASSUME TransIInv, NEW m \in pending[R], m.sig = "CHLD", Alive(R), peer \in {Nobody, m.from}, peer' = m.from,
         pending' = [pending EXCEPT ![R] = @ \ {m}],
         UNCHANGED <<rpc, rflag, more, mem, sender, out>>
  PROVE  TransIInv'
<1> USE DEF sender
<1>y. pending' \in [Processes -> SUBSET Signals]
  BY DEF TransIInv, TypeOK, Processes, Signals
<1>m. m \in Signals
  BY DEF TransIInv, TypeOK, Signals
<1>p. /\ \A x \in Senders : pending'[x] = pending[x]
      /\ pending'[R] \subseteq pending[R]
  BY TransAssumption DEF TransIInv, TypeOK
<1>h. /\ \A x \in Senders : Has(x, "USR1")' <=> Has(x, "USR1")
      /\ Has(R, "USR1")' => Has(R, "USR1")
      /\ Has(R, "TERM")' => Has(R, "TERM")
  BY <1>p DEF Has
<1>k. m.from \in Senders /\ m.from # Nobody
  BY TransAssumption DEF TransIInv, Turns, Nobody
<1>n. peer = Nobody =>
        /\ rpc = "ignition" /\ ~SenderTurn(m.from) /\ ~Has(R, "USR1") /\ ~Has(R, "TERM")
        /\ more /\ out = <<>> /\ pos[m.from] = 0
  BY <1>k DEF TransIInv, Turns, Outside, Ends, Amounts, Alive, SenderTurn
<1>e. \A x \in pending[R] : x.sig = "USR1" => Has(R, "USR1")
  BY DEF Has
<1>1. TypeOK'
  BY <1>y, <1>k, TransAssumption DEF TransIInv, TypeOK, SenderPlaces, ReceiverPlaces, Processes, Signals
<1>2. Outside'
  BY TransAssumption, <1>h, <1>p, <1>k, <1>n, <1>e DEF TransIInv, TypeOK, Outside, Nobody
<1>3. Turns'
  BY <1>h, <1>p, <1>k, <1>n, <1>e DEF TransIInv, TypeOK, Turns, SenderTurn, ReceiverTurn
<1>4. Ends'
  BY <1>h, <1>p, <1>k, <1>n, <1>e DEF TransIInv, TypeOK, Ends
<1>5. Amounts'
  BY <1>h, <1>p, <1>k, <1>n, <1>e DEF TransIInv, TypeOK, Amounts, Due, Written
<1>6. Contents'
  BY <1>h, <1>p, <1>k, <1>n, <1>e DEF TransIInv, TypeOK, Contents, NextBlock
<1>7. \A x \in Senders : pos'[x] <= file'[x].blocks + 1
  BY <1>h, <1>p, <1>k, <1>n, <1>e DEF TransIInv, TypeOK
<1> QED  BY <1>1, <1>2, <1>3, <1>4, <1>5, <1>6, <1>7 DEF TransIInv

(* The receiver is interrupted, and interrupts its sender. *)
LEMMA StepOnInt ==
  ASSUME TransIInv, NEW m \in Signals, m.sig = "INT", rpc' = "killed",
         pending' = IF peer = Nobody THEN [pending EXCEPT ![R] = {}]
                    ELSE [Sent(peer, m) EXCEPT ![R] = {}],
         Alive(R), UNCHANGED <<rflag, more, peer, mem, sender, out>>
  PROVE  TransIInv'
<1> USE DEF sender
<1>a. rpc # "done"
  BY DEF Alive
<1>t. pending \in [Processes -> SUBSET Signals]
  BY DEF TransIInv, TypeOK, Processes, Signals
<1>s. peer # Nobody => Sent(peer, m) \in [Processes -> SUBSET Signals]
  BY SentType DEF Processes, TransIInv, TypeOK
<1>y. pending' \in [Processes -> SUBSET Signals]
  BY <1>s, <1>t
<1>p. /\ \A x \in Senders : pending'[x] \in {pending[x], pending[x] \cup {m}}
      /\ pending'[R] = {}
  <2>1. peer # Nobody => \A x \in Processes : Sent(peer, m)[x] \in {pending[x], pending[x] \cup {m}}
    BY SentTo DEF Processes, TransIInv, TypeOK
  <2> QED  BY <2>1, <1>s, <1>t, TransAssumption DEF Processes
<1>h. /\ \A x \in Senders : Has(x, "USR1")' <=> Has(x, "USR1")
      /\ ~Has(R, "USR1")' /\ ~Has(R, "TERM")'
  BY <1>p DEF Has
<1>1. TypeOK'
  BY <1>y, TransAssumption DEF TransIInv, TypeOK, SenderPlaces, ReceiverPlaces, Processes, Signals
<1>2. Outside'
  BY <1>h, <1>p, <1>a DEF TransIInv, TypeOK, Outside
<1>3. Turns'
  BY <1>h, <1>p, <1>a DEF TransIInv, TypeOK, Turns, SenderTurn, ReceiverTurn
<1>4. Ends'
  BY <1>h, <1>p, <1>a DEF TransIInv, TypeOK, Ends
<1>5. Amounts'
  BY <1>h, <1>p, <1>a DEF TransIInv, TypeOK, Amounts, Due, Written
<1>6. Contents'
  BY <1>h, <1>p, <1>a DEF TransIInv, TypeOK, Contents, NextBlock
<1>7. \A x \in Senders : pos'[x] <= file'[x].blocks + 1
  BY <1>h, <1>p, <1>a DEF TransIInv, TypeOK
<1> QED  BY <1>1, <1>2, <1>3, <1>4, <1>5, <1>6, <1>7 DEF TransIInv

(* The terminal. *)
LEMMA StepInterrupt ==
  ASSUME TransIInv, NEW p \in Processes, Interrupt(p)
  PROVE  TransIInv'
<1> USE DEF Interrupt, sender, receiver
<1> DEFINE m == Signal("INT", Nobody, NoBlock)
<1>m. m \in Signals /\ m.sig = "INT" /\ m.from = Nobody /\ m.block = NoBlock
  BY SignalType, NoBlockType
<1>y. pending' \in [Processes -> SUBSET Signals]
  BY <1>m, SentType DEF TransIInv
<1>p. \A z \in Processes : pending'[z] \in {pending[z], pending[z] \cup {m}}
  BY SentTo DEF TransIInv
<1>r. pending'[R] \in {pending[R], pending[R] \cup {m}}
  BY <1>p DEF Processes
<1>h. /\ \A z \in Senders : Has(z, "USR1")' <=> Has(z, "USR1")
      /\ Has(R, "USR1")' <=> Has(R, "USR1")
      /\ Has(R, "TERM")' <=> Has(R, "TERM")
  BY <1>p, <1>m DEF Has, Processes
<1>1. TypeOK'
  BY <1>y, TransAssumption DEF TransIInv, TypeOK, SenderPlaces, ReceiverPlaces, Processes, Signals
<1>2. Outside'
  BY <1>h, <1>p, <1>m DEF TransIInv, TypeOK, Outside
<1>3. Turns'
  <2>1. (SenderTurn(peer) /\ peer # Nobody)' => SenderTurn(peer)
    BY <1>h DEF TransIInv, TypeOK, SenderTurn
  <2>2. ReceiverTurn' => ReceiverTurn
    BY <1>h DEF ReceiverTurn
  <2>3. \A x \in pending'[R] : x.sig = "CHLD" => x.from \in Senders
    BY <1>r, <1>m DEF TransIInv, Turns
  <2>4. \A s \in Senders : spc'[s] \in {"end", "queue"} => ~sflag'[s] /\ ~Has(s, "USR1")'
    BY <1>h DEF TransIInv, Turns
  <2> QED  BY <1>h, <2>1, <2>2, <2>3, <2>4 DEF TransIInv, Turns
<1>4. Ends'
  BY <1>h, <1>p, <1>m DEF TransIInv, TypeOK, Ends
<1>5. Amounts'
  BY <1>h, <1>p, <1>m DEF TransIInv, TypeOK, Amounts, Due, Written
<1>6. Contents'
  BY <1>h, <1>r, <1>m DEF TransIInv, TypeOK, Contents, NextBlock
<1>7. \A x \in Senders : pos'[x] <= file'[x].blocks + 1
  BY <1>h, <1>p, <1>m DEF TransIInv, TypeOK
<1> QED  BY <1>1, <1>2, <1>3, <1>4, <1>5, <1>6, <1>7 DEF TransIInv
(* A step of a sender. *)
LEMMA SenderSteps ==
  ASSUME TransIInv, NEW s \in Senders, SenderStep(s)
  PROVE  TransIInv'
<1>1. CASE Hello(s)  BY <1>1, StepHello
<1>2. CASE Confirmed(s)  BY <1>2, StepConfirmed
<1>3. CASE Read(s)  BY <1>3, StepRead
<1>4. CASE End(s)  BY <1>4, StepEnd
<1>5. CASE Queue(s)  BY <1>5, StepQueue
<1>6. CASE Answered(s)  BY <1>6, StepAnswered
<1>7. CASE Bye(s)  BY <1>7, StepBye
<1>8. CASE SenderHandles(s)
  <2>1. PICK m \in pending[s] :
          \/ /\ m.sig = "USR1"
             /\ sflag' = [sflag EXCEPT ![s] = TRUE]
             /\ pending' = [pending EXCEPT ![s] = @ \ {m}]
             /\ UNCHANGED spc
          \/ /\ m.sig \in {"INT", "KILL"}
             /\ spc' = [spc EXCEPT ![s] = "killed"]
             /\ \/ pending' = [Sent(R, Signal("INT", s, NoBlock)) EXCEPT ![s] = {}]
                \/ pending' = [pending EXCEPT ![s] = {}]
             /\ UNCHANGED sflag
    BY <1>8 DEF SenderHandles
  <2>2. UNCHANGED <<file, pos, receiver>>
    BY <1>8 DEF SenderHandles
  <2>3. CASE m.sig = "USR1"
    BY <2>1, <2>2, <2>3, StepSenderTold
  <2>4. CASE m.sig # "USR1"
    <3> DEFINE i == Signal("INT", s, NoBlock)
    <3>1. i \in Signals /\ i.sig = "INT"
      BY SignalType, NoBlockType
    <3>2. \/ pending' = [Sent(R, i) EXCEPT ![s] = {}]
          \/ pending' = [pending EXCEPT ![s] = {}]
      BY <2>1, <2>4
    <3>3. spc' = [spc EXCEPT ![s] = "killed"] /\ UNCHANGED <<file, sflag, pos, receiver>>
      BY <2>1, <2>2, <2>4
    <3> HIDE DEF i
    <3> QED  BY <3>1, <3>2, <3>3, StepSenderKilled
  <2> QED  BY <2>3, <2>4
<1> QED  BY <1>1, <1>2, <1>3, <1>4, <1>5, <1>6, <1>7, <1>8 DEF SenderStep

(* A step of the receiver. *)
LEMMA ReceiverSteps ==
  ASSUME TransIInv, ReceiverStep
  PROVE  TransIInv'
<1>1. CASE Ignite  BY <1>1, StepIgnite
<1>2. CASE Clear  BY <1>2, StepClear
<1>3. CASE Ask  BY <1>3, StepAsk
<1>4. CASE Received  BY <1>4, StepReceived
<1>5. CASE Write  BY <1>5, StepWrite
<1>6. CASE WriteTail  BY <1>6, StepWriteTail
<1>7. CASE Last  BY <1>7, StepLast
<1>8. CASE ReceiverHandles
  <2>1. PICK m \in pending[R] : \/ m.sig = "USR1" /\ OnUsr1(m)
                                \/ m.sig = "TERM" /\ OnTerm(m)
                                \/ m.sig = "CHLD" /\ OnChld(m)
                                \/ m.sig = "INT" /\ OnInt
    BY <1>8 DEF ReceiverHandles
  <2>2. Alive(R) /\ UNCHANGED <<sender, out>>
    BY <1>8 DEF ReceiverHandles
  <2>3. CASE m.sig = "USR1" /\ OnUsr1(m)
    BY <2>2, <2>3, StepOnUsr1
  <2>4. CASE m.sig = "TERM" /\ OnTerm(m)
    BY <2>2, <2>4, StepOnTerm
  <2>5. CASE m.sig = "CHLD" /\ OnChld(m)
    <3> DEFINE k == Signal("KILL", R, NoBlock)
    <3>1. k \in Signals /\ k.sig = "KILL"
      BY SignalType, NoBlockType
    <3>2. \/ pending' = [Sent(m.from, k) EXCEPT ![R] = @ \ {m}] /\ UNCHANGED peer
          \/ /\ peer \in {Nobody, m.from} /\ peer' = m.from
             /\ pending' = [pending EXCEPT ![R] = @ \ {m}]
      BY <2>5 DEF OnChld
    <3>3. UNCHANGED <<rpc, rflag, more, mem>>
      BY <2>5 DEF OnChld
    <3> HIDE DEF k
    <3>4. CASE pending' = [Sent(m.from, k) EXCEPT ![R] = @ \ {m}] /\ UNCHANGED peer
      BY <2>2, <2>5, <3>1, <3>3, <3>4, StepOnChldOther
    <3>5. CASE /\ peer \in {Nobody, m.from} /\ peer' = m.from
               /\ pending' = [pending EXCEPT ![R] = @ \ {m}]
      BY <2>2, <2>5, <3>3, <3>5, StepOnChldFirst
    <3> QED  BY <3>2, <3>4, <3>5
  <2>6. CASE OnInt
    <3> DEFINE k == Signal("INT", R, NoBlock)
    <3>1. k \in Signals /\ k.sig = "INT"
      BY SignalType, NoBlockType
    <3>2. /\ rpc' = "killed" /\ UNCHANGED <<rflag, more, peer, mem>>
          /\ pending' = IF peer = Nobody THEN [pending EXCEPT ![R] = {}]
                        ELSE [Sent(peer, k) EXCEPT ![R] = {}]
      BY <2>6 DEF OnInt
    <3> HIDE DEF k
    <3> QED  BY <2>2, <3>1, <3>2, StepOnInt
  <2> QED  BY <2>1, <2>3, <2>4, <2>5, <2>6
<1> QED  BY <1>1, <1>2, <1>3, <1>4, <1>5, <1>6, <1>7, <1>8 DEF ReceiverStep

(* A step that changes nothing. *)
LEMMA TransStutter ==
  ASSUME TransIInv, UNCHANGED vars
  PROVE  TransIInv'
<1> USE DEF vars
<1>h. \A x, sig : Has(x, sig)' <=> Has(x, sig)
  BY DEF Has
<1>1. TypeOK'  BY DEF TransIInv, TypeOK
<1>2. Outside'  BY <1>h DEF TransIInv, Outside
<1>3. Turns'  BY <1>h DEF TransIInv, Turns, SenderTurn, ReceiverTurn
<1>4. Ends'  BY <1>h DEF TransIInv, Ends
<1>5. Amounts'  BY <1>h DEF TransIInv, Amounts, Due, Written
<1>6. Contents'  BY <1>h DEF TransIInv, Contents, NextBlock
<1> QED  BY <1>1, <1>2, <1>3, <1>4, <1>5, <1>6 DEF TransIInv

(* TransIInv holds in every state the programs reach: one SIGUSR1 goes to and *)
(* fro between the receiver and the one sender it has taken.                  *)
THEOREM TransInvariant == Spec => []TransIInv
<1>1. TransIInv /\ [Next]_vars => TransIInv'
  <2> SUFFICES ASSUME TransIInv, [Next]_vars PROVE TransIInv'
    OBVIOUS
  <2>1. CASE \E s \in Senders : SenderStep(s)
    BY <2>1, SenderSteps
  <2>2. CASE ReceiverStep
    BY <2>2, ReceiverSteps
  <2>3. CASE \E x \in Senders \cup {R} : Interrupt(x)
    BY <2>3, StepInterrupt DEF Processes
  <2>4. CASE UNCHANGED vars
    BY <2>4, TransStutter
  <2> QED  BY <2>1, <2>2, <2>3, <2>4 DEF Next
<1> QED  BY TransInit, <1>1, PTL DEF Spec

(* The variables of both programs keep their types: pos never passes the rest *)
(* of the file, the pid the receiver keeps is a sender's.                     *)
THEOREM TransTypes == Spec => []TypeOK
<1>1. TransIInv => TypeOK
  BY DEF TransIInv
<1> QED  BY TransInvariant, <1>1, PTL

(* Nothing carried by a signal is lost: when a sender queues a block the      *)
(* receiver has no other pending, waits, and has its flag down, or was killed *)
(* (main.c:69, handler.c:74).                                                 *)
THEOREM TransDropsNothing == Spec => []NoBlockDropped
<1>1. TransIInv => NoBlockDropped
  BY TransAssumption
  DEF TransIInv, TypeOK, ReceiverPlaces, Outside, Turns, Ends, SenderTurn, ReceiverTurn, NoBlockDropped, Nobody
<1> QED  BY TransInvariant, <1>1, PTL

(* What the receiver writes is a beginning of the file of the sender it has   *)
(* taken, in order and without a gap.                                         *)
THEOREM TransCopiesInOrder == Spec => []OutIsPrefix
<1>1. TransIInv => OutIsPrefix
  <2> SUFFICES ASSUME TransIInv, peer # Nobody, file[peer].bad # "eio"
               PROVE  /\ Len(out) <= file[peer].blocks + 1
                      /\ \A n \in 1..Len(out) : out[n] = [from |-> peer, k |-> n]
    BY DEF OutIsPrefix
  <2>1. /\ peer \in Senders /\ Len(out) \in Nat /\ pos[peer] \in Nat
        /\ file[peer].blocks \in 0..MaxBlocks
    BY FileType DEF TransIInv, TypeOK
  <2>2. Len(out) <= pos[peer] /\ pos[peer] <= file[peer].blocks + 1
    BY <2>1 DEF TransIInv, Amounts
  <2>3. MaxBlocks \in Nat
    BY TransAssumption
  <2> QED  BY <2>1, <2>2, <2>3 DEF TransIInv, Contents
<1> QED  BY TransInvariant, <1>1, PTL
=============================================================================
