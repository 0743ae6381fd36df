-------------------------------- MODULE Trans --------------------------------
(***************************************************************************)
(* trans: main.c (the senders) and handler.c (the receiver) move a file in *)
(* blocks of eight bytes carried by SIGUSR1.  Standard signals do not      *)
(* queue: one that is already pending is dropped with what it carries.     *)
(***************************************************************************)
EXTENDS Integers, Sequences, FiniteSets

CONSTANTS Senders,    \* the sending processes
          MaxBlocks,  \* bound: full blocks in a file
          Files,      \* what argv[1] may name
          Interrupts  \* the processes that may get SIGINT from the terminal

R == "receiver"

(* A file has a rest that is no full block, with a zero byte in it or not; it  *)
(* may be absent, not regular, or fail to be read after its blocks.           *)
File == [blocks : 0..MaxBlocks, tail : {"none", "text", "nul"},
         bad : {"no", "absent", "special", "eio"}]

ASSUME TransAssumption ==
  /\ {R, "nobody"} \cap Senders = {}   \* pids are distinct
  /\ MaxBlocks \in Nat /\ Files \subseteq File
  /\ Interrupts \subseteq Senders \cup {R}

Nobody == "nobody"
NoBlock == [from |-> Nobody, k |-> 0]   \* what a plain kill carries

VARIABLES
  file,             \* file[s]: the file of sender s
  spc, sflag, pos,  \* sender: where it is, flag, blocks read
  rpc, rflag, more, \* receiver: where it is, flag, i
  peer, mem,        \* receiver: pid (Nobody is 0) and the block received
  out,              \* what the receiver has written
  pending           \* pending[x]: the signals sent to x and not yet handled

vars == <<file, spc, sflag, pos, rpc, rflag, more, peer, mem, out, pending>>
sender == <<file, spc, sflag, pos>>
receiver == <<rpc, rflag, more, peer, mem, out>>

Alive(x) == IF x = R THEN rpc \notin {"done", "killed"} ELSE spc[x] \notin {"done", "killed"}
Has(x, sig) == \E m \in pending[x] : m.sig = sig
Signal(sig, from, block) == [sig |-> sig, from |-> from, block |-> block]

(* kill and sigqueue: nothing happens to a process that is gone, and a signal *)
(* that is already pending is not queued a second time.                       *)
Sent(x, m) ==
  [pending EXCEPT ![x] = IF Alive(x) /\ ~Has(x, m.sig) THEN @ \cup {m} ELSE @]

Init == /\ file \in [Senders -> Files]
        /\ spc = [s \in Senders |-> "hello"] /\ sflag = [s \in Senders |-> FALSE]
        /\ pos = [s \in Senders |-> 0]
        /\ rpc = "ignition" /\ rflag = TRUE /\ more = TRUE
        /\ peer = Nobody /\ mem = NoBlock /\ out = <<>>
        /\ pending = [x \in Senders \cup {R} |-> {}]

(* The main code of a process runs when no handler has to run first. *)
Ready(x) == Alive(x) /\ pending[x] = {}
SGo(s, from, to) == Ready(s) /\ spc[s] = from /\ spc' = [spc EXCEPT ![s] = to]
RGo(from, to) == Ready(R) /\ rpc = from /\ rpc' = to
-----------------------------------------------------------------------------
(* main.c *)
Hello(s) ==
  /\ SGo(s, "hello", "confirm")
  /\ pending' = Sent(R, Signal("CHLD", s, NoBlock))
  /\ UNCHANGED <<file, sflag, pos, receiver>>

(* The file is opened after the receiver answered: if it cannot be opened or  *)
(* is not regular the sender returns.                                         *)
Confirmed(s) ==
  /\ sflag[s]
  /\ SGo(s, "confirm", IF file[s].bad \in {"absent", "special"} THEN "done" ELSE "read")
  /\ UNCHANGED <<file, sflag, pos, receiver, pending>>

(* Mutant: flag is not reset. *)
ReadFlagKept(s) ==
  /\ SGo(s, "read", IF pos[s] < file[s].blocks THEN "queue" ELSE "end")
  /\ pos' = [pos EXCEPT ![s] = @ + 1]
  /\ UNCHANGED <<file, sflag, receiver, pending>>

(* Mutant: a block is counted twice. *)
ReadTwice(s) ==
  /\ SGo(s, "read", IF pos[s] < file[s].blocks THEN "queue" ELSE "end")
  /\ pos' = [pos EXCEPT ![s] = @ + 2] /\ sflag' = [sflag EXCEPT ![s] = FALSE]
  /\ UNCHANGED <<file, receiver, pending>>

Read(s) ==
  /\ sflag' = [sflag EXCEPT ![s] = FALSE]
  /\ \/ SGo(s, "read", "queue") /\ pos[s] < file[s].blocks
     \/ SGo(s, "read", "end") /\ pos[s] = file[s].blocks /\ file[s].bad # "eio"
     \/ SGo(s, "read", "queue") /\ pos[s] = file[s].blocks /\ file[s].bad = "eio"
  /\ pos' = [pos EXCEPT ![s] = @ + 1]
  /\ UNCHANGED <<file, receiver, pending>>

(* Mutant: SIGTERM is only sent after the loop. *)
EndSilent(s) ==
  /\ SGo(s, "end", "queue")
  /\ UNCHANGED <<file, sflag, pos, receiver, pending>>

End(s) ==
  /\ SGo(s, "end", "queue")
  /\ pending' = Sent(R, Signal("TERM", s, NoBlock))
  /\ UNCHANGED <<file, sflag, pos, receiver>>

(* A failed read queues whatever the buffer holds. *)
Queue(s) ==
  LET failed == file[s].bad = "eio" /\ pos[s] > file[s].blocks
      block == [from |-> s, k |-> IF failed THEN 0 ELSE pos[s]]
  IN /\ SGo(s, "queue", "wait")
     /\ pending' = Sent(R, Signal("USR1", s, block))
     /\ UNCHANGED <<file, sflag, pos, receiver>>

Answered(s) ==
  /\ sflag[s]
  /\ SGo(s, "wait", IF pos[s] <= file[s].blocks THEN "read" ELSE "bye")
  /\ UNCHANGED <<file, sflag, pos, receiver, pending>>

Bye(s) ==
  /\ SGo(s, "bye", "done")
  /\ pending' = Sent(R, Signal("TERM", s, NoBlock))
  /\ UNCHANGED <<file, sflag, pos, receiver>>

(* handler and send_stop; a SIGKILL takes no handler. *)
SenderHandles(s) ==
  /\ Alive(s) /\ \E m \in pending[s] :
       \/ /\ m.sig = "USR1"
          /\ sflag' = [sflag EXCEPT ![s] = TRUE]
          /\ pending' = [pending EXCEPT ![s] = @ \ {m}]
          /\ UNCHANGED spc
       \/ /\ m.sig \in {"INT", "KILL"}
          /\ spc' = [spc EXCEPT ![s] = "killed"]
          /\ pending' = IF m.sig = "INT" /\ spc[s] \notin {"hello", "confirm"}
                        THEN [Sent(R, Signal("INT", s, NoBlock)) EXCEPT ![s] = {}]
                        ELSE [pending EXCEPT ![s] = {}]
          /\ UNCHANGED sflag
  /\ UNCHANGED <<file, pos, receiver>>
-----------------------------------------------------------------------------
(* handler.c *)
Ignite ==
  /\ peer # Nobody /\ RGo("ignition", "clear")
  /\ UNCHANGED <<sender, rflag, more, peer, mem, out, pending>>

Clear ==
  /\ RGo("clear", "ask") /\ rflag' = FALSE
  /\ UNCHANGED <<sender, more, peer, mem, out, pending>>

Ask ==
  /\ RGo("ask", "receive")
  /\ pending' = Sent(peer, Signal("USR1", R, NoBlock))
  /\ UNCHANGED <<sender, rflag, more, peer, mem, out>>

Received ==
  /\ rflag /\ RGo("receive", IF more THEN "write" ELSE "tail")
  /\ UNCHANGED <<sender, rflag, more, peer, mem, out, pending>>

Write ==
  /\ RGo("write", "clear") /\ out' = Append(out, mem)
  /\ UNCHANGED <<sender, rflag, more, peer, mem, pending>>

(* The rest is written up to its first zero byte. *)
Tail1(b) == IF file[b.from].tail = "text" THEN <<b>> ELSE <<>>
WriteTail ==
  /\ RGo("tail", "last") /\ out' = out \o Tail1(mem)
  /\ UNCHANGED <<sender, rflag, more, peer, mem, pending>>

Last ==
  /\ RGo("last", "done")
  /\ pending' = [Sent(peer, Signal("USR1", R, NoBlock)) EXCEPT ![R] = {}]
  /\ UNCHANGED <<sender, rflag, more, peer, mem, out>>

(* shandler_1, handler_stop, killrest, receiver_stop. *)
OnUsr1(m) == /\ mem' = m.block /\ rflag' = TRUE
             /\ pending' = [pending EXCEPT ![R] = @ \ {m}]
             /\ UNCHANGED <<rpc, more, peer>>
OnTerm(m) == /\ more' = FALSE
             /\ pending' = [pending EXCEPT ![R] = @ \ {m}]
             /\ UNCHANGED <<rpc, rflag, peer, mem>>

(* Mutant: any sender that greets is taken. *)
OnChldAny(m) ==
  /\ pending' = [pending EXCEPT ![R] = @ \ {m}] /\ peer' = m.from
  /\ UNCHANGED <<rpc, rflag, more, mem>>

OnChld(m) ==
  /\ \/ /\ peer \notin {Nobody, m.from}
        /\ pending' = [Sent(m.from, Signal("KILL", R, NoBlock)) EXCEPT ![R] = @ \ {m}]
        /\ UNCHANGED peer
     \/ /\ peer \in {Nobody, m.from}
        /\ pending' = [pending EXCEPT ![R] = @ \ {m}]
        /\ peer' = m.from
  /\ UNCHANGED <<rpc, rflag, more, mem>>
(* Mutant: the receiver dies alone. *)
OnIntAlone == /\ rpc' = "killed" /\ pending' = [pending EXCEPT ![R] = {}]
              /\ UNCHANGED <<rflag, more, peer, mem>>

OnInt == /\ rpc' = "killed"
         /\ pending' = IF peer = Nobody THEN [pending EXCEPT ![R] = {}]
                       ELSE [Sent(peer, Signal("INT", R, NoBlock)) EXCEPT ![R] = {}]
         /\ UNCHANGED <<rflag, more, peer, mem>>

ReceiverHandles ==
  /\ Alive(R) /\ \E m \in pending[R] :
       \/ m.sig = "USR1" /\ OnUsr1(m)
       \/ m.sig = "TERM" /\ OnTerm(m)
       \/ m.sig = "CHLD" /\ OnChld(m)
       \/ m.sig = "INT" /\ OnInt
  /\ UNCHANGED <<sender, out>>
-----------------------------------------------------------------------------
(* The terminal interrupts a process. *)
Interrupt(x) ==
  /\ Alive(x) /\ x \in Interrupts
  /\ pending' = Sent(x, Signal("INT", Nobody, NoBlock))
  /\ UNCHANGED <<sender, receiver>>

SenderStep(s) == \/ Hello(s) \/ Confirmed(s) \/ Read(s) \/ End(s) \/ Queue(s)
                 \/ Answered(s) \/ Bye(s) \/ SenderHandles(s)
ReceiverStep == \/ Ignite \/ Clear \/ Ask \/ Received \/ Write \/ WriteTail \/ Last
                \/ ReceiverHandles
Next == \/ \E s \in Senders : SenderStep(s)
        \/ ReceiverStep
        \/ \E x \in Senders \cup {R} : Interrupt(x)

Spec == Init /\ [][Next]_vars
(* Every process runs and handles its signals; nobody has to interrupt. *)
FairSpec == Spec /\ WF_vars(ReceiverStep) /\ \A s \in Senders : WF_vars(SenderStep(s))
-----------------------------------------------------------------------------
SenderPlaces == {"hello", "confirm", "read", "end", "queue", "wait", "bye", "done", "killed"}
ReceiverPlaces == {"ignition", "clear", "ask", "receive", "write", "tail", "last", "done", "killed"}
Blocks == [from : Senders \cup {Nobody}, k : 0..(MaxBlocks + 1)]
TypeOK ==
  /\ file \in [Senders -> Files] /\ spc \in [Senders -> SenderPlaces]
  /\ sflag \in [Senders -> BOOLEAN] /\ pos \in [Senders -> 0..(MaxBlocks + 1)]
  /\ rpc \in ReceiverPlaces /\ rflag \in BOOLEAN /\ more \in BOOLEAN
  /\ peer \in Senders \cup {Nobody} /\ mem \in Blocks /\ out \in Seq(Blocks)
  /\ pending \in [Senders \cup {R} -> SUBSET
       [sig : {"USR1", "TERM", "CHLD", "INT", "KILL"},
        from : Senders \cup {R, Nobody}, block : Blocks]]

(* Nothing carried by a signal is lost: when a sender queues a block, the      *)
(* receiver has handled and stored the one before (main.c:69, handler.c:74).   *)
NoBlockDropped ==
  \A s \in Senders : spc[s] = "queue" =>
    ~Has(R, "USR1") /\ rpc \in {"receive", "killed"} /\ ~rflag

(* The output is a beginning of the file of the one sender the receiver knows, *)
(* in order, whoever else greets, as long as that file's reads do not fail.    *)
OutIsPrefix ==
  peer # Nobody /\ file[peer].bad # "eio" =>
    /\ Len(out) <= file[peer].blocks + 1
    /\ \A n \in 1..Len(out) : out[n] = [from |-> peer, k |-> n]

(* Once a sender is taken, a file that can be read and whose rest holds no     *)
(* zero byte is copied whole and both programs return, unless one of the two   *)
(* is killed.                                                                  *)
Whole(s) == Len(out) = file[s].blocks + (IF file[s].tail = "none" THEN 0 ELSE 1)
TransferEnds ==
  \A s \in Senders : peer = s /\ file[s].bad = "no" /\ file[s].tail # "nul" ~>
    \/ rpc = "done" /\ spc[s] = "done" /\ Whole(s)
    \/ rpc = "killed" \/ spc[s] = "killed"

(* Once a sender knows that it was taken, SIGINT at either program of the      *)
(* transfer kills both; if the transfer wins the race, both have returned      *)
(* (readme.md:17).                                                             *)
InterruptStopsBoth ==
  \A s \in Senders :
    peer = s /\ spc[s] \notin {"hello", "confirm"} /\ (Has(s, "INT") \/ Has(R, "INT"))
      ~> ~Alive(R) /\ ~Alive(s)
==============================================================================
