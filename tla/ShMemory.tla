------------------------------ MODULE ShMemory ------------------------------
(***************************************************************************)
(* sh_memory: main.c hands a file to hand.c byte by byte through a shared  *)
(* cell.  sem1 tells main that the cell was taken, sem2 tells hand that    *)
(* there is something to look at, and SIGUSR1 that there is no more.       *)
(* main has made both semaphores when hand starts (readme.md:9).           *)
(***************************************************************************)
EXTENDS Integers, Sequences

CONSTANTS MaxSize,  \* bound: the largest file
          MaxGrow   \* bound: bytes the file may grow by after fstat

ASSUME BoundsAssumption == MaxSize \in Nat /\ MaxGrow \in Nat

VARIABLES
  size, len,     \* st_size as main saw it; the bytes read will return
  mpc, i,        \* main: where it is, bytes done
  hpc, flag,     \* hand: where it is, its flag
  pending,       \* SIGUSR1 sent and not yet handled
  sem1, sem2,
  cell,          \* sh_str[0]: the index of a byte of the file, 0 at first
  out            \* what hand has written

vars == <<size, len, mpc, i, hpc, flag, pending, sem1, sem2, cell, out>>
mainVars == <<mpc, i>>
handVars == <<hpc, flag, pending, out>>

Init == /\ size \in 0..MaxSize /\ len \in 0..(size + MaxGrow)
        /\ mpc = "wait_pid" /\ i = 0
        /\ hpc = "start" /\ flag = TRUE /\ pending = FALSE
        /\ sem1 = 0 /\ sem2 = 0 /\ cell = 0 /\ out = <<>>

MainGo(from, to) == mpc = from /\ mpc' = to
HandGo(from, to) == hpc = from /\ hpc' = to
Wait(s) == s > 0 /\ s' = s - 1
Post(s) == s' = s + 1
-----------------------------------------------------------------------------
(* main *)
MainPid ==
  /\ MainGo("wait_pid", "read") /\ Wait(sem1)
  /\ UNCHANGED <<size, len, i, handVars, sem2, cell>>

MainStore ==
  /\ MainGo("read", "post") /\ i < len
  /\ cell' = i + 1
  /\ UNCHANGED <<size, len, i, handVars, sem1, sem2>>

(* Mutant: no byte waits for hand. *)
MainPostNoWait ==
  /\ MainGo("post", "read") /\ Post(sem2)
  /\ i' = i + 1
  /\ UNCHANGED <<size, len, handVars, sem1, cell>>

(* Only a byte that is not the last one waits for hand to take it. *)
MainPost ==
  /\ mpc = "post" /\ Post(sem2)
  /\ \/ i < size - 1 /\ mpc' = "wait" /\ UNCHANGED i
     \/ i >= size - 1 /\ mpc' = "read" /\ i' = i + 1
  /\ UNCHANGED <<size, len, handVars, sem1, cell>>

MainWait ==
  /\ MainGo("wait", "read") /\ Wait(sem1)
  /\ i' = i + 1
  /\ UNCHANGED <<size, len, handVars, sem2, cell>>

MainKill ==
  /\ MainGo("read", "last_post") /\ i >= len
  /\ pending' = (hpc # "done")
  /\ UNCHANGED <<size, len, i, hpc, flag, out, sem1, sem2, cell>>

(* Mutant: the last post is forgotten. *)
MainLastPostLost ==
  /\ MainGo("last_post", "last_wait")
  /\ UNCHANGED <<size, len, i, handVars, sem1, sem2, cell>>

(* main does not wait for the signal to have been handled. *)
MainLastPost ==
  /\ MainGo("last_post", "last_wait") /\ Post(sem2)
  /\ UNCHANGED <<size, len, i, handVars, sem1, cell>>

MainLastWait ==
  /\ MainGo("last_wait", "done") /\ Wait(sem1)
  /\ UNCHANGED <<size, len, i, handVars, sem2, cell>>
-----------------------------------------------------------------------------
(* hand *)
(* shandler_1 runs when a system call returns, if the signal is pending.      *)
Handled == flag' = (flag /\ ~pending) /\ pending' = FALSE

HandStart ==
  /\ HandGo("start", "wait") /\ Post(sem1)
  /\ UNCHANGED <<size, len, mainVars, flag, pending, out, sem2, cell>>

(* Mutant: hand does not wait for main. *)
HandNoWait ==
  /\ HandGo("wait", "check") /\ sem2' = sem2 - 1
  /\ UNCHANGED <<size, len, mainVars, flag, pending, out, sem1, cell>>

(* The semaphore is free: sem_wait takes it without a system call, and a      *)
(* signal that is pending may stay so.                                        *)
HandWait ==
  /\ HandGo("wait", "check") /\ Wait(sem2)
  /\ UNCHANGED <<size, len, mainVars, flag, pending, out, sem1, cell>>

(* It is not: sem_wait goes to sleep in the kernel, which lets the handler    *)
(* run before it returns.                                                     *)
HandSleep ==
  /\ HandGo("wait", "asleep") /\ sem2 = 0
  /\ Handled
  /\ UNCHANGED <<size, len, mainVars, out, sem1, sem2, cell>>

HandWake ==
  /\ HandGo("asleep", "check") /\ Wait(sem2)
  /\ Handled
  /\ UNCHANGED <<size, len, mainVars, out, sem1, cell>>

HandCheck ==
  /\ HandGo("check", IF flag THEN "write" ELSE "leave")
  /\ UNCHANGED <<size, len, mainVars, flag, pending, out, sem1, sem2, cell>>

(* A signal sent before the write returns is handled by then. *)
HandWrite ==
  /\ HandGo("write", "post")
  /\ out' = Append(out, cell)
  /\ Handled
  /\ UNCHANGED <<size, len, mainVars, sem1, sem2, cell>>

HandPost ==
  /\ HandGo("post", "wait") /\ Post(sem1)
  /\ UNCHANGED <<size, len, mainVars, flag, pending, out, sem2, cell>>

HandLeave ==
  /\ HandGo("leave", "done") /\ Post(sem1)
  /\ UNCHANGED <<size, len, mainVars, flag, pending, out, sem2, cell>>

(* shandler_1 at any other moment *)
Deliver ==
  /\ pending /\ hpc # "done"
  /\ flag' = FALSE /\ pending' = FALSE
  /\ UNCHANGED <<size, len, mainVars, hpc, out, sem1, sem2, cell>>
-----------------------------------------------------------------------------
Main == MainPid \/ MainStore \/ MainPost \/ MainWait \/ MainKill \/ MainLastPost \/ MainLastWait
Hand == HandStart \/ HandWait \/ HandSleep \/ HandWake \/ HandCheck \/ HandWrite \/ HandPost \/ HandLeave
(* main has ended; hand too, or it waits for a post that will never come. *)
Done == mpc = "done" /\ (hpc = "done" \/ (hpc = "asleep" /\ sem2 = 0)) /\ UNCHANGED vars
Next == Main \/ Hand \/ Deliver \/ Done
Spec == Init /\ [][Next]_vars
(* Both processes run, and a signal is delivered. *)
FairSpec == Spec /\ WF_vars(Main) /\ WF_vars(Hand) /\ WF_vars(Deliver)

MainPlaces == {"wait_pid", "read", "post", "wait", "last_post", "last_wait", "done"}
HandPlaces == {"start", "wait", "asleep", "check", "write", "post", "leave", "done"}
TypeOK ==
  /\ size \in Nat /\ len \in Nat /\ mpc \in MainPlaces /\ i \in Nat
  /\ hpc \in HandPlaces /\ flag \in BOOLEAN /\ pending \in BOOLEAN
  /\ sem1 \in Nat /\ sem2 \in Nat /\ cell \in 0..len
  /\ out \in Seq(Nat)

File(n) == [k \in 1..n |-> k]

(* A file that has not grown since fstat arrives byte by byte: what hand has   *)
(* written is a beginning of the file.  The final handshake (main.c:51-54)     *)
(* blurs its end by one byte either way: hand may leave without the last one,  *)
(* or, when main has posted for the end, take that post for one more byte and  *)
(* write the last byte again (for an empty file, the zero the cell began       *)
(* with); then it does not end.                                                *)
CopiedInOrder ==
  len <= size => /\ \/ \E n \in 0..len : out = File(n)
                    \/ mpc \in {"last_wait", "done"} /\ out = Append(File(len), len)
                 /\ mpc = "done" /\ hpc = "done" => Len(out) \in {len - 1, len}

(* The cell is not overwritten before hand has taken what it holds: when main  *)
(* is about to store a byte, hand has written all the earlier ones.            *)
NoOverwrite ==
  mpc = "read" /\ i < len /\ len <= size => Len(out) = i

(* Whatever became of the file meanwhile, main ends; and so does hand, unless  *)
(* it has taken the post for the end (main.c:53) as that of a byte, with the   *)
(* signal sent before it not yet handled, and written one byte too many.       *)
BothEnd == <>(mpc = "done" /\ (hpc = "done" \/ Len(out) = len + 1))
=============================================================================
