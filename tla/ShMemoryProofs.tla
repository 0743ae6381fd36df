--------------------------- MODULE ShMemoryProofs ---------------------------
(***************************************************************************)
(* Theorems about the byte-by-byte transfer, for files of any size.        *)
(***************************************************************************)
EXTENDS ShMemory, TLAPS, SequenceTheorems

(* hand is at its sem_wait, in user mode or asleep.                          *)
Waiting == hpc \in {"wait", "asleep"}

(* hand waits for a byte and nothing is on its way.                          *)
Idle == Waiting /\ sem1 = 0 /\ sem2 = 0

(* Byte k is in the cell and main has posted it: hand has not yet been       *)
(* woken, is at work on it, or has told main.                                *)
Taking(k) ==
  /\ cell = k
  /\ \/ Waiting /\ sem1 = 0 /\ sem2 = 1 /\ Len(out) = k - 1
     \/ hpc \in {"check", "write"} /\ sem1 = 0 /\ sem2 = 0 /\ Len(out) = k - 1
     \/ hpc = "post" /\ sem1 = 0 /\ sem2 = 0 /\ Len(out) = k
     \/ Waiting /\ sem1 = 1 /\ sem2 = 0 /\ Len(out) = k

(* Before the signal is sent: what main's place says of hand's.  Only behind *)
(* the last byte of the file is main back at the read with the byte not yet  *)
(* taken.                                                                    *)
BeforeEnd ==
  /\ flag /\ ~pending
  /\ mpc = "wait_pid" => /\ i = 0 /\ Len(out) = 0 /\ sem2 = 0 /\ cell = 0
                         /\ \/ hpc = "start" /\ sem1 = 0
                            \/ Waiting /\ sem1 = 1
  /\ mpc = "read" => /\ i <= len /\ cell = i
                     /\ \/ Idle /\ Len(out) = i
                        \/ i = len /\ Taking(len)
  /\ mpc = "post" => i < len /\ cell = i + 1 /\ Idle /\ Len(out) = i
  /\ mpc = "wait" => i < len /\ Taking(i + 1)

(* Once the signal is sent the last byte stays in the cell, and hand takes   *)
(* the posts that are left: one for each byte and the one for the end,       *)
(* whichever way its flag stands.                                            *)
Taken == Len(out) + (IF hpc \in {"check", "write", "leave", "done"} THEN 1 ELSE 0)
AfterKill ==
  /\ cell = len /\ Len(out) >= len - 1 /\ hpc # "start"
  /\ sem2 + Taken = IF mpc = "last_post" THEN len ELSE len + 1

(* The beginning of the file, or the file and its last byte again.           *)
Written == out = IF Len(out) <= len THEN File(Len(out)) ELSE Append(File(len), len)

Protocol ==
  len <= size =>
    /\ Len(out) <= len + 1 /\ Written
    /\ IF mpc \in {"wait_pid", "read", "post", "wait"} THEN BeforeEnd ELSE AfterKill

IInv == TypeOK /\ Protocol
-----------------------------------------------------------------------------
(* Writing the next byte of the file makes the longer beginning of it.       *)
LEMMA FileGrows ==
  ASSUME NEW n \in Nat
  PROVE  /\ File(n) \in Seq(Nat) /\ Len(File(n)) = n
         /\ Append(File(n), n + 1) = File(n + 1)
BY DEF File

(* Both programs begin so.                                                    *)
LEMMA InitIInv == Init => IInv
<1> SUFFICES ASSUME Init PROVE IInv
  OBVIOUS
<1>1. TypeOK
  <2>1. size \in Nat /\ len \in Nat /\ cell \in 0..len
    BY BoundsAssumption DEF Init
  <2>2. out \in Seq(Nat)
    BY DEF Init
  <2> QED BY <2>1, <2>2 DEF Init, TypeOK, MainPlaces, HandPlaces
<1>2. out = File(Len(out)) /\ Len(out) = 0
  BY DEF Init, File
<1> QED BY <1>1, <1>2 DEF Init, IInv, TypeOK, Protocol, BeforeEnd, Written

(* Every step keeps the types.                                               *)
LEMMA NextType == TypeOK /\ [Next]_vars => TypeOK'
<1> SUFFICES ASSUME TypeOK, [Next]_vars PROVE TypeOK'
  OBVIOUS
<1> USE DEF TypeOK, MainPlaces, HandPlaces, MainGo, HandGo, Wait, Post, mainVars, handVars
<1>1. CASE Main
  <2>1. CASE MainKill
    BY <2>1 DEF MainKill
  <2>2. CASE MainPid \/ MainStore
    BY <2>2 DEF MainPid, MainStore
  <2>3. CASE MainPost \/ MainWait
    BY <2>3 DEF MainPost, MainWait
  <2>4. CASE MainLastPost \/ MainLastWait
    BY <2>4 DEF MainLastPost, MainLastWait
  <2> QED BY <1>1, <2>1, <2>2, <2>3, <2>4 DEF Main
<1>2. CASE Hand
  <2>1. CASE HandWrite
    <3>1. flag' \in BOOLEAN /\ pending' \in BOOLEAN
      BY <2>1, Zenon DEF HandWrite, Handled
    <3>2. out' \in Seq(Nat)
      BY <2>1 DEF HandWrite
    <3> QED BY <2>1, <3>1, <3>2 DEF HandWrite
  <2>2. CASE HandStart \/ HandWait \/ HandCheck \/ HandPost \/ HandLeave
    BY <2>2 DEF HandStart, HandWait, HandCheck, HandPost, HandLeave
  <2>3. CASE HandSleep \/ HandWake
    <3>1. flag' \in BOOLEAN /\ pending' \in BOOLEAN
      BY <2>3, Zenon DEF HandSleep, HandWake, Handled
    <3> QED BY <2>3, <3>1 DEF HandSleep, HandWake
  <2> QED BY <1>2, <2>1, <2>2, <2>3 DEF Hand
<1>3. CASE Deliver
  BY <1>3 DEF Deliver
<1>4. CASE Done \/ UNCHANGED vars
  BY <1>4 DEF Done, vars
<1> QED BY <1>1, <1>2, <1>3, <1>4 DEF Next

(* Every step of main, of hand and of the kernel keeps the protocol.         *)
LEMMA NextProtocol == IInv /\ [Next]_vars => Protocol'
<1> SUFFICES ASSUME IInv, [Next]_vars PROVE Protocol'
  OBVIOUS
<1>s. UNCHANGED <<size, len>>
  <2>1. CASE Main
    BY <2>1 DEF Main, MainPid, MainStore, MainPost, MainWait, MainKill, MainLastPost, MainLastWait
  <2>2. CASE Hand \/ Deliver \/ Done \/ UNCHANGED vars
    BY <2>2 DEF Hand, HandStart, HandWait, HandCheck, HandWrite, HandPost, HandLeave, HandSleep,
                HandWake, Handled, Deliver, Done, vars
  <2> QED BY <2>1, <2>2 DEF Next
<1> SUFFICES ASSUME len <= size PROVE Protocol'
  BY <1>s DEF Protocol
<1>a. Protocol /\ TypeOK /\ Len(out) \in Nat
  BY DEF IInv, TypeOK
<1> USE <1>a DEF Protocol, TypeOK, BeforeEnd, AfterKill, Taking, Taken, Idle, Waiting, Written,
                 MainGo, HandGo, Wait, Post, mainVars, handVars
<1>1. CASE MainPid
  BY <1>1 DEF MainPid
<1>2. CASE MainStore
  BY <1>2 DEF MainStore
<1>3. CASE MainPost
  BY <1>3 DEF MainPost
<1>4. CASE MainWait
  BY <1>4 DEF MainWait
<1>5. CASE MainKill
  <2>1. BeforeEnd /\ hpc # "start" /\ hpc # "done"
    BY <1>5 DEF MainKill
  <2>2. pending' = TRUE
    BY <1>5, <2>1 DEF MainKill
  <2> QED BY <1>5, <2>1, <2>2 DEF MainKill
<1>6. CASE MainLastPost
  <2>1. UNCHANGED <<hpc, out, cell>> /\ sem2' = sem2 + 1
    BY <1>6 DEF MainLastPost
  <2>2. mpc = "last_post" /\ mpc' = "last_wait"
    BY <1>6 DEF MainLastPost
  <2>3. Taken' = Taken /\ Taken \in Int
    BY <2>1
  <2>4. AfterKill
    BY <2>2
  <2>5. AfterKill'
    <3>1. sem2' + Taken' = len' + 1
      <4> HIDE DEF Taken
      <4> QED BY <1>s, <2>1, <2>2, <2>3, <2>4
    <3>2. cell' = len' /\ Len(out') >= len' - 1 /\ hpc' # "start"
      BY <1>s, <2>1, <2>4
    <3> HIDE DEF Taken
    <3> QED BY <2>2, <3>1, <3>2
  <2>6. Written'
    BY <1>s, <2>1
  <2> HIDE DEF Written, AfterKill
  <2> QED BY <1>s, <2>1, <2>2, <2>5, <2>6
<1>7. CASE MainLastWait
  BY <1>7 DEF MainLastWait
<1>8. CASE HandStart
  BY <1>8 DEF HandStart
<1>9. CASE HandWait
  BY <1>9 DEF HandWait
<1>10. CASE HandCheck
  BY <1>10 DEF HandCheck
<1>11. CASE HandWrite
  <2>1. Len(out) <= len /\ out = File(Len(out))
    BY <1>11 DEF HandWrite
  <2>2. cell = IF Len(out) < len THEN Len(out) + 1 ELSE len
    BY <1>11 DEF HandWrite
  <2>3. out' = Append(File(Len(out)), cell) /\ Len(out') = Len(out) + 1
    BY <1>11, <2>1 DEF HandWrite
  <2>4. out' = IF Len(out) < len THEN File(Len(out) + 1) ELSE Append(File(len), len)
    <3>1. CASE Len(out) < len
      <4>1. Append(File(Len(out)), Len(out) + 1) = File(Len(out) + 1)
        BY FileGrows
      <4> QED BY <3>1, <4>1, <2>2, <2>3
    <3>2. CASE ~(Len(out) < len)
      <4>1. Len(out) = len
        BY <3>2, <2>1
      <4> QED BY <3>2, <4>1, <2>2, <2>3
    <3> QED BY <3>1, <3>2
  <2>5. Written'
    BY <1>s, <2>1, <2>3, <2>4
  <2>6. flag' = (flag /\ ~pending) /\ pending' = FALSE
    BY <1>11 DEF HandWrite, Handled
  <2> HIDE DEF Written
  <2> QED BY <1>11, <1>s, <2>1, <2>3, <2>5, <2>6 DEF HandWrite
<1>12. CASE HandPost
  BY <1>12 DEF HandPost
<1>13. CASE HandLeave
  BY <1>13 DEF HandLeave
<1>14. CASE HandSleep
  <2>1. flag' = (flag /\ ~pending) /\ pending' = FALSE
    BY <1>14 DEF HandSleep, Handled
  <2> QED BY <1>14, <2>1 DEF HandSleep
<1>15. CASE HandWake
  <2>1. flag' = (flag /\ ~pending) /\ pending' = FALSE
    BY <1>15 DEF HandWake, Handled
  <2> QED BY <1>15, <2>1 DEF HandWake
<1>16. CASE Deliver
  BY <1>16 DEF Deliver
<1>17. CASE Done \/ UNCHANGED vars
  <2>1. UNCHANGED vars
    BY <1>17 DEF Done
  <2> QED BY <2>1 DEF vars
<1> QED BY <1>1, <1>2, <1>3, <1>4, <1>5, <1>6, <1>7, <1>8, <1>9, <1>10, <1>11, <1>12, <1>13, <1>14,
           <1>15, <1>16, <1>17 DEF Next, Main, Hand

(* The invariant is inductive: it holds of every state either process or the *)
(* signal can bring about.                                                   *)
THEOREM InductiveInvariant == Spec => []IInv
<1>1. IInv /\ [Next]_vars => IInv'
  BY NextType, NextProtocol DEF IInv
<1> QED BY InitIInv, <1>1, PTL DEF Spec

(* TypeOK: the semaphores of main.c and hand.c never go below zero and the   *)
(* cell holds a byte of the file.                                            *)
THEOREM TypeCorrect == Spec => []TypeOK
BY InductiveInvariant, PTL DEF IInv

(* NoOverwrite: main stores the next byte (main.c) only when hand has        *)
(* written all the earlier ones.                                             *)
THEOREM NothingOverwritten == Spec => []NoOverwrite
<1>1. IInv => NoOverwrite
  BY DEF IInv, TypeOK, Protocol, BeforeEnd, NoOverwrite
<1> QED BY <1>1, InductiveInvariant, PTL

(* CopiedInOrder: what hand has written is a beginning of the file, or all   *)
(* of it and the last byte again when the post for the end (main.c:53) was   *)
(* taken for one of a byte; by the time both programs have ended only the    *)
(* last byte can be missing.                                                 *)
THEOREM CopyIsFaithful == Spec => []CopiedInOrder
<1>1. IInv => CopiedInOrder
  <2> SUFFICES ASSUME IInv, len <= size PROVE CopiedInOrder
    BY DEF CopiedInOrder
  <2>1. Len(out) \in Nat /\ Len(out) <= len + 1 /\ Written
    BY DEF IInv, TypeOK, Protocol
  <2>2. Len(out) > len => mpc \in {"last_wait", "done"}
    BY DEF IInv, TypeOK, Protocol, MainPlaces, BeforeEnd, AfterKill, Taking, Taken, Idle
  <2>3. mpc = "done" /\ hpc = "done" => Len(out) \in {len - 1, len}
    BY DEF IInv, TypeOK, Protocol, AfterKill, Taken
  <2>4. CASE Len(out) <= len
    BY <2>1, <2>3, <2>4 DEF CopiedInOrder, Written, IInv, TypeOK
  <2>5. CASE Len(out) > len
    BY <2>1, <2>2, <2>3, <2>5 DEF CopiedInOrder, Written, IInv, TypeOK
  <2> QED BY <2>1, <2>4, <2>5 DEF IInv, TypeOK
<1> QED BY <1>1, InductiveInvariant, PTL

=============================================================================
