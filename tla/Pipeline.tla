------------------------------ MODULE Pipeline ------------------------------
(***************************************************************************)
(* grep/grep.c: runs the pipeline written in a file.  Process 0 is the     *)
(* runner, process c the c-th command (the code's j is c - 1); pipe i      *)
(* (data_pipe[i - 1]) leads from command i to command i + 1.               *)
(***************************************************************************)
EXTENDS Integers, Sequences, SequencesExt, FiniteSets

CONSTANTS Pipelines,  \* what files say: sequences of the pieces between "|"
          MaxPieces,  \* bound: pieces of a file
          PipeCap,    \* items a pipe holds
          Items       \* items that a source makes, and that the terminal's user types

(* "empty" and "blank" are pieces without characters and without words; cat   *)
(* copies, source makes items, head copies one, absent is not on the PATH.    *)
Pieces == {"empty", "blank", "absent", "cat", "source", "head"}
ASSUME PipelineAssumption ==
  /\ Pipelines # {} /\ Pipelines \subseteq Seq(Pieces)
  /\ \A ps \in Pipelines : Len(ps) \in 1..MaxPieces
  /\ MaxPieces \in Nat /\ PipeCap \in Nat \ {0} /\ Items \in Nat

VARIABLES pieces,        \* the file
          runner, count, \* the runner: where it is; commands forked, then waits done
          stage,         \* stage[c]: how far command c is
          fds,           \* fds[p]: the ends of pipes that p has in data_pipe
          stdin, stdout, \* descriptors 0 and 1: a pipe or Terminal; Closed after the end
          data,          \* data[i]: the items in pipe i
          hand, made,    \* the item a command has read or made and not written; items made
          screen         \* what was written to the terminal
pipeVars == <<pieces, runner, count, stage, fds, stdin, stdout, data, hand, made, screen>>

Runner == 0
Commands == 1..MaxPieces
Terminal == 0
Closed == -1
Command == LET kept == {k \in DOMAIN pieces : pieces[k] # "empty"}
           IN [c \in 1..Cardinality(kept) |->
                 pieces[CHOOSE k \in kept : Cardinality({j \in kept : j <= k}) = c]]
N == Len(pieces) - 1
Ends == (1..N) \X {"r", "w"}

(* After pipe() was called n times. *)
PipeInit(files) ==
  /\ pieces \in files /\ runner = "fork" /\ count = 0
  /\ stage = [c \in Commands |-> "none"]
  /\ fds = [p \in {Runner} \cup Commands |-> IF p = Runner THEN Ends ELSE {}]
  /\ stdin = [c \in Commands |-> Closed] /\ stdout = [c \in Commands |-> Closed]
  /\ data = [i \in Commands |-> <<>>]
  /\ hand = [c \in Commands |-> 0] /\ made = [c \in Commands |-> 0] /\ screen = <<>>
-----------------------------------------------------------------------------
(* close_pipes.  Mutant: only the reading ends are closed. *)
CloseReading(p) == fds' = [fds EXCEPT ![p] = {e \in @ : e[2] = "w"}]
ClosePipes(p) == fds' = [fds EXCEPT ![p] = {}]

(* The runner *)
Fork ==
  LET c == count + 1
  IN /\ runner = "fork" /\ c <= Len(Command) /\ count' = c
     /\ fds' = [fds EXCEPT ![c] = fds[Runner]]
     /\ stdin' = [stdin EXCEPT ![c] = Terminal] /\ stdout' = [stdout EXCEPT ![c] = Terminal]
     /\ stage' = [stage EXCEPT ![c] = "dup"]
     /\ UNCHANGED <<pieces, runner, data, hand, made, screen>>

RunnerCloses ==
  /\ runner = "fork" /\ count = Len(Command)
  /\ runner' = "wait" /\ count' = 0
  /\ ClosePipes(Runner)
  /\ UNCHANGED <<pieces, stage, stdin, stdout, data, hand, made, screen>>

(* Mutant: one wait for every pipe. *)
WaitsTooFew == N
Waits == N + 1

(* wait(0): takes an ended child, sleeps, or fails when there is no child. *)
Wait ==
  /\ runner = "wait" /\ count < Waits /\ count' = count + 1
  /\ \/ \E c \in Commands : stage[c] = "ended" /\ stage' = [stage EXCEPT ![c] = "gone"]
     \/ (\A c \in Commands : stage[c] \in {"none", "gone"}) /\ UNCHANGED stage
  /\ UNCHANGED <<pieces, runner, fds, stdin, stdout, data, hand, made, screen>>

Return ==
  /\ runner = "wait" /\ count = Waits /\ runner' = "done"
  /\ UNCHANGED <<pieces, count, stage, fds, stdin, stdout, data, hand, made, screen>>
-----------------------------------------------------------------------------
(* A child before its command *)
(* Mutant: one command too few writes to a pipe. *)
WritesPipeShort(c) == c < N
WritesPipe(c) == c <= N

(* Without a word dup2 of the input, the body of the loop over words, is skipped. *)
Dup(c) ==
  /\ stage[c] = "dup" /\ stage' = [stage EXCEPT ![c] = "close"]
  /\ stdin' = [stdin EXCEPT ![c] = IF c > 1 /\ Command[c] # "blank" THEN c - 1 ELSE @]
  /\ stdout' = [stdout EXCEPT ![c] = IF WritesPipe(c) THEN c ELSE @]
  /\ UNCHANGED <<pieces, runner, count, fds, data, hand, made, screen>>

Ended(c) == /\ stage' = [stage EXCEPT ![c] = "ended"]
            /\ stdin' = [stdin EXCEPT ![c] = Closed] /\ stdout' = [stdout EXCEPT ![c] = Closed]

(* When execvp fails the child goes on as the runner does: it closes the pipes *)
(* again, its waits fail as it has no child, and it returns.                   *)
Exec(c) ==
  /\ stage[c] = "close"
  /\ ClosePipes(c)
  /\ \/ Command[c] \in {"blank", "absent"} /\ Ended(c)
     \/ /\ Command[c] \notin {"blank", "absent"} /\ stage' = [stage EXCEPT ![c] = "run"]
        /\ UNCHANGED <<stdin, stdout>>
  /\ UNCHANGED <<pieces, runner, count, data, hand, made, screen>>
-----------------------------------------------------------------------------
(* The commands, and the kernel's pipes *)
Running(c) == stage[c] = "run"
Open(e) == \/ \E p \in {Runner} \cup Commands : e \in fds[p]
           \/ \E c \in Commands : e = IF e[2] = "r" THEN <<stdin[c], "r">> ELSE <<stdout[c], "w">>
FromOutside(c) == Command[c] = "source" \/ stdin[c] = Terminal

Take(c) ==
  /\ Running(c) /\ hand[c] = 0
  /\ \/ /\ FromOutside(c) /\ made[c] < Items
        /\ made' = [made EXCEPT ![c] = @ + 1] /\ hand' = [hand EXCEPT ![c] = made[c] + 1]
        /\ UNCHANGED data
     \/ /\ ~FromOutside(c) /\ data[stdin[c]] # <<>>
        /\ hand' = [hand EXCEPT ![c] = Head(data[stdin[c]])]
        /\ data' = [data EXCEPT ![stdin[c]] = Tail(@)] /\ UNCHANGED made
  /\ UNCHANGED <<pieces, runner, count, stage, fds, stdin, stdout, screen>>

(* The end of its input ends a command. *)
SeeEnd(c) ==
  /\ Running(c) /\ hand[c] = 0
  /\ \/ FromOutside(c) /\ made[c] = Items
     \/ ~FromOutside(c) /\ data[stdin[c]] = <<>> /\ ~Open(<<stdin[c], "w">>)
  /\ Ended(c)
  /\ UNCHANGED <<pieces, runner, count, fds, data, hand, made, screen>>

Put(c) ==
  /\ Running(c) /\ hand[c] # 0
  /\ \/ stdout[c] = Terminal /\ screen' = Append(screen, hand[c]) /\ UNCHANGED data
     \/ /\ stdout[c] # Terminal /\ Open(<<stdout[c], "r">>) /\ Len(data[stdout[c]]) < PipeCap
        /\ data' = [data EXCEPT ![stdout[c]] = Append(@, hand[c])] /\ UNCHANGED screen
  /\ hand' = [hand EXCEPT ![c] = 0]
  /\ IF Command[c] = "head" THEN Ended(c) ELSE UNCHANGED <<stage, stdin, stdout>>
  /\ UNCHANGED <<pieces, runner, count, fds, made>>

(* SIGPIPE *)
Broken(c) ==
  /\ Running(c) /\ hand[c] # 0 /\ stdout[c] # Terminal /\ ~Open(<<stdout[c], "r">>)
  /\ hand' = [hand EXCEPT ![c] = 0] /\ Ended(c)
  /\ UNCHANGED <<pieces, runner, count, fds, data, made, screen>>

RunnerStep == Fork \/ RunnerCloses \/ Wait \/ Return
CommandStep(c) == Dup(c) \/ Exec(c) \/ Take(c) \/ SeeEnd(c) \/ Put(c) \/ Broken(c)
PipeNext == RunnerStep \/ \E c \in Commands : CommandStep(c)
(* The processes run; the terminal's user types and ends the input. *)
PipeFair == WF_pipeVars(RunnerStep) /\ \A c \in Commands : WF_pipeVars(CommandStep(c))
PipeSpec == PipeInit(Pipelines) /\ [][PipeNext]_pipeVars /\ PipeFair
-----------------------------------------------------------------------------
PipeTypeOK ==
  /\ pieces \in Seq(Pieces) /\ runner \in {"fork", "wait", "done"} /\ count \in 0..MaxPieces
  /\ stage \in [Commands -> {"none", "dup", "close", "run", "ended", "gone"}]
  /\ fds \in [{Runner} \cup Commands -> SUBSET Ends]
  /\ stdin \in [Commands -> Closed..N] /\ stdout \in [Commands -> Closed..N]
  /\ data \in [Commands -> Seq(1..Items)] /\ \A i \in Commands : Len(data[i]) <= PipeCap
  /\ hand \in [Commands -> 0..Items] /\ made \in [Commands -> 0..Items]
  /\ screen \in Seq(1..Items)

(* Nothing gets onto the screen twice or out of order, and when every piece is *)
(* a command that passes on all it gets, all of it does.                       *)
ScreenInOrder ==
  /\ \A k \in DOMAIN screen : screen[k] = k
  /\ runner = "done" /\ (\A k \in DOMAIN pieces : pieces[k] \in {"cat", "source"}) =>
       Len(screen) = Items

(* The runner returns after all its commands have ended, although it counts    *)
(* pipes and not children (grep.c:67).                                         *)
RunnerIsLast ==
  runner = "done" => \A c \in DOMAIN Command : stage[c] = "gone"

(* Every reader is shown the end of its input, every command ends and the      *)
(* runner returns, whatever commands are missing or leave early (grep.c:62).   *)
PipelineEnds == count > 0 \/ runner = "wait" ~> runner = "done"
==============================================================================
