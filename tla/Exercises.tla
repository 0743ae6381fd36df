------------------------------ MODULE Exercises ------------------------------
(***************************************************************************)
(* The exercises of the repository that stand alone, side by side: one of  *)
(* the programs runs, and nothing of the others changes.                   *)
(***************************************************************************)
EXTENDS Msg, Pipeline, Registry, LockScan, Log, Bizzbuzz, PrintServer

VARIABLE program  \* which one runs
Programs == {"msg", "grep", "list", "modules", "flocks", "log", "bizzbuzz", "print"}
vars == <<program, msgVars, pipeVars, listVars, registryVars, lockVars, logVars, bizzVars, printVars>>

(* What a program finds when it starts does not matter while it is idle. *)
IfRuns(p, found) == IF program = p THEN found ELSE {CHOOSE f \in found : TRUE}
Init ==
  /\ program \in Programs
  /\ MsgInit(IfRuns("msg", LeftOver)) /\ PipeInit(IfRuns("grep", Pipelines))
  /\ BizzInit(IfRuns("bizzbuzz", Texts))
  /\ ListInit /\ RegistryInit /\ LockInit /\ LogInit /\ PrintInit
-----------------------------------------------------------------------------
RunMsg ==
  /\ program = "msg" /\ MsgNext
  /\ UNCHANGED <<program, pipeVars, listVars, registryVars, lockVars, logVars, bizzVars, printVars>>
RunGrep ==
  /\ program = "grep" /\ PipeNext
  /\ UNCHANGED <<program, msgVars, listVars, registryVars, lockVars, logVars, bizzVars, printVars>>
RunList ==
  /\ program = "list" /\ ListNext
  /\ UNCHANGED <<program, msgVars, pipeVars, registryVars, lockVars, logVars, bizzVars, printVars>>
RunModules ==
  /\ program = "modules" /\ RegistryNext
  /\ UNCHANGED <<program, msgVars, pipeVars, lockVars, logVars, bizzVars, printVars>>
RunFlocks ==
  /\ program = "flocks" /\ LockNext
  /\ UNCHANGED <<program, msgVars, pipeVars, listVars, registryVars, logVars, bizzVars, printVars>>
RunLog ==
  /\ program = "log" /\ LogNext
  /\ UNCHANGED <<program, msgVars, pipeVars, listVars, registryVars, lockVars, bizzVars, printVars>>
RunBizzbuzz ==
  /\ program = "bizzbuzz" /\ Transfer
  /\ UNCHANGED <<program, msgVars, pipeVars, listVars, registryVars, lockVars, logVars, printVars>>
RunPrint ==
  /\ program = "print" /\ PrintNext
  /\ UNCHANGED <<program, msgVars, pipeVars, listVars, registryVars, lockVars, logVars, bizzVars>>

Next == RunMsg \/ RunGrep \/ RunList \/ RunModules \/ RunFlocks \/ RunLog \/ RunBizzbuzz \/ RunPrint
(* The fairness of the modules, for the program that runs. *)
Fairness ==
  /\ \A s \in Sens : WF_msgVars(program = "msg" /\ SenStep(s))
  /\ \A r \in Recs : WF_msgVars(program = "msg" /\ RecStep(r))
  /\ WF_pipeVars(program = "grep" /\ RunnerStep)
  /\ \A c \in Commands : WF_pipeVars(program = "grep" /\ CommandStep(c))
  /\ WF_lockVars(program = "flocks" /\ ScanStep)
  /\ WF_printVars(program = "print" /\ (AcceptNext \/ ReadLine))
Spec == Init /\ [][Next]_vars /\ Fairness

TypeOK == /\ program \in Programs
          /\ MsgTypeOK /\ PipeTypeOK /\ ListTypeOK /\ RegistryTypeOK
          /\ LockTypeOK /\ LogTypeOK /\ BizzTypeOK /\ PrintTypeOK
==============================================================================
