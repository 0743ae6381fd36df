----------------------------- MODULE PrintServer -----------------------------
(***************************************************************************)
(* socket/server.c, and clients that write one command each (client.c).    *)
(* tcp/ is the same loop at an address that is not a file.                 *)
(***************************************************************************)
EXTENDS Integers, Sequences, SequencesExt

CONSTANTS PrintClients,
          Lines,      \* what users type
          MaxStarts   \* bound: runs of the server

ASSUME PrintAssumption == Lines \subseteq {"print", "exit", "other"} /\ MaxStarts \in Nat

VARIABLES server, starts,  \* the server: where it is; how often it was started
          path,            \* whether the file of the socket exists
          waiting,         \* the connections not accepted, oldest first
          serving,         \* the connection that the server reads
          client, line,    \* clients: where they are, what they wrote
          taken,           \* the clients the server has read from
          cut              \* cut[c]: whose command ended the server that c was connected to
printVars == <<server, starts, path, waiting, serving, client, line, taken, cut>>

NoOne == "no one"
Killer == "killer"
Silence == "nothing"
PrintInit ==
  /\ server = "off" /\ starts = 0 /\ path = FALSE /\ waiting = <<>> /\ serving = NoOne
  /\ client = [c \in PrintClients |-> "start"] /\ line = [c \in PrintClients |-> Silence]
  /\ taken = {} /\ cut = [c \in PrintClients |-> NoOne]
-----------------------------------------------------------------------------
(* client.c: without a server connect fails, as a later write does. *)
Leave(c) == client' = [client EXCEPT ![c] = "gone"]
Connect(c) ==
  /\ client[c] = "start"
  /\ \/ /\ server # "off" /\ waiting' = Append(waiting, c)
        /\ client' = [client EXCEPT ![c] = "connected"]
     \/ server = "off" /\ Leave(c) /\ UNCHANGED waiting
  /\ UNCHANGED <<server, starts, path, serving, line, taken, cut>>
WriteLine(c) ==
  /\ client[c] = "connected" /\ cut[c] = NoOne /\ Leave(c)
  /\ \E l \in Lines : line' = [line EXCEPT ![c] = l]
  /\ UNCHANGED <<server, starts, path, waiting, serving, taken, cut>>
(* Killed, with nothing written. *)
Abandon(c) ==
  /\ client[c] = "connected" /\ Leave(c)
  /\ UNCHANGED <<server, starts, path, waiting, serving, line, taken, cut>>
-----------------------------------------------------------------------------
(* server.c: bind fails where the file of the socket exists. *)
StartServer ==
  /\ server = "off" /\ starts < MaxStarts /\ starts' = starts + 1
  /\ server' = IF path THEN "off" ELSE "accept"
  /\ path' = TRUE
  /\ UNCHANGED <<waiting, serving, client, line, taken, cut>>

AcceptNext ==
  /\ server = "accept" /\ waiting # <<>>
  /\ server' = "read" /\ serving' = Head(waiting) /\ waiting' = Tail(waiting)
  /\ UNCHANGED <<starts, path, client, line, taken, cut>>

Connected == ToSet(waiting) \cup IF server = "read" THEN {serving} ELSE {}
EndBy(who) ==
  /\ server' = "off" /\ waiting' = <<>>
  /\ cut' = [c \in PrintClients |-> IF c \in Connected THEN who ELSE cut[c]]

(* Mutant: a client that left without a word ends the loop. *)
ExitOrSilence(l) == l \in {"exit", Silence}
IsExit(l) == l = "exit"

(* One read; it gives nothing when the client has left without a word. *)
ReadLine ==
  /\ server = "read" /\ client[serving] = "gone"
  /\ taken' = taken \cup {serving}
  /\ IF IsExit(line[serving]) THEN EndBy(serving) /\ path' = FALSE
     ELSE server' = "accept" /\ UNCHANGED <<path, waiting, cut>>
  /\ UNCHANGED <<starts, serving, client, line>>

(* A signal ends the server, and the file of the socket stays. *)
KillServer ==
  /\ server # "off" /\ EndBy(Killer)
  /\ UNCHANGED <<starts, path, serving, client, line, taken>>

PrintNext == \/ StartServer \/ AcceptNext \/ ReadLine \/ KillServer
             \/ \E c \in PrintClients : Connect(c) \/ WriteLine(c) \/ Abandon(c)
(* The server runs; users need not type. *)
PrintFair == WF_printVars(AcceptNext \/ ReadLine)
PrintSpec == PrintInit /\ [][PrintNext]_printVars /\ PrintFair
-----------------------------------------------------------------------------
PrintTypeOK ==
  /\ server \in {"off", "accept", "read"} /\ starts \in 0..MaxStarts /\ path \in BOOLEAN
  /\ waiting \in Seq(PrintClients) /\ serving \in PrintClients \cup {NoOne}
  /\ client \in [PrintClients -> {"start", "connected", "gone"}]
  /\ line \in [PrintClients -> Lines \cup {Silence}] /\ taken \subseteq PrintClients
  /\ cut \in [PrintClients -> PrintClients \cup {NoOne, Killer}]

(* Every command is read, however clients before it come and go, unless the    *)
(* server is killed or told to exit first, or stays with a client that neither *)
(* types nor leaves (server.c:39).                                             *)
EndedRightly(c) == cut[c] = Killer \/ \E d \in taken : cut[c] = d /\ line[d] = "exit"
Stuck == server = "read" /\ client[serving] = "connected"
CommandsServed ==
  \/ \A c \in PrintClients : line[c] # Silence ~> c \in taken \/ EndedRightly(c)
  \/ <>[]Stuck
==============================================================================
