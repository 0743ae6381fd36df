------------------------------ MODULE TcpServer ------------------------------
(***************************************************************************)
(* udp: the same service over TCP (tcp.c, tcp_client.c): the server        *)
(* accepts a connection, exchanges keys and forks a subprocess for it.     *)
(* Process 0 is the server, n > 0 the n-th subprocess.  A write of BUFSZ   *)
(* bytes is one message, which a read of BUFSZ bytes takes.                *)
(***************************************************************************)
EXTENDS Integers, Sequences, SequencesExt

CONSTANTS TcpClients,
          TcpTyped,     \* the lines users type
          TcpMaxTyped,  \* bound: TcpMaxTyped[c], lines typed by user c
          TcpMaxForks,  \* bound: subprocesses
          TcpRoom,      \* messages to a client that a connection holds
          TcpKillable   \* the clients that get SIGINT

ASSUME TcpAssumption ==
  /\ TcpTyped \subseteq {"line", "shell", "quit"} /\ TcpMaxTyped \in [TcpClients -> Nat]
  /\ TcpMaxForks \in Nat /\ TcpRoom \in Nat \ {0} /\ TcpKillable \subseteq TcpClients

VARIABLES
  backlog,           \* connections not accepted yet, oldest first
  up, down,          \* up[c]: messages from client c not read; down[c]: how many to it are not
  peer,              \* peer[c]: "open", or what the closing of the client left: "fin", "reset"
  tcpPc, tcpSent,    \* clients: where they are; what they sent after connecting
  tcpRole,           \* tcpRole[n]: where a process is
  conn, tcpKey,      \* conn[n]: the client whose connection process n uses; tcpKey[n]: its K
  tcpBash, tcpGot,   \* bash_work; the messages process n read as commands
  tcpForks           \* subprocesses forked

ends == <<up, down, peer>>
tcpClient == <<tcpPc, tcpSent>>
tcpProc == <<tcpRole, conn, tcpKey, tcpBash, tcpGot, tcpForks>>
tcpVars == <<backlog, ends, tcpClient, tcpProc>>

TcpProcs == 0..TcpMaxForks
Nobody == "nobody"
Ciphered(k, t) == [enc |-> k, text |-> t]
KeyB == Ciphered("none", "B")
Clear(t) == Ciphered("none", t)

TcpInit ==
  /\ backlog = <<>> /\ up = [c \in TcpClients |-> <<>>] /\ down = [c \in TcpClients |-> 0]
  /\ peer = [c \in TcpClients |-> "open"]
  /\ tcpPc = [c \in TcpClients |-> "start"] /\ tcpSent = [c \in TcpClients |-> <<>>]
  /\ tcpRole = [n \in TcpProcs |-> IF n = 0 THEN "accept" ELSE "none"]
  /\ conn = [n \in TcpProcs |-> Nobody] /\ tcpKey = [n \in TcpProcs |-> "none"]
  /\ tcpBash = [n \in TcpProcs |-> FALSE] /\ tcpGot = [n \in TcpProcs |-> <<>>]
  /\ tcpForks = 0
-----------------------------------------------------------------------------
(* tcp_client.c *)
TcpGo(c, from, to) == tcpPc[c] = from /\ tcpPc' = [tcpPc EXCEPT ![c] = to]
Say(c, m) == up' = [up EXCEPT ![c] = Append(@, m)]
(* A process that ends with unread answers resets the connection. *)
Hangup(c) == peer' = [peer EXCEPT ![c] = IF down[c] > 0 THEN "reset" ELSE "fin"]

TcpConnect(c) ==
  /\ TcpGo(c, "start", "hello") /\ backlog' = Append(backlog, c)
  /\ UNCHANGED <<ends, tcpSent, tcpProc>>
TcpHello(c) ==
  /\ TcpGo(c, "hello", "key") /\ Say(c, KeyB)
  /\ UNCHANGED <<backlog, down, peer, tcpSent, tcpProc>>
TcpGetKey(c) ==
  /\ TcpGo(c, "key", "main") /\ down[c] > 0
  /\ down' = [down EXCEPT ![c] = @ - 1]
  /\ UNCHANGED <<backlog, up, peer, tcpSent, tcpProc>>

(* receiver: a line, then answers until none came for POLL_WAIT. *)
TcpSend(c) ==
  \E t \in TcpTyped :
    /\ Len(tcpSent[c]) < TcpMaxTyped[c]
    /\ TcpGo(c, "main", IF t = "quit" THEN "done" ELSE "poll")
    /\ Say(c, Ciphered("K", t))
    /\ tcpSent' = [tcpSent EXCEPT ![c] = Append(@, Ciphered("K", t))]
    /\ IF t = "quit" THEN Hangup(c) ELSE UNCHANGED peer
    /\ UNCHANGED <<backlog, down, tcpProc>>
TcpAnswer(c) ==
  /\ tcpPc[c] = "poll" /\ down[c] > 0 /\ down' = [down EXCEPT ![c] = @ - 1]
  /\ UNCHANGED <<backlog, up, peer, tcpClient, tcpProc>>
TcpTimeout(c) ==
  /\ TcpGo(c, "poll", "main") /\ UNCHANGED <<backlog, ends, tcpSent, tcpProc>>

(* SIGINT: before signal() it kills, then the handler sends "quit" as it is. *)
TcpInterrupted(c) ==
  /\ c \in TcpKillable /\ tcpPc' = [tcpPc EXCEPT ![c] = "done"] /\ Hangup(c)
  /\ \/ tcpPc[c] \in {"hello", "key"} /\ UNCHANGED <<up, tcpSent>>
     \/ /\ tcpPc[c] \in {"main", "poll"} /\ Say(c, Clear("quit"))
        /\ tcpSent' = [tcpSent EXCEPT ![c] = Append(@, Clear("quit"))]
  /\ UNCHANGED <<backlog, down, tcpProc>>
-----------------------------------------------------------------------------
(* server_handler: one connection at a time up to the fork.  A subprocess whose *)
(* child_handle fails comes here as well.                                       *)
RoleTo(n, from, to) == tcpRole[n] = from /\ tcpRole' = [tcpRole EXCEPT ![n] = to]

Accept(n) ==
  /\ RoleTo(n, "accept", "key") /\ backlog # <<>> /\ tcpForks < TcpMaxForks
  /\ conn' = [conn EXCEPT ![n] = Head(backlog)]
  /\ backlog' = Tail(backlog)
  /\ UNCHANGED <<ends, tcpClient, tcpKey, tcpBash, tcpGot, tcpForks>>

(* One byte is read, or nothing when the client closed before. *)
ReadKey(n) ==
  LET c == conn[n]
  IN /\ RoleTo(n, "key", "answer")
     /\ \/ up[c] # <<>> /\ up' = [up EXCEPT ![c] = Tail(@)] /\ tcpKey' = [tcpKey EXCEPT ![n] = "K"]
        \/ /\ up[c] = <<>> /\ peer[c] # "open" /\ UNCHANGED up
           /\ tcpKey' = [tcpKey EXCEPT ![n] = "other"]
     /\ UNCHANGED <<backlog, down, peer, tcpClient, conn, tcpBash, tcpGot, tcpForks>>

(* The first write to a client that closed still succeeds; its end is told.    *)
Tell(c) == peer' = [peer EXCEPT ![c] = IF @ = "fin" THEN "told" ELSE @]
WriteKey(n) ==
  /\ RoleTo(n, "answer", "fork") /\ down' = [down EXCEPT ![conn[n]] = @ + 1] /\ Tell(conn[n])
  /\ UNCHANGED <<backlog, up, tcpClient, conn, tcpKey, tcpBash, tcpGot, tcpForks>>

(* Mutant: the process that accepted serves the client itself. *)
ForkNot(n) ==
  /\ tcpRole[n] = "fork" /\ tcpRole' = [tcpRole EXCEPT ![n] = "serve"]
  /\ UNCHANGED <<backlog, ends, tcpClient, conn, tcpKey, tcpBash, tcpGot, tcpForks>>

(* The child has the connection, K and bash_work; the parent goes on to accept. *)
ForkChild(n) ==
  LET new == tcpForks + 1
  IN /\ tcpRole[n] = "fork" /\ new <= TcpMaxForks /\ tcpForks' = new
     /\ tcpRole' = [tcpRole EXCEPT ![n] = "accept", ![new] = "serve"]
     /\ conn' = [conn EXCEPT ![new] = conn[n], ![n] = Nobody]
     /\ tcpKey' = [tcpKey EXCEPT ![new] = tcpKey[n]]
     /\ tcpBash' = [tcpBash EXCEPT ![new] = tcpBash[n]]
     /\ UNCHANGED <<backlog, ends, tcpClient, tcpGot>>
-----------------------------------------------------------------------------
(* The subprocess: child_handle, execution, send_info *)
Deciphered(n, m) == IF m.enc = tcpKey[n] THEN m.text ELSE "garbage"

(* A write waits for room.  Writing to a client that closed: the first time it *)
(* is told, then SIGPIPE kills; a connection that was reset fails, which ends  *)
(* child_handle.                                                               *)
Reply(n, from, to) ==
  LET c == conn[n]
  IN \/ /\ peer[c] = "fin" \/ (peer[c] = "open" /\ down[c] < TcpRoom)
        /\ RoleTo(n, from, to) /\ Tell(c) /\ down' = [down EXCEPT ![c] = @ + 1]
     \/ peer[c] = "told" /\ RoleTo(n, from, "ended") /\ UNCHANGED <<down, peer>>
     \/ peer[c] = "reset" /\ RoleTo(n, from, "accept") /\ UNCHANGED <<down, peer>>

(* A line goes to the shell, if one runs, or is answered "unrecognized command". *)
Execute(n) == \/ tcpBash[n] /\ RoleTo(n, "serve", "talk") /\ UNCHANGED <<down, peer>>
              \/ ~tcpBash[n] /\ Reply(n, "serve", "serve")

(* A shell may fail to start. *)
Serve(n) ==
  LET c == conn[n]
      m == Head(up[c])
      t == Deciphered(n, m)
  IN /\ tcpRole[n] = "serve" /\ up[c] # <<>>
     /\ up' = [up EXCEPT ![c] = Tail(@)] /\ tcpGot' = [tcpGot EXCEPT ![n] = Append(@, m)]
     /\ \/ t = "quit" /\ RoleTo(n, "serve", "ended") /\ UNCHANGED <<down, peer, tcpBash>>
        \/ t = "shell" /\ tcpBash' = [tcpBash EXCEPT ![n] = TRUE] /\ UNCHANGED <<down, peer, tcpRole>>
        \/ t = "shell" /\ RoleTo(n, "serve", "accept") /\ UNCHANGED <<down, peer, tcpBash>>
        \/ t \notin {"quit", "shell"} /\ Execute(n) /\ UNCHANGED tcpBash
     /\ UNCHANGED <<backlog, tcpClient, conn, tcpKey, tcpForks>>

(* At the end of the connection read gives nothing, which is executed like a   *)
(* line, or fails.                                                             *)
ServeEnd(n) ==
  LET c == conn[n]
  IN /\ tcpRole[n] = "serve" /\ up[c] = <<>> /\ peer[c] # "open"
     /\ \/ peer[c] = "reset" /\ RoleTo(n, "serve", "accept") /\ UNCHANGED <<down, peer>>
        \/ peer[c] # "reset" /\ Execute(n)
     /\ UNCHANGED <<backlog, up, tcpClient, conn, tcpKey, tcpBash, tcpGot, tcpForks>>

(* read_bash: the shell prints, or was silent for POLL_WAIT, or fails.         *)
Talk(n) == /\ \E r \in {"print", "serve", "accept"} : RoleTo(n, "talk", r)
           /\ UNCHANGED <<backlog, ends, tcpClient, conn, tcpKey, tcpBash, tcpGot, tcpForks>>
PassOn(n) == /\ tcpRole[n] = "print" /\ Reply(n, "print", "talk")
            /\ UNCHANGED <<backlog, up, tcpClient, conn, tcpKey, tcpBash, tcpGot, tcpForks>>

TcpBashExits(n) ==
  /\ tcpBash[n] /\ tcpRole[n] # "ended" /\ tcpBash' = [tcpBash EXCEPT ![n] = FALSE]
  /\ UNCHANGED <<backlog, ends, tcpClient, tcpRole, conn, tcpKey, tcpGot, tcpForks>>
-----------------------------------------------------------------------------
TcpClientStep(c) == TcpHello(c) \/ TcpGetKey(c) \/ TcpAnswer(c) \/ TcpTimeout(c)
TcpUser(c) == TcpConnect(c) \/ TcpSend(c) \/ TcpInterrupted(c)
TcpServerStep(n) == Accept(n) \/ ReadKey(n) \/ WriteKey(n) \/ ForkChild(n)
TcpChildStep(n) == Serve(n) \/ ServeEnd(n) \/ Talk(n) \/ PassOn(n)
TcpNext == \/ \E c \in TcpClients : TcpClientStep(c) \/ TcpUser(c)
           \/ \E n \in TcpProcs : TcpServerStep(n) \/ TcpChildStep(n) \/ TcpBashExits(n)
(* The processes run; users need not type. *)
TcpFair == /\ \A c \in TcpClients : WF_tcpVars(TcpClientStep(c))
           /\ \A n \in TcpProcs : WF_tcpVars(TcpServerStep(n)) /\ WF_tcpVars(TcpChildStep(n))
TcpSpec == TcpInit /\ [][TcpNext]_tcpVars /\ TcpFair
-----------------------------------------------------------------------------
Serving == {"serve", "talk", "print"}
Messages == {KeyB, Clear("quit")} \cup {Ciphered("K", t) : t \in TcpTyped}
TcpTypeOK ==
  /\ backlog \in Seq(TcpClients) /\ up \in [TcpClients -> Seq(Messages)]
  /\ down \in [TcpClients -> Nat] /\ peer \in [TcpClients -> {"open", "fin", "told", "reset"}]
  /\ tcpPc \in [TcpClients -> {"start", "hello", "key", "main", "poll", "done"}]
  /\ tcpSent \in [TcpClients -> Seq(Messages)]
  /\ tcpRole \in [TcpProcs -> {"none", "accept", "key", "answer", "fork", "ended"} \cup Serving]
  /\ conn \in [TcpProcs -> TcpClients \cup {Nobody}]
  /\ tcpKey \in [TcpProcs -> {"none", "K", "other"}] /\ tcpBash \in [TcpProcs -> BOOLEAN]
  /\ tcpGot \in [TcpProcs -> Seq(Messages)] /\ tcpForks \in 0..TcpMaxForks

(* A subprocess deciphers and reads its client's lines in the order they were  *)
(* typed, each once, whoever else is connected (tcp.c:52); its key is wrong    *)
(* only for a client that left before it sent its own.                         *)
TcpLinesInOrder ==
  \A n \in 1..tcpForks : tcpRole[n] \in Serving \cup {"ended"} =>
    /\ IsPrefix(tcpGot[n], tcpSent[conn[n]])
    /\ tcpKey[n] = "other" => tcpGot[n] = <<>> /\ tcpPc[conn[n]] = "done"

(* A client that typed quit is in the end served no more (server.c:130), even  *)
(* if its shell prints for ever: the subprocess that served it has ended or,   *)
(* its connection reset, accepts others (tcp.c:92).                            *)
TcpQuitEndsSubprocess ==
  \A c \in TcpClients :
    tcpPc[c] = "done" /\ tcpSent[c] # <<>> /\ tcpSent[c][Len(tcpSent[c])] = Ciphered("K", "quit") ~>
      \A n \in 1..tcpForks : conn[n] = c => tcpRole[n] \notin Serving

(* Whoever connects gets the key and is served, while others are connected, do *)
(* not type, or leave in the middle of the exchange (tcp.c:71).                *)
EveryoneServed ==
  \A c \in TcpClients : tcpPc[c] = "hello" ~> tcpPc[c] \in {"main", "poll", "done"}
==============================================================================
