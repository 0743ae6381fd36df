------------------------------ MODULE UdpServer ------------------------------
(***************************************************************************)
(* udp: the server's main loop (server.c, udp.c), the subprocess it forks  *)
(* for every connection, and the clients (client.c), over UDP.             *)
(* Subprocess n reads pipe n; process 0 is the server.                     *)
(***************************************************************************)
EXTENDS Integers, Sequences, FiniteSets

CONSTANTS Clients,
          Id,          \* Id[c]: what gen_id computed for client c, not 0
          MaxClients,  \* MAX_CLIENTS, the slots of mas
          Typed,       \* the lines users type
          MaxTyped,    \* bound: MaxTyped[c], lines typed by user c
          MaxForks,    \* bound: connections accepted
          PipeSize,    \* messages a pipe holds
          Faults,      \* what the network does: a subset of {"lose", "dup", "reorder"}
          MaxFaults,   \* bound: how often
          Killable,    \* the clients that get SIGINT
          ShellFails   \* whether shell(), or a write to or a read from a shell, may fail

ASSUME UdpAssumption ==
  /\ Id \in [Clients -> Int \ {0, -1}]
  /\ MaxClients \in Nat \ {0} /\ PipeSize \in Nat \ {0}
  /\ MaxTyped \in [Clients -> Nat] /\ MaxForks \in Nat /\ MaxFaults \in Nat
  /\ Typed \subseteq {"line", "shell", "quit", "broadcast"}
  /\ Faults \subseteq {"lose", "dup", "reorder"} /\ Killable \subseteq Clients
  /\ ShellFails \in BOOLEAN

VARIABLES
  net,       \* datagrams on their way to the server, oldest first
  greets,    \* greets[c]: datagrams with the open key A on their way to client c
  cpc, sent, \* clients: where they are; what they sent after connecting
  procs,     \* number of subprocesses forked
  role,      \* role[n]: a subprocess: "greet", "key", "serve", "talk" (to its shell), "exited";
             \* who receives datagrams: "loop", "write"
  mas, chan, \* mas[n], chan[n]: the client table and the pipes as process n sees them
  held,      \* held[n]: the message process n is writing to a pipe, and which pipe
  pipe,      \* pipe[n]: what was written to the pipe of subprocess n and not read
  owner,     \* owner[n]: the client whose address subprocess n copied
  key, bash, \* key[n]: K; bash[n]: bash_work
  got,       \* got[n]: the messages subprocess n read as commands
  faults     \* faults of the network so far

clients == <<cpc, sent>>
tables == <<mas, chan, held>>
child == <<key, bash, got>>
vars == <<net, greets, clients, procs, role, tables, pipe, owner, child, faults>>

Slots == 1..MaxClients
Server == 0
Procs == 0..MaxForks
NoPipe == 0
OpenKey == [enc |-> "none", text |-> "B"]
Plain(t) == [enc |-> "none", text |-> t]
Enc(k, t) == [enc |-> k, text |-> t]
Datagram(c, id, what, body) == [from |-> c, id |-> id, what |-> what, body |-> body]
Nothing == [to |-> NoPipe, msg |-> OpenKey, from |-> "nobody"]

Init == /\ net = <<>> /\ greets = [c \in Clients |-> 0]
        /\ cpc = [c \in Clients |-> "start"] /\ sent = [c \in Clients |-> <<>>]
        /\ procs = 0 /\ role = [n \in Procs |-> IF n = Server THEN "loop" ELSE "none"]
        /\ mas = [n \in Procs |-> [i \in Slots |-> 0]]
        /\ chan = [n \in Procs |-> [i \in Slots |-> NoPipe]]
        /\ held = [n \in Procs |-> Nothing]
        /\ pipe = [n \in Procs |-> <<>>] /\ owner = [n \in Procs |-> "nobody"]
        /\ key = [n \in Procs |-> "none"] /\ bash = [n \in Procs |-> FALSE]
        /\ got = [n \in Procs |-> <<>>] /\ faults = 0
-----------------------------------------------------------------------------
(* client.c *)
ClientGo(c, from, to) == cpc[c] = from /\ cpc' = [cpc EXCEPT ![c] = to]
Command(c, m) == /\ net' = Append(net, Datagram(c, Id[c], "data", m))
                 /\ sent' = [sent EXCEPT ![c] = Append(@, m)]

ClientConnect(c) ==
  /\ ClientGo(c, "start", "key")
  /\ net' = Append(net, Datagram(c, Id[c], "connect", Plain("")))
  /\ UNCHANGED <<greets, sent, procs, role, tables, pipe, owner, child, faults>>

ClientKey(c) ==
  /\ ClientGo(c, "key", "main") /\ greets[c] > 0
  /\ greets' = [greets EXCEPT ![c] = @ - 1]
  /\ net' = Append(net, Datagram(c, Id[c], "data", OpenKey))
  /\ UNCHANGED <<sent, procs, role, tables, pipe, owner, child, faults>>

(* What is compared with "broadcast" is the enciphered line. *)
ClientSend(c) ==
  \E t \in Typed :
    /\ Len(sent[c]) < MaxTyped[c]
    /\ ClientGo(c, "main", IF t = "quit" THEN "done" ELSE "main")
    /\ IF Enc("K", t) = Plain("broadcast") THEN UNCHANGED <<net, sent>>
       ELSE Command(c, Enc("K", t))
    /\ UNCHANGED <<greets, procs, role, tables, pipe, owner, child, faults>>

(* The handler of SIGINT sends its "quit" as it is. *)
ClientInterrupted(c) ==
  /\ c \in Killable /\ ClientGo(c, "main", "done")
  /\ Command(c, Plain("quit"))
  /\ UNCHANGED <<greets, procs, role, tables, pipe, owner, child, faults>>

-----------------------------------------------------------------------------
(* The main loop: server_handler *)
Take(k) == net' = SubSeq(net, 1, k - 1) \o SubSeq(net, k + 1, Len(net))
Next1 == IF "reorder" \in Faults THEN 1..Len(net) ELSE {1} \cap 1..Len(net)

(* connect_id and find *)
Least(S) == CHOOSE i \in S : \A j \in S : i <= j
(* Mutant: a client that connects again takes another slot. *)
FreeOnly(n, id) == {i \in Slots : mas[n][i] = 0}
Free(n, id) == {i \in Slots : mas[n][i] \in {0, id}}
(* Mutant: find takes the first slot in use. *)
KnownRoughly(n, id) == {i \in Slots : mas[n][i] # 0}
Known(n, id) == {i \in Slots : mas[n][i] = id}

(* com_connect: a slot, a pipe and a subprocess that keeps the sender's       *)
(* address, this process' tables and its bash_work.                           *)
Connect(n, d) ==
  LET i == Least(Free(n, d.id))
      new == procs + 1
  IN /\ Free(n, d.id) # {} /\ procs < MaxForks
     /\ procs' = new
     /\ mas' = [mas EXCEPT ![n][i] = d.id, ![new] = [mas[n] EXCEPT ![i] = d.id]]
     /\ chan' = [chan EXCEPT ![n][i] = new, ![new] = [chan[n] EXCEPT ![i] = new]]
     /\ role' = [role EXCEPT ![new] = "greet"]
     /\ owner' = [owner EXCEPT ![new] = d.from]
     /\ bash' = [bash EXCEPT ![new] = bash[n]]
     /\ UNCHANGED held

ReceiveConnect(n) ==
  /\ role[n] = "loop"
  /\ \E k \in Next1 :
       /\ net[k].what = "connect" /\ Take(k)
       /\ \/ Connect(n, net[k])
          \/ /\ Free(n, net[k].id) = {}
             /\ UNCHANGED <<procs, role, tables, owner, bash>>
  /\ UNCHANGED <<greets, clients, pipe, key, got, faults>>

(* master_handler, up to the write *)
ReceiveData(n) ==
  /\ role[n] = "loop"
  /\ \E k \in Next1 :
       LET d == net[k]
           i == Least(Known(n, d.id))
       IN /\ d.what = "data" /\ Take(k)
          /\ \/ /\ Known(n, d.id) # {}
                /\ held' = [held EXCEPT ![n] = [to |-> chan[n][i], msg |-> d.body, from |-> d.from]]
                /\ role' = [role EXCEPT ![n] = "write"]
             \/ Known(n, d.id) = {} /\ UNCHANGED <<held, role>>
  /\ UNCHANGED <<greets, clients, procs, mas, chan, pipe, owner, child, faults>>

(* Mutant: the write does not wait for room. *)
WriteAtOnce(n) ==
  /\ role[n] = "write" /\ role' = [role EXCEPT ![n] = "loop"]
  /\ pipe' = [pipe EXCEPT ![held[n].to] = Append(@, [from |-> held[n].from, msg |-> held[n].msg])]
  /\ held' = [held EXCEPT ![n] = Nothing]
  /\ UNCHANGED <<net, greets, clients, procs, mas, chan, owner, child, faults>>

(* The write waits for room.  The slot is given back when the text, which no  *)
(* client sends in the clear, is "quit\n".                                    *)
WritePipe(n) ==
  LET w == held[n]
      quit == w.msg = Plain("quit\n")
  IN /\ role[n] = "write" /\ Len(pipe[w.to]) < PipeSize
     /\ pipe' = [pipe EXCEPT ![w.to] = Append(@, [from |-> w.from, msg |-> w.msg])]
     /\ mas' = [mas EXCEPT ![n] =
                  [i \in Slots |-> IF quit /\ chan[n][i] = w.to THEN 0 ELSE mas[n][i]]]
     /\ role' = [role EXCEPT ![n] = "loop"]
     /\ held' = [held EXCEPT ![n] = Nothing]
     /\ UNCHANGED <<net, greets, clients, procs, chan, owner, child, faults>>
-----------------------------------------------------------------------------
(* The subprocess: child_handle and execution *)
RoleGo(n, from, to) == role[n] = from /\ role' = [role EXCEPT ![n] = to]

ChildGreet(n) ==
  /\ RoleGo(n, "greet", "key")
  /\ greets' = [greets EXCEPT ![owner[n]] = @ + 1]
  /\ UNCHANGED <<net, clients, procs, tables, pipe, owner, child, faults>>

(* Mutant: the key is left in the pipe. *)
ChildKeyLeft(n) ==
  /\ RoleGo(n, "key", "serve") /\ pipe[n] # <<>>
  /\ key' = [key EXCEPT ![n] = IF Head(pipe[n]).msg = OpenKey THEN "K" ELSE "other"]
  /\ UNCHANGED <<net, greets, clients, procs, tables, pipe, owner, bash, got, faults>>

ChildKey(n) ==
  /\ RoleGo(n, "key", "serve") /\ pipe[n] # <<>>
  /\ key' = [key EXCEPT ![n] = IF Head(pipe[n]).msg = OpenKey THEN "K" ELSE "other"]
  /\ pipe' = [pipe EXCEPT ![n] = Tail(@)]
  /\ UNCHANGED <<net, greets, clients, procs, tables, owner, bash, got, faults>>

(* Mutant: the command is compared before it is deciphered. *)
UndecryptedText(n, m) == IF m.enc = "none" THEN m.text ELSE "garbage"

(* crypto turns a line enciphered with another key into something else. *)
Decrypted(n, m) == IF m.enc = key[n] THEN m.text ELSE "garbage"

ChildServe(n) ==
  LET m == Head(pipe[n])
      t == Decrypted(n, m.msg)
  IN /\ role[n] = "serve" /\ pipe[n] # <<>>
     /\ pipe' = [pipe EXCEPT ![n] = Tail(@)]
     /\ got' = [got EXCEPT ![n] = Append(@, m)]
     /\ \/ t = "quit" /\ RoleGo(n, "serve", "exited") /\ UNCHANGED bash
        \/ t = "shell" /\ bash' = [bash EXCEPT ![n] = TRUE] /\ UNCHANGED role
        \/ t = "shell" /\ ShellFails /\ RoleGo(n, "serve", "loop") /\ UNCHANGED bash
        \/ t \notin {"quit", "shell"} /\ bash[n] /\ RoleGo(n, "serve", "talk") /\ UNCHANGED bash
        \/ t \notin {"quit", "shell"} /\ ~bash[n] /\ UNCHANGED <<role, bash>>
     /\ UNCHANGED <<net, greets, clients, procs, tables, owner, key, faults>>

(* read_bash passes on what the shell prints, reads nothing from the pipe, and *)
(* ends when the shell was silent for POLL_WAIT or is gone.                    *)
BashSilent(n) ==
  /\ \/ RoleGo(n, "talk", "serve")
     \/ ShellFails /\ RoleGo(n, "talk", "loop")
  /\ UNCHANGED <<net, greets, clients, procs, tables, pipe, owner, child, faults>>

(* SIGCHLD: off_bash.  The first process starts no shell.                      *)
BashExits(n) ==
  /\ n # Server /\ bash[n] /\ role[n] \in {"serve", "talk", "loop", "write"}
  /\ bash' = [bash EXCEPT ![n] = FALSE]
  /\ UNCHANGED <<net, greets, clients, procs, role, tables, pipe, owner, key, got, faults>>
-----------------------------------------------------------------------------
Network ==
  /\ faults < MaxFaults /\ faults' = faults + 1
  /\ \E k \in 1..Len(net) :
       \/ "lose" \in Faults /\ Take(k)
       \/ "dup" \in Faults /\ net' = Append(net, net[k])
  /\ UNCHANGED <<greets, clients, procs, role, tables, pipe, owner, child>>

ServerStep(n) == ReceiveConnect(n) \/ ReceiveData(n) \/ WritePipe(n)
ChildStep(n) == ChildGreet(n) \/ ChildKey(n) \/ ChildServe(n)
BashStep(n) == BashSilent(n) \/ BashExits(n)
ClientStep(c) == ClientConnect(c) \/ ClientKey(c) \/ ClientSend(c) \/ ClientInterrupted(c)

Next == \/ \E c \in Clients : ClientStep(c)
        \/ \E n \in Procs : ServerStep(n) \/ ChildStep(n) \/ BashStep(n)
        \/ Network

Spec == Init /\ [][Next]_vars
(* The server's processes run; a client answers the key.  A shell may print     *)
(* for ever.                                                                    *)
Fairness == /\ \A n \in Procs : WF_vars(ServerStep(n)) /\ WF_vars(ChildStep(n))
            /\ \A c \in Clients : WF_vars(ClientKey(c))
FairSpec == Spec /\ Fairness
-----------------------------------------------------------------------------
Bodies == {OpenKey, Plain(""), Plain("quit")} \cup {Enc("K", t) : t \in Typed}
TypeOK ==
  /\ net \in Seq([from : Clients, id : Int, what : {"connect", "data"}, body : Bodies])
  /\ greets \in [Clients -> Nat] /\ cpc \in [Clients -> {"start", "key", "main", "done"}]
  /\ sent \in [Clients -> Seq(Bodies)] /\ procs \in 0..MaxForks
  /\ role \in [Procs -> {"none", "greet", "key", "serve", "talk", "loop", "write", "exited"}]
  /\ mas \in [Procs -> [Slots -> Int]] /\ chan \in [Procs -> [Slots -> 0..MaxForks]]
  /\ held \in [Procs -> [to : 0..MaxForks, msg : Bodies, from : Clients \cup {"nobody"}]]
  /\ pipe \in [Procs -> Seq([from : Clients, msg : Bodies])]
  /\ \A n \in Procs : Len(pipe[n]) <= PipeSize
  /\ owner \in [Procs -> Clients \cup {"nobody"}]
  /\ key \in [Procs -> {"none", "K", "other"}] /\ bash \in [Procs -> BOOLEAN]
  /\ got \in [Procs -> Seq([from : Clients, msg : Bodies])] /\ faults \in 0..MaxFaults

(* A subprocess only ever reads what its own client sent, whatever the network *)
(* does to the datagrams (udp.c:83: it works with a particular client).        *)
OwnClientOnly ==
  \A n \in 1..procs :
    /\ \A k \in 1..Len(got[n]) : got[n][k].from = owner[n]
    /\ \A k \in 1..Len(pipe[n]) : pipe[n][k].from = owner[n]

(* On a network without faults a subprocess deciphers and reads its client's   *)
(* lines in the order they were typed, each once, from the first.              *)
LinesInOrder ==
  \A n \in 1..procs :
    /\ key[n] # "other"
    /\ Len(got[n]) <= Len(sent[owner[n]])
    /\ \A k \in 1..Len(got[n]) : got[n][k].msg = sent[owner[n]][k]

(* A client that typed quit is rid of its subprocess (readme.md:14), provided  *)
(* the network does its part and no shell, its own or another's, prints for    *)
(* ever: its subprocess would not read on (server.c:105), and when a pipe is   *)
(* full nor would the server.                                                  *)
ShellsFallSilent == \A n \in Procs : []<>(role[n] # "talk")
LastSent(c, m) == sent[c] # <<>> /\ sent[c][Len(sent[c])] = m
QuitEndsSubprocess ==
  ShellsFallSilent =>
    \A c \in Clients : cpc[c] = "done" /\ LastSent(c, Enc("K", "quit")) ~>
      \A n \in 1..procs : owner[n] = c => role[n] = "exited"

(* The server's table and pipes agree: the slot of a client leads to the       *)
(* subprocess that has its address, and no two clients share one.              *)
TableLeadsHome ==
  \A i \in Slots : mas[Server][i] # 0 =>
    /\ chan[Server][i] # NoPipe /\ mas[Server][i] = Id[owner[chan[Server][i]]]
    /\ \A j \in Slots \ {i} : mas[Server][j] # mas[Server][i]

(* A client is refused only while MAX_CLIENTS others are served (udp.c:137).   *)
RoomForClients ==
  Cardinality({n \in 1..procs : role[n] # "exited"}) < MaxClients =>
    \A c \in Clients : cpc[c] = "start" => Free(Server, Id[c]) # {}
==============================================================================
