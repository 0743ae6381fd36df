--------------------------- MODULE UdpServerProofs ---------------------------
(***************************************************************************)
(* Theorems about the UDP server, for any number of clients, subprocesses, *)
(* slots and datagrams, and any faults of the network.                     *)
(***************************************************************************)
EXTENDS UdpServer, ListLemmas

(* What may be on its way to the server: a client signs with its own id.     *)
Datagrams == {d \in [from : Clients, id : Int, what : {"connect", "data"}, body : Bodies] :
                d.id = Id[d.from]}

(* What may be written to the pipe of subprocess n: messages of clients with *)
(* the id of its own one.                                                    *)
Mail(n) == {m \in [from : Clients, msg : Bodies] : Id[m.from] = Id[owner[n]]}

(* The server stays in its loop; a process that is forked has an owner; what *)
(* is not forked yet is blank.                                               *)
Forked ==
  /\ role[Server] \in {"loop", "write"}
  /\ \A n \in 1..procs : owner[n] \in Clients /\ role[n] # "none"
  /\ \A n \in (procs + 1)..MaxForks : role[n] = "none" /\ pipe[n] = <<>> /\ got[n] = <<>>

(* Every process' own copy of the tables leads the id of a client to a       *)
(* subprocess of a client with that id, its slots fill up from the first and *)
(* no id has two of them.                                                    *)
LeadsHome(n, i) == chan[n][i] \in 1..procs /\ mas[n][i] = Id[owner[chan[n][i]]]
Tables ==
  \A n \in Procs :
    /\ \A i \in Slots : mas[n][i] # 0 => LeadsHome(n, i)
    /\ \A i, j \in Slots : i < j /\ mas[n][j] # 0 => mas[n][i] \notin {0, mas[n][j]}

(* The message a process is about to write is for the pipe it goes to.       *)
Held == \A n \in Procs : role[n] = "write" => held[n].to \in 1..procs /\ held[n].from \in Clients
                                              /\ Id[held[n].from] = Id[owner[held[n].to]]

Flow == /\ net \in Seq(Datagrams)
        /\ \A n \in 1..procs : pipe[n] \in Seq(Mail(n)) /\ got[n] \in Seq(Mail(n))

UdpIInv == TypeOK /\ Forked /\ Tables /\ Held /\ Flow
-----------------------------------------------------------------------------
(* find and connect_id: the least of some slots is one of them.              *)
LEMMA LeastIsOne ==
  ASSUME NEW S \in SUBSET Slots, S # {}
  PROVE  Least(S) \in S /\ \A j \in S : Least(S) <= j
<1>1. S \in SUBSET Nat
  BY UdpAssumption DEF Slots
<1>2. \E i \in S : \A j \in S : i <= j
  BY <1>1, LeastOfSet
<1> QED BY <1>2 DEF Least

(* recvfrom takes one datagram from the network and leaves the others.       *)
LEMMA TakeOne ==
  ASSUME Flow, NEW k \in 1..Len(net), Take(k)
  PROVE  net' \in Seq(Datagrams) /\ net[k] \in Datagrams
<1>1. net' = Without(net, k)
  BY DEF Take, Without
<1> QED BY <1>1, WithoutElement, ElementOfSeq DEF Flow

(* The messages that may arrive next are under way.                           *)
LEMMA Next1Type == TypeOK => Next1 \subseteq 1..Len(net)
BY DEF Next1, TypeOK

(* What the flow says of the network is more than its type.                  *)
AnyDatagram == [from : Clients, id : Int, what : {"connect", "data"}, body : Bodies]
(* A datagram with a known client is one with any.                            *)
LEMMA NetType == \A s \in Seq(Datagrams) : s \in Seq(AnyDatagram)
<1>1. Datagrams \subseteq AnyDatagram
  BY DEF Datagrams, AnyDatagram
<1> QED BY <1>1, SeqMonotonic

(* The server begins so: nobody is known.                                     *)
LEMMA InitUdp == Init => UdpIInv
<1> SUFFICES ASSUME Init PROVE UdpIInv
  OBVIOUS
<1> USE UdpAssumption
<1>1. TypeOK
  BY DEF Init, TypeOK, Procs, Slots, Server, NoPipe, Nothing, OpenKey, Bodies
<1>2. Forked
  BY DEF Init, Forked, Procs, Server
<1>3. Tables
  BY DEF Init, Tables, Procs, Slots
<1>4. Held
  BY DEF Init, Held, Procs, Server
<1>5. Flow
  BY DEF Init, Flow
<1> QED BY <1>1, <1>2, <1>3, <1>4, <1>5 DEF UdpIInv
-----------------------------------------------------------------------------
(* Steps that leave the tables alone.                                        *)
LEMMA RoutesSame ==
  Forked /\ Tables /\ Held /\ UNCHANGED <<procs, role, tables, owner, pipe, got>>
    => Forked' /\ Tables' /\ Held'
BY DEF Forked, Tables, Held, LeadsHome, tables

(* The types of what a client or the network changes, and of the rest.       *)
ClientTypes == /\ greets \in [Clients -> Nat] /\ cpc \in [Clients -> {"start", "key", "main", "done"}]
               /\ sent \in [Clients -> Seq(Bodies)]
ServerTypes ==
  /\ procs \in 0..MaxForks
  /\ role \in [Procs -> {"none", "greet", "key", "serve", "talk", "loop", "write", "exited"}]
  /\ mas \in [Procs -> [Slots -> Int]] /\ chan \in [Procs -> [Slots -> 0..MaxForks]]
  /\ held \in [Procs -> [to : 0..MaxForks, msg : Bodies, from : Clients \cup {"nobody"}]]
  /\ owner \in [Procs -> Clients \cup {"nobody"}]
  /\ key \in [Procs -> {"none", "K", "other"}] /\ bash \in [Procs -> BOOLEAN]
PipeTypes ==
  /\ pipe \in [Procs -> Seq([from : Clients, msg : Bodies])]
  /\ \A n \in Procs : Len(pipe[n]) <= PipeSize
  /\ got \in [Procs -> Seq([from : Clients, msg : Bodies])]

Types == net \in Seq(AnyDatagram) /\ ClientTypes /\ ServerTypes /\ PipeTypes /\ faults \in 0..MaxFaults
(* The types in parts.                                                        *)
LEMMA TypeParts == (TypeOK <=> Types) /\ (TypeOK' <=> Types')
BY DEF TypeOK, AnyDatagram, ClientTypes, ServerTypes, PipeTypes, Types

(* Steps that leave the server, the pipes, or the clients alone.              *)
LEMMA ServerTypesSame == ServerTypes /\ UNCHANGED <<procs, role, tables, owner, key, bash>> => ServerTypes'
BY DEF ServerTypes, tables
(* The same of the pipes.                                                     *)
LEMMA PipeTypesSame == PipeTypes /\ UNCHANGED <<pipe, got>> => PipeTypes'
BY DEF PipeTypes
(* The same of the clients.                                                   *)
LEMMA ClientTypesSame == ClientTypes /\ UNCHANGED <<greets, clients>> => ClientTypes'
BY DEF ClientTypes, clients
(* A step that only sends or loses datagrams leaves what was read.            *)
LEMMA MailSame ==
  UNCHANGED <<procs, owner, pipe, got>> /\ Flow /\ net' \in Seq(Datagrams) => Flow'
BY DEF Flow, Mail

(* A client sends a datagram with its own id.                                *)
LEMMA Sent ==
  ASSUME net \in Seq(Datagrams), NEW c \in Clients, NEW w \in {"connect", "data"}, NEW m \in Bodies,
         net' = Append(net, Datagram(c, Id[c], w, m))
  PROVE  net' \in Seq(Datagrams)
<1>1. Datagram(c, Id[c], w, m) \in Datagrams
  BY UdpAssumption DEF Datagram, Datagrams
<1> QED BY <1>1, AppendProperties

(* What a client says goes to the network and to what it sent.                *)
LEMMA Said ==
  ASSUME ClientTypes, net \in Seq(Datagrams), NEW c \in Clients, NEW m \in Bodies, Command(c, m)
  PROVE  net' \in Seq(Datagrams) /\ sent' \in [Clients -> Seq(Bodies)]
<1>1. net' \in Seq(Datagrams)
  BY Sent DEF Command
<1>2. Append(sent[c], m) \in Seq(Bodies)
  BY AppendProperties DEF ClientTypes
<1> QED BY <1>1, <1>2 DEF Command, ClientTypes

(* A step of a client keeps it.                                               *)
LEMMA StepClient == ASSUME UdpIInv, NEW c \in Clients, ClientStep(c) PROVE UdpIInv'
<1>a. /\ TypeOK /\ Forked /\ Tables /\ Held /\ Flow /\ ClientTypes /\ ServerTypes /\ PipeTypes
      /\ faults \in 0..MaxFaults /\ net \in Seq(Datagrams)
  BY TypeParts DEF UdpIInv, Flow, Types
<1>b. OpenKey \in Bodies /\ Plain("") \in Bodies /\ Plain("quit") \in Bodies
      /\ \A t \in Typed : Enc("K", t) \in Bodies
  BY DEF Bodies
<1>1. /\ net' \in Seq(Datagrams) /\ ClientTypes'
      /\ UNCHANGED <<procs, role, tables, pipe, owner, key, bash, got, faults>>
  <2>1. CASE ClientConnect(c)
    BY <1>a, <1>b, <2>1, Sent DEF ClientConnect, ClientGo, ClientTypes, child
  <2>2. CASE ClientKey(c)
    <3>1. net' \in Seq(Datagrams)
      BY <1>a, <1>b, <2>2, Sent DEF ClientKey
    <3>2. greets[c] - 1 \in Nat
      BY <1>a, <2>2 DEF ClientKey, ClientTypes
    <3> QED BY <1>a, <2>2, <3>1, <3>2 DEF ClientKey, ClientGo, ClientTypes, child
  <2>3. CASE ClientSend(c)
    <3>1. PICK t \in Typed : ClientSend(c)!(t)
      BY <2>3 DEF ClientSend
    <3>2. net' \in Seq(Datagrams) /\ sent' \in [Clients -> Seq(Bodies)]
      BY <1>a, <1>b, <3>1, Said DEF ClientTypes
    <3> QED BY <1>a, <3>1, <3>2 DEF ClientGo, ClientTypes, child
  <2>4. CASE ClientInterrupted(c)
    <3>1. net' \in Seq(Datagrams) /\ sent' \in [Clients -> Seq(Bodies)]
      BY <1>a, <1>b, <2>4, Said DEF ClientInterrupted
    <3> QED BY <1>a, <2>4, <3>1 DEF ClientInterrupted, ClientGo, ClientTypes, child
  <2> QED BY <2>1, <2>2, <2>3, <2>4 DEF ClientStep
<1>2. Forked' /\ Tables' /\ Held' /\ Flow'
  BY <1>a, <1>1, RoutesSame, MailSame
<1>3. TypeOK'
  <2>1. ServerTypes' /\ PipeTypes' /\ (faults \in 0..MaxFaults)'
    BY <1>a, <1>1, ServerTypesSame, PipeTypesSame
  <2>2. (net \in Seq(AnyDatagram))'
    BY <1>1, NetType
  <2> QED BY <1>1, <2>1, <2>2, TypeParts DEF Types
<1> QED BY <1>2, <1>3 DEF UdpIInv
-----------------------------------------------------------------------------
(* What com_connect does to the tables of the process that accepts and of    *)
(* the one it forks: both rows lead the client's id to the new pipe.         *)
LEMMA ConnectRows ==
  ASSUME TypeOK, Forked, Tables, NEW n \in Procs, role[n] = "loop", NEW d \in Datagrams, Connect(n, d)
  PROVE  \E i \in Slots, new \in 1..MaxForks :
           LET row == [mas[n] EXCEPT ![i] = d.id]
               crow == [chan[n] EXCEPT ![i] = new]
           IN /\ new = procs + 1 /\ new # n /\ procs' = new
              /\ d.id = Id[d.from] /\ d.from \in Clients /\ d.id \in Int \ {0}
              /\ mas' = [m \in Procs |-> IF m \in {n, new} THEN row ELSE mas[m]]
              /\ chan' = [m \in Procs |-> IF m \in {n, new} THEN crow ELSE chan[m]]
              /\ owner' = [owner EXCEPT ![new] = d.from]
              /\ role' = [role EXCEPT ![new] = "greet"] /\ role[new] = "none"
              /\ mas[n][i] \in {0, d.id} /\ \A j \in Slots : j < i => mas[n][j] \notin {0, d.id}
              /\ UNCHANGED held
<1> DEFINE i == Least(Free(n, d.id))
           new == procs + 1
<1>1. i \in Free(n, d.id) /\ \A j \in Free(n, d.id) : i <= j
  BY LeastIsOne DEF Connect, Free
<1>2. i \in Slots /\ mas[n][i] \in {0, d.id} /\ \A j \in Slots : j < i => mas[n][j] \notin {0, d.id}
  <2>1. i \in Slots /\ mas[n][i] \in {0, d.id}
    BY <1>1 DEF Free
  <2>2. ASSUME NEW j \in Slots, j < i PROVE mas[n][j] \notin {0, d.id}
    <3>1. i \in Int /\ j \in Int
      BY <2>1, UdpAssumption DEF Slots
    <3> QED BY <1>1, <2>2, <3>1 DEF Free
  <2> QED BY <2>1, <2>2
<1>3. new \in 1..MaxForks /\ new \in Procs /\ role[new] = "none" /\ new # n
  BY UdpAssumption DEF Connect, TypeOK, Forked, Procs
<1>4. d.id = Id[d.from] /\ d.from \in Clients /\ d.id \in Int \ {0}
  BY UdpAssumption DEF Datagrams
<1> HIDE DEF i, new
<1>5. /\ mas' = [mas EXCEPT ![n][i] = d.id, ![new] = [mas[n] EXCEPT ![i] = d.id]]
      /\ chan' = [chan EXCEPT ![n][i] = new, ![new] = [chan[n] EXCEPT ![i] = new]]
      /\ procs' = new /\ role' = [role EXCEPT ![new] = "greet"] /\ owner' = [owner EXCEPT ![new] = d.from]
      /\ UNCHANGED held
  BY DEF Connect, i, new
<1>6. mas' = [m \in Procs |-> IF m \in {n, new} THEN [mas[n] EXCEPT ![i] = d.id] ELSE mas[m]]
  BY <1>3, <1>5 DEF TypeOK
<1>7. chan' = [m \in Procs |-> IF m \in {n, new} THEN [chan[n] EXCEPT ![i] = new] ELSE chan[m]]
  BY <1>3, <1>5 DEF TypeOK
<1> QED BY <1>2, <1>3, <1>4, <1>5, <1>6, <1>7 DEF new

(* A connect message: a free slot, a known client, or a full table.           *)
LEMMA StepConnect == ASSUME UdpIInv, NEW n \in Procs, ReceiveConnect(n) PROVE UdpIInv'
<1>a. /\ TypeOK /\ Forked /\ Tables /\ Held /\ Flow /\ ClientTypes /\ ServerTypes /\ PipeTypes
      /\ faults \in 0..MaxFaults /\ net \in Seq(Datagrams)
  BY TypeParts DEF UdpIInv, Flow, Types
<1>b. /\ role[n] = "loop"
      /\ UNCHANGED <<greets, clients, pipe, key, got, faults>>
  BY DEF ReceiveConnect
<1>1. PICK k \in 1..Len(net) :
        /\ Take(k)
        /\ \/ Connect(n, net[k])
           \/ UNCHANGED <<procs, role, tables, owner, bash>>
  <2>1. Next1 \subseteq 1..Len(net)
    BY <1>a, Next1Type
  <2> QED BY <2>1 DEF ReceiveConnect
<1>2. net' \in Seq(Datagrams) /\ net[k] \in Datagrams
  BY <1>a, <1>1, TakeOne
<1>3. ClientTypes' /\ PipeTypes' /\ (faults \in 0..MaxFaults)' /\ (net \in Seq(AnyDatagram))'
  BY <1>a, <1>b, <1>2, ClientTypesSame, PipeTypesSame, NetType DEF child
<1>4. CASE UNCHANGED <<procs, role, tables, owner, bash>>
  <2>1. Forked' /\ Tables' /\ Held' /\ Flow' /\ ServerTypes'
    BY <1>a, <1>b, <1>2, <1>4, RoutesSame, MailSame, ServerTypesSame DEF child
  <2> QED BY <2>1, <1>3, TypeParts DEF Types, UdpIInv
<1>5. CASE Connect(n, net[k])
  <2> DEFINE d == net[k]
             row(i) == [mas[n] EXCEPT ![i] = d.id]
             crow(i, new) == [chan[n] EXCEPT ![i] = new]
  <2>1. PICK i \in Slots, new \in 1..MaxForks :
              /\ new = procs + 1 /\ new # n /\ procs' = new
              /\ d.id = Id[d.from] /\ d.from \in Clients /\ d.id \in Int \ {0}
              /\ mas' = [m \in Procs |-> IF m \in {n, new} THEN row(i) ELSE mas[m]]
              /\ chan' = [m \in Procs |-> IF m \in {n, new} THEN crow(i, new) ELSE chan[m]]
              /\ owner' = [owner EXCEPT ![new] = d.from]
              /\ role' = [role EXCEPT ![new] = "greet"] /\ role[new] = "none"
              /\ mas[n][i] \in {0, d.id} /\ \A j \in Slots : j < i => mas[n][j] \notin {0, d.id}
              /\ UNCHANGED held
    BY <1>a, <1>b, <1>2, <1>5, ConnectRows
  <2> HIDE DEF d
  <2>2. /\ new \in Procs /\ procs \in Nat /\ owner \in [Procs -> Clients \cup {"nobody"}]
        /\ 1..procs \subseteq Procs
    <3>1. procs \in 0..MaxForks /\ owner \in [Procs -> Clients \cup {"nobody"}]
      BY <1>a DEF ServerTypes
    <3>2. new \in 1..MaxForks
      OBVIOUS
    <3> QED BY <3>1, <3>2, UdpAssumption DEF Procs
  <2>3. ServerTypes'
    <3>1. row(i) \in [Slots -> Int] /\ crow(i, new) \in [Slots -> 0..MaxForks]
      BY <1>a, <2>1, SMTT(30) DEF ServerTypes
    <3>2. mas' \in [Procs -> [Slots -> Int]] /\ chan' \in [Procs -> [Slots -> 0..MaxForks]]
      <4> HIDE DEF row, crow
      <4> QED BY <1>a, <2>1, <3>1 DEF ServerTypes
    <3>3. /\ procs' \in 0..MaxForks /\ owner' \in [Procs -> Clients \cup {"nobody"}]
          /\ role' \in [Procs -> {"none", "greet", "key", "serve", "talk", "loop", "write", "exited"}]
      BY <1>a, <2>1, <2>2, SMTT(30) DEF ServerTypes
    <3>4. bash' \in [Procs -> BOOLEAN]
      BY <1>a, <1>5 DEF ServerTypes, Connect
    <3> QED BY <1>a, <1>b, <2>1, <3>2, <3>3, <3>4 DEF ServerTypes
  <2>4. Forked'
    <3>1. role' = [role EXCEPT ![new] = "greet"] /\ role \in [Procs -> {"none", "greet", "key", "serve", "talk", "loop", "write", "exited"}]
      BY <1>a, <2>1 DEF ServerTypes
    <3>2. role'[Server] \in {"loop", "write"}
      BY <1>a, <2>2, <3>1, UdpAssumption DEF Forked, Server
    <3>3. ASSUME NEW m \in 1..procs' PROVE owner'[m] \in Clients /\ role'[m] # "none"
      BY <1>a, <2>1, <2>2, <3>1 DEF Forked
    <3>4. ASSUME NEW m \in (procs' + 1)..MaxForks
          PROVE  role'[m] = "none" /\ pipe'[m] = <<>> /\ got'[m] = <<>>
      <4>1. m # new /\ m \in (procs + 1)..MaxForks
        BY <2>1, <2>2, UdpAssumption
      <4> QED BY <1>a, <1>b, <3>1, <4>1 DEF Forked, child
    <3> QED BY <3>2, <3>3, <3>4 DEF Forked
  <2>5. Held'
    <3>1. ASSUME NEW m \in Procs, role'[m] = "write"
          PROVE  /\ held[m].to \in 1..procs /\ held[m].from \in Clients
                 /\ Id[held[m].from] = Id[owner'[held[m].to]]
      <4>1. role[m] = "write"
        BY <1>a, <2>1, <3>1 DEF ServerTypes
      <4>2. /\ held[m].to \in 1..procs /\ held[m].from \in Clients
            /\ Id[held[m].from] = Id[owner[held[m].to]]
        BY <4>1, <1>a DEF Held
      <4>3. owner'[held[m].to] = owner[held[m].to]
        BY <4>2, <2>1, <2>2
      <4> QED BY <4>2, <4>3
    <3>2. held' = held /\ 1..procs \subseteq 1..procs'
      BY <2>1, <2>2
    <3> QED BY <3>1, <3>2 DEF Held
  <2>6. Flow'
    <3>1. Mail(new)' = Mail(new)' /\ pipe[new] = <<>> /\ got[new] = <<>>
      BY <1>a, <2>1, UdpAssumption DEF Forked, ServerTypes
    <3>2. ASSUME NEW m \in 1..procs PROVE Mail(m)' = Mail(m)
      BY <2>1, <2>2 DEF Mail
    <3>3. ASSUME NEW m \in (1..procs)' PROVE (pipe[m] \in Seq(Mail(m)) /\ got[m] \in Seq(Mail(m)))'
      <4>1. CASE m = new
        BY <4>1, <3>1, <1>b, EmptySeq DEF child
      <4>2. CASE m \in 1..procs
        BY <4>2, <3>2, <1>a, <1>b DEF Flow, child
      <4> QED BY <4>1, <4>2, <2>1, <2>2
    <3> QED BY <3>3, <1>2 DEF Flow
  <2>7. Tables'
    <3>1. ASSUME NEW m \in Procs, NEW j \in Slots, mas[m][j] # 0
          PROVE  chan[m][j] \in 1..procs /\ mas[m][j] = Id[owner'[chan[m][j]]]
      BY <1>a, <2>1, <2>2, <3>1 DEF Tables, LeadsHome
    <3>2. ASSUME NEW m \in Procs, NEW j \in Slots, mas'[m][j] # 0
          PROVE  LeadsHome(m, j)'
      <4>1. CASE m \notin {n, new}
        <5>1. mas'[m] = mas[m] /\ chan'[m] = chan[m]
          BY <4>1, <2>1
        <5>2. chan[m][j] \in 1..procs /\ mas[m][j] = Id[owner'[chan[m][j]]]
          BY <5>1, <3>1, <3>2
        <5> QED BY <5>1, <5>2, <2>1, <2>2 DEF LeadsHome
      <4>2. CASE m \in {n, new}
        <5>1. /\ mas'[m] = row(i) /\ chan'[m] = crow(i, new)
              /\ mas[n] \in [Slots -> Int] /\ chan[n] \in [Slots -> 0..MaxForks]
          BY <4>2, <2>1, <1>a DEF ServerTypes
        <5>2. CASE j = i
          <6>1. mas'[m][j] = d.id /\ chan'[m][j] = new /\ owner'[new] = d.from
            BY <5>1, <5>2, <2>1, <2>2
          <6> QED BY <6>1, <2>1 DEF LeadsHome
        <5>3. CASE j # i
          <6>1. mas'[m][j] = mas[n][j] /\ chan'[m][j] = chan[n][j]
            BY <5>1, <5>3
          <6>2. chan[n][j] \in 1..procs /\ mas[n][j] = Id[owner'[chan[n][j]]]
            BY <6>1, <3>1, <3>2
          <6> QED BY <6>1, <6>2, <2>1, <2>2 DEF LeadsHome
        <5> QED BY <5>2, <5>3
      <4> QED BY <4>1, <4>2
    <3>3. ASSUME NEW m \in Procs, NEW j \in Slots, NEW l \in Slots, j < l, mas'[m][l] # 0
          PROVE  mas'[m][j] \notin {0, mas'[m][l]}
      <4>1. CASE m \notin {n, new}
        BY <4>1, <3>3, <2>1, <1>a DEF Tables
      <4>2. CASE m \in {n, new}
        <5>1. mas'[m] = row(i) /\ mas[n] \in [Slots -> Int] /\ j # l
          BY <4>2, <2>1, <1>a, <3>3 DEF ServerTypes, Slots
        <5>2. CASE l = i
          BY <5>1, <5>2, <2>1, <3>3
        <5>3. CASE j = i
          BY <5>1, <5>3, <2>1, <3>3, <1>a DEF Tables
        <5>4. CASE j # i /\ l # i
          BY <5>1, <5>4, <3>3, <1>a DEF Tables
        <5> QED BY <5>2, <5>3, <5>4
      <4> QED BY <4>1, <4>2
    <3> QED BY <3>2, <3>3 DEF Tables
  <2> QED BY <1>3, <2>3, <2>4, <2>5, <2>6, <2>7, TypeParts DEF Types, UdpIInv
<1> QED BY <1>1, <1>4, <1>5
-----------------------------------------------------------------------------
(* What a step that only changes role, held or the types of a process has to *)
(* keep.                                                                     *)
Parts == /\ TypeOK /\ Forked /\ Tables /\ Held /\ Flow /\ ClientTypes /\ ServerTypes /\ PipeTypes
         /\ faults \in 0..MaxFaults /\ net \in Seq(Datagrams)
(* The invariant, as the steps below need it.                                 *)
LEMMA InvParts == UdpIInv => Parts
BY TypeParts DEF UdpIInv, Flow, Types, Parts
(* The parts make up the invariant.                                           *)
LEMMA PartsInv ==
  Forked' /\ Tables' /\ Held' /\ Flow' /\ ClientTypes' /\ ServerTypes' /\ PipeTypes' /\ (faults \in 0..MaxFaults)'
    => UdpIInv'
BY NetType, TypeParts DEF Types, UdpIInv, Flow

(* master_handler: the slot of the sender's id leads to the pipe.            *)
LEMMA StepData == ASSUME UdpIInv, NEW n \in Procs, ReceiveData(n) PROVE UdpIInv'
<1>a. Parts
  BY InvParts
<1>b. /\ role[n] = "loop"
      /\ UNCHANGED <<greets, clients, procs, mas, chan, pipe, owner, child, faults>>
  BY DEF ReceiveData
<1>1. PICK k \in 1..Len(net) :
        LET d == net[k]
            i == Least(Known(n, d.id))
        IN /\ Take(k)
           /\ \/ /\ Known(n, d.id) # {}
                 /\ held' = [held EXCEPT ![n] = [to |-> chan[n][i], msg |-> d.body, from |-> d.from]]
                 /\ role' = [role EXCEPT ![n] = "write"]
              \/ UNCHANGED <<held, role>>
  <2>1. Next1 \subseteq 1..Len(net)
    BY <1>a, Next1Type DEF Parts
  <2> QED BY <2>1 DEF ReceiveData
<1>2. net' \in Seq(Datagrams) /\ net[k] \in Datagrams
  BY <1>a, <1>1, TakeOne DEF Parts
<1>3. ClientTypes' /\ PipeTypes' /\ (faults \in 0..MaxFaults)' /\ Flow'
  BY <1>a, <1>b, <1>2, ClientTypesSame, PipeTypesSame, MailSame DEF child, Parts
<1>4. CASE UNCHANGED <<held, role>>
  <2>1. Forked' /\ Tables' /\ Held' /\ ServerTypes'
    BY <1>a, <1>b, <1>4, RoutesSame, ServerTypesSame DEF child, Parts, tables
  <2> QED BY <2>1, <1>3, PartsInv
<1>5. ASSUME NEW i \in Slots, mas[n][i] = net[k].id, role' = [role EXCEPT ![n] = "write"],
             held' = [held EXCEPT ![n] = [to |-> chan[n][i], msg |-> net[k].body, from |-> net[k].from]]
      PROVE  UdpIInv'
  <2> DEFINE d == net[k]
             w == [to |-> chan[n][i], msg |-> d.body, from |-> d.from]
  <2>1. d.id = Id[d.from] /\ d.from \in Clients /\ d.id # 0 /\ d.body \in Bodies
    BY <1>2, UdpAssumption DEF Datagrams
  <2>2. LeadsHome(n, i)
    BY <2>1, <1>5, <1>a DEF Parts, Tables
  <2>3. w.to \in 1..procs /\ w.from \in Clients /\ w.msg \in Bodies /\ Id[w.from] = Id[owner[w.to]]
        /\ w \in [to : 0..MaxForks, msg : Bodies, from : Clients \cup {"nobody"}]
    <3>1. /\ chan[n][i] \in 1..procs /\ chan[n][i] \in 0..MaxForks
          /\ Id[d.from] = Id[owner[chan[n][i]]]
      BY <2>1, <2>2, <1>5, <1>a DEF LeadsHome, Parts, ServerTypes
    <3> QED BY <2>1, <3>1
  <2> HIDE DEF d, w
  <2>4. /\ held' = [held EXCEPT ![n] = w]
        /\ held \in [Procs -> [to : 0..MaxForks, msg : Bodies, from : Clients \cup {"nobody"}]]
        /\ role \in [Procs -> {"none", "greet", "key", "serve", "talk", "loop", "write", "exited"}]
    BY <1>5, <1>a DEF Parts, ServerTypes, w, d
  <2>5. Forked' /\ Tables'
    BY <1>a, <1>b, <1>5, <2>4, SMTT(30) DEF Parts, Forked, Tables, LeadsHome, child, Procs
  <2>6. Held'
    BY <1>a, <1>b, <1>5, <2>3, <2>4 DEF Parts, Held
  <2>7. ServerTypes'
    BY <1>a, <1>b, <1>5, <2>3, <2>4 DEF Parts, ServerTypes, child
  <2> QED BY <1>3, <2>5, <2>6, <2>7, PartsInv
<1>6. ASSUME Known(n, net[k].id) # {}
      PROVE  Least(Known(n, net[k].id)) \in Slots /\ mas[n][Least(Known(n, net[k].id))] = net[k].id
  BY <1>6, LeastIsOne DEF Known
<1> QED BY <1>1, <1>4, <1>5, <1>6

(* No client sends in the clear what would give its slot back.               *)
LEMMA NoneGivesBack == \A m \in Bodies : m # Plain("quit\n")
<1> SUFFICES ASSUME NEW m \in Bodies PROVE m # Plain("quit\n")
  OBVIOUS
<1>1. CASE \E t \in Typed : m = Enc("K", t)
  BY <1>1 DEF Enc, Plain
<1>2. CASE m \in {OpenKey, Plain(""), Plain("quit")}
  <2>1. OpenKey.text = "B" /\ Plain("").text = "" /\ Plain("quit").text = "quit" /\ Plain("quit\n").text = "quit\n"
    BY DEF OpenKey, Plain
  <2>2. "B" # "quit\n" /\ "" # "quit\n" /\ "quit" # "quit\n"
    OBVIOUS
  <2> QED BY <1>2, <2>1, <2>2
<1> QED BY <1>1, <1>2 DEF Bodies

(* The write to the pipe.  The slot is never given back: what client sends   *)
(* in the clear is another text.                                             *)
LEMMA StepWrite == ASSUME UdpIInv, NEW n \in Procs, WritePipe(n) PROVE UdpIInv'
<1>a. Parts
  BY InvParts
<1> DEFINE w == held[n]
           m == [from |-> w.from, msg |-> w.msg]
<1>1. /\ role[n] = "write" /\ Len(pipe[w.to]) < PipeSize
      /\ pipe' = [pipe EXCEPT ![w.to] = Append(@, m)]
      /\ role' = [role EXCEPT ![n] = "loop"] /\ held' = [held EXCEPT ![n] = Nothing]
      /\ UNCHANGED <<net, greets, clients, procs, chan, owner, child, faults>>
  BY DEF WritePipe
<1>2. w.to \in 1..procs /\ w.from \in Clients /\ Id[w.from] = Id[owner[w.to]] /\ w.msg \in Bodies
  BY <1>1, <1>a DEF Parts, Held, ServerTypes
<1>3. mas' = mas
  <2>1. w.msg # Plain("quit\n")
    BY <1>2, NoneGivesBack
  <2>2. mas' = [mas EXCEPT ![n] = [i \in Slots |-> mas[n][i]]]
    BY <2>1 DEF WritePipe
  <2> QED BY <2>2, <1>a DEF Parts, ServerTypes
<1>4. w.to \in Procs /\ procs \in 0..MaxForks
  BY <1>2, <1>a DEF Parts, ServerTypes, Procs
<1>5. m \in Mail(w.to) /\ m \in [from : Clients, msg : Bodies]
  BY <1>2 DEF Mail
<1>t. /\ Nothing \in [to : 0..MaxForks, msg : Bodies, from : Clients \cup {"nobody"}]
      /\ role \in [Procs -> {"none", "greet", "key", "serve", "talk", "loop", "write", "exited"}]
      /\ held \in [Procs -> [to : 0..MaxForks, msg : Bodies, from : Clients \cup {"nobody"}]]
  <2>1. OpenKey \in Bodies
    BY DEF Bodies
  <2> QED BY <1>a, <2>1, UdpAssumption DEF Nothing, NoPipe, Parts, ServerTypes
<1> HIDE DEF w, m
<1>6. ServerTypes'
  BY <1>a, <1>1, <1>3, <1>t DEF Parts, ServerTypes, child
<1>7. PipeTypes'
  <2>1. pipe \in [Procs -> Seq([from : Clients, msg : Bodies])] /\ Len(pipe[w.to]) \in Nat
    BY <1>a, <1>4, LenProperties DEF Parts, PipeTypes
  <2>2. Append(pipe[w.to], m) \in Seq([from : Clients, msg : Bodies]) /\ Len(Append(pipe[w.to], m)) = Len(pipe[w.to]) + 1
    <3>1. pipe[w.to] \in Seq([from : Clients, msg : Bodies])
      BY <2>1, <1>4
    <3> QED BY <3>1, <1>5, AppendProperties
  <2>3. Len(pipe[w.to]) + 1 <= PipeSize
    BY <2>1, <1>1, UdpAssumption
  <2>4. pipe' \in [Procs -> Seq([from : Clients, msg : Bodies])]
    BY <2>1, <2>2, <1>1
  <2>5. \A k \in Procs : Len(pipe'[k]) <= PipeSize
    BY <2>1, <2>2, <2>3, <1>1, <1>a DEF Parts, PipeTypes
  <2> QED BY <1>a, <1>1, <2>4, <2>5 DEF Parts, PipeTypes, child
<1>8. Flow'
  <2>1. ASSUME NEW k \in 1..procs PROVE pipe'[k] \in Seq(Mail(k))
    <3>1. pipe[k] \in Seq(Mail(k)) /\ k \in Procs
      BY <1>a, <1>4, UdpAssumption DEF Parts, Flow, Procs
    <3>2. CASE k = w.to
      <4>1. pipe'[k] = Append(pipe[k], m)
        BY <3>2, <1>1, <1>4, <1>a DEF Parts, PipeTypes
      <4> QED BY <4>1, <3>1, <3>2, <1>5, AppendProperties
    <3>3. CASE k # w.to
      BY <3>1, <3>3, <1>1, <1>a DEF Parts, PipeTypes
    <3> QED BY <3>2, <3>3
  <2>2. \A k \in Procs : Mail(k)' = Mail(k)
    BY <1>1 DEF Mail
  <2>3. 1..procs \subseteq Procs
    BY <1>4, UdpAssumption DEF Procs
  <2> QED BY <1>a, <1>1, <2>1, <2>2, <2>3 DEF Parts, Flow, child
<1>9. Forked'
  <2>1. \A k \in (procs + 1)..MaxForks : pipe'[k] = pipe[k]
    <3> SUFFICES ASSUME NEW k \in (procs + 1)..MaxForks PROVE pipe'[k] = pipe[k]
      OBVIOUS
    <3>1. k # w.to /\ k \in Procs
      BY <1>2, <1>4, UdpAssumption DEF Procs
    <3> QED BY <3>1, <1>1, <1>a DEF Parts, PipeTypes
  <2>2. UNCHANGED <<procs, owner, got>>
    BY <1>1 DEF child
  <2>3. /\ role'[Server] \in {"loop", "write"} /\ \A k \in 1..procs : role'[k] # "none"
        /\ \A k \in (procs + 1)..MaxForks : role'[k] = "none"
    BY <1>a, <1>1, <1>t DEF Parts, Forked
  <2> QED BY <1>a, <2>1, <2>2, <2>3 DEF Parts, Forked
<1>10. Tables' /\ Held'
  <2>1. Tables'
    BY <1>a, <1>1, <1>3 DEF Parts, Tables, LeadsHome
  <2>2. Held'
    BY <1>a, <1>1, <1>t DEF Parts, Held
  <2> QED BY <2>1, <2>2
<1>11. ClientTypes' /\ (faults \in 0..MaxFaults)'
  BY <1>a, <1>1, ClientTypesSame DEF Parts
<1> QED BY <1>6, <1>7, <1>8, <1>9, <1>10, <1>11, PartsInv

(* The network only loses or repeats what was sent.                          *)
LEMMA StepNetwork == ASSUME UdpIInv, Network PROVE UdpIInv'
<1>a. Parts
  BY InvParts
<1>1. UNCHANGED <<greets, clients, procs, role, tables, pipe, owner, child>>
      /\ faults' = faults + 1 /\ faults < MaxFaults
  BY DEF Network
<1>2. PICK k \in 1..Len(net) : Take(k) \/ net' = Append(net, net[k])
  BY DEF Network
<1>3. net' \in Seq(Datagrams)
  <2>1. CASE Take(k)
    BY <2>1, <1>a, TakeOne DEF Parts
  <2>2. CASE net' = Append(net, net[k])
    BY <2>2, <1>a, AppendProperties, ElementOfSeq DEF Parts
  <2> QED BY <1>2, <2>1, <2>2
<1>4. ClientTypes' /\ PipeTypes' /\ Flow' /\ Forked' /\ Tables' /\ Held' /\ ServerTypes'
  BY <1>a, <1>1, <1>3, ClientTypesSame, PipeTypesSame, MailSame, RoutesSame, ServerTypesSame DEF child, Parts
<1>5. (faults \in 0..MaxFaults)'
  BY <1>a, <1>1, UdpAssumption DEF Parts
<1> QED BY <1>4, <1>5, PartsInv
-----------------------------------------------------------------------------
(* The subprocess: it changes its own place, pipe and list of commands only. *)
OwnStep(n) ==
  /\ UNCHANGED <<net, clients, procs, tables, owner, faults>>
  /\ role[n] \in {"greet", "key", "serve", "talk"}
  /\ role' = role \/ \E r \in {"key", "serve", "talk", "exited", "loop"} : role' = [role EXCEPT ![n] = r]
  /\ \/ UNCHANGED <<pipe, got>>
     \/ /\ pipe[n] # <<>> /\ pipe' = [pipe EXCEPT ![n] = Tail(@)]
        /\ got' = got \/ got' = [got EXCEPT ![n] = Append(@, Head(pipe[n]))]

(* A step of a subprocess on its own pipe.                                    *)
LEMMA StepOwn ==
  ASSUME UdpIInv, NEW n \in Procs, OwnStep(n), greets' \in [Clients -> Nat],
         key' \in [Procs -> {"none", "K", "other"}], bash' \in [Procs -> BOOLEAN]
  PROVE  UdpIInv'
<1>a. Parts
  BY InvParts
<1>1. n \in 1..procs /\ procs \in 0..MaxForks /\ 1..procs \subseteq Procs
      /\ role \in [Procs -> {"none", "greet", "key", "serve", "talk", "loop", "write", "exited"}]
  <2>1. n # Server /\ role[n] # "none" /\ procs \in 0..MaxForks /\ procs \in Nat
    BY <1>a, UdpAssumption DEF OwnStep, Parts, Forked, ServerTypes
  <2>2. n \in 1..procs
    BY <2>1, <1>a, UdpAssumption DEF Parts, Forked, Procs, Server
  <2> QED BY <2>1, <2>2, <1>a, UdpAssumption, SMTT(30) DEF Procs, Parts, ServerTypes
<1>2. /\ role' \in [Procs -> {"none", "greet", "key", "serve", "talk", "loop", "write", "exited"}]
      /\ \A k \in Procs : (role'[k] = "none" <=> role[k] = "none") /\ (role'[k] = "write" => role[k] = "write")
      /\ role'[Server] = role[Server]
  <2>1. n # Server /\ role[n] \notin {"none", "write"}
    BY <1>1 DEF OwnStep, Server
  <2>2. CASE role' = role
    BY <2>2, <1>1
  <2>3. ASSUME NEW r \in {"key", "serve", "talk", "exited", "loop"}, role' = [role EXCEPT ![n] = r]
        PROVE  /\ role' \in [Procs -> {"none", "greet", "key", "serve", "talk", "loop", "write", "exited"}]
               /\ \A k \in Procs : (role'[k] = "none" <=> role[k] = "none") /\ (role'[k] = "write" => role[k] = "write")
               /\ role'[Server] = role[Server]
    BY <2>1, <2>3, <1>1
  <2> QED BY <2>2, <2>3 DEF OwnStep
<1>3. ServerTypes'
  BY <1>a, <1>2 DEF Parts, ServerTypes, OwnStep, tables
<1>4. /\ pipe[n] \in Seq(Mail(n)) /\ got[n] \in Seq(Mail(n))
      /\ Mail(n) \subseteq [from : Clients, msg : Bodies]
      /\ pipe \in [Procs -> Seq([from : Clients, msg : Bodies])] /\ got \in [Procs -> Seq([from : Clients, msg : Bodies])]
      /\ \A k \in Procs : Len(pipe[k]) <= PipeSize
  BY <1>a, <1>1 DEF Parts, Flow, Mail, PipeTypes
<1>5. /\ pipe'[n] \in Seq(Mail(n)) /\ got'[n] \in Seq(Mail(n)) /\ Len(pipe'[n]) <= PipeSize
      /\ DOMAIN pipe' = Procs /\ DOMAIN got' = Procs
      /\ pipe' = [k \in Procs |-> pipe'[k]] /\ got' = [k \in Procs |-> got'[k]]
      /\ \A k \in Procs \ {n} : pipe'[k] = pipe[k] /\ got'[k] = got[k]
  <2>1. CASE UNCHANGED <<pipe, got>>
    BY <2>1, <1>4
  <2>2. CASE /\ pipe[n] # <<>> /\ pipe' = [pipe EXCEPT ![n] = Tail(@)]
             /\ got' = got \/ got' = [got EXCEPT ![n] = Append(@, Head(pipe[n]))]
    <3>1. /\ Tail(pipe[n]) \in Seq(Mail(n)) /\ Head(pipe[n]) \in Mail(n)
          /\ Len(Tail(pipe[n])) = Len(pipe[n]) - 1 /\ Len(pipe[n]) \in Nat
      BY <2>2, <1>4, HeadTailProperties, LenProperties
    <3>2. Append(got[n], Head(pipe[n])) \in Seq(Mail(n))
      BY <3>1, <1>4, AppendProperties
    <3>3. Len(Tail(pipe[n])) <= PipeSize
      BY <3>1, <1>4, UdpAssumption
    <3> HIDE DEF Mail
    <3> QED BY <2>2, <3>1, <3>2, <3>3, <1>4
  <2> QED BY <2>1, <2>2 DEF OwnStep
<1>6. PipeTypes'
  <2>1. pipe'[n] \in Seq([from : Clients, msg : Bodies]) /\ got'[n] \in Seq([from : Clients, msg : Bodies])
    <3>1. \A s \in Seq(Mail(n)) : s \in Seq([from : Clients, msg : Bodies])
      BY <1>4, SeqMonotonic
    <3> QED BY <3>1, <1>5
  <2>2. \A k \in Procs : pipe'[k] \in Seq([from : Clients, msg : Bodies]) /\ got'[k] \in Seq([from : Clients, msg : Bodies])
                         /\ Len(pipe'[k]) <= PipeSize
    BY <2>1, <1>4, <1>5
  <2> QED BY <2>2, <1>5 DEF PipeTypes
<1>7. Flow'
  <2>1. ASSUME NEW k \in 1..procs PROVE pipe'[k] \in Seq(Mail(k)) /\ got'[k] \in Seq(Mail(k))
    BY <1>a, <1>1, <1>5 DEF Parts, Flow
  <2>2. \A k \in 1..procs : Mail(k)' = Mail(k)
    BY DEF OwnStep, Mail
  <2> QED BY <1>a, <2>1, <2>2 DEF OwnStep, Parts, Flow
<1>8. Forked'
  <2>1. \A k \in (procs + 1)..MaxForks : pipe'[k] = pipe[k] /\ got'[k] = got[k] /\ k \in Procs
    BY <1>1, <1>5, UdpAssumption DEF Procs
  <2>2. procs' = procs /\ owner' = owner
    BY DEF OwnStep
  <2> QED BY <1>a, <1>1, <1>2, <2>1, <2>2 DEF Parts, Forked
<1>9. Tables' /\ Held'
  BY <1>a, <1>2 DEF Parts, Tables, LeadsHome, Held, OwnStep, tables
<1>10. ClientTypes' /\ (faults \in 0..MaxFaults)'
  BY <1>a DEF OwnStep, Parts, ClientTypes, clients
<1> QED BY <1>3, <1>6, <1>7, <1>8, <1>9, <1>10, PartsInv

(* A step of a subprocess, or of its shell.                                   *)
LEMMA StepChild == ASSUME UdpIInv, NEW n \in Procs, ChildStep(n) \/ BashStep(n) PROVE UdpIInv'
<1>a. /\ greets \in [Clients -> Nat] /\ key \in [Procs -> {"none", "K", "other"}]
      /\ bash \in [Procs -> BOOLEAN]
  BY InvParts DEF Parts, ClientTypes, ServerTypes
<1>1. CASE ChildGreet(n)
  <2>1. greets' \in [Clients -> Nat]
    <3>1. greets' = [greets EXCEPT ![owner[n]] = greets[owner[n]] + 1]
      BY <1>1 DEF ChildGreet
    <3>2. CASE owner[n] \in Clients
      BY <3>1, <3>2, <1>a
    <3>3. CASE owner[n] \notin Clients
      BY <3>1, <3>3, <1>a
    <3> QED BY <3>2, <3>3
  <2>2. OwnStep(n)
    BY <1>1 DEF ChildGreet, OwnStep, RoleGo, child
  <2> QED BY <2>1, <2>2, <1>1, <1>a, StepOwn DEF ChildGreet, child
<1>2. CASE ChildKey(n)
  <2>1. key' \in [Procs -> {"none", "K", "other"}]
    BY <1>2, <1>a DEF ChildKey
  <2>2. OwnStep(n)
    BY <1>2 DEF ChildKey, OwnStep, RoleGo, child
  <2> QED BY <2>1, <2>2, <1>2, <1>a, StepOwn DEF ChildKey, child
<1>3. CASE ChildServe(n)
  <2>1. bash' \in [Procs -> BOOLEAN]
    BY <1>3, <1>a DEF ChildServe
  <2>2. OwnStep(n)
    BY <1>3 DEF ChildServe, OwnStep, RoleGo, child
  <2> QED BY <2>1, <2>2, <1>3, <1>a, StepOwn DEF ChildServe, child
<1>4. CASE BashExits(n)
  <2>1. bash' \in [Procs -> BOOLEAN]
    BY <1>4, <1>a DEF BashExits
  <2>2. /\ UNCHANGED <<net, greets, clients, procs, role, tables, pipe, owner, key, got, faults>>
        /\ Parts
    BY <1>4, InvParts DEF BashExits
  <2>3. Forked' /\ Tables' /\ Held' /\ Flow' /\ ClientTypes' /\ PipeTypes' /\ (faults \in 0..MaxFaults)'
    BY <2>2, RoutesSame, MailSame, ClientTypesSame, PipeTypesSame DEF Parts
  <2>4. ServerTypes'
    BY <2>1, <2>2 DEF Parts, ServerTypes, tables
  <2> QED BY <2>3, <2>4, PartsInv
<1>5. CASE BashSilent(n)
  <2>1. OwnStep(n)
    BY <1>5 DEF BashSilent, OwnStep, RoleGo, child
  <2> QED BY <2>1, <1>5, <1>a, StepOwn DEF BashSilent, child
<1> QED BY <1>1, <1>2, <1>3, <1>4, <1>5 DEF ChildStep, BashStep
-----------------------------------------------------------------------------
(* Every step keeps it.                                                       *)
LEMMA NextUdp == UdpIInv /\ [Next]_vars => UdpIInv'
<1> SUFFICES ASSUME UdpIInv, [Next]_vars PROVE UdpIInv'
  OBVIOUS
<1>1. ASSUME NEW c \in Clients, ClientStep(c) PROVE UdpIInv'
  BY <1>1, StepClient
<1>2. ASSUME NEW n \in Procs, ServerStep(n) PROVE UdpIInv'
  BY <1>2, StepConnect, StepData, StepWrite DEF ServerStep
<1>3. ASSUME NEW n \in Procs, ChildStep(n) \/ BashStep(n) PROVE UdpIInv'
  BY <1>3, StepChild
<1>4. CASE Network
  BY <1>4, StepNetwork
<1>5. CASE UNCHANGED vars
  <2>a. Parts
    BY InvParts
  <2>1. Forked' /\ Tables' /\ Held' /\ Flow'
    BY <1>5, <2>a, RoutesSame, MailSame DEF vars, child, Parts
  <2>2. ClientTypes' /\ ServerTypes' /\ PipeTypes' /\ (faults \in 0..MaxFaults)'
    BY <1>5, <2>a, ClientTypesSame, ServerTypesSame, PipeTypesSame DEF vars, child, Parts
  <2> QED BY <2>1, <2>2, PartsInv
<1> QED BY <1>1, <1>2, <1>3, <1>4, <1>5 DEF Next

(* The invariant is inductive.                                               *)
THEOREM UdpInvariant == Spec => []UdpIInv
BY InitUdp, NextUdp, PTL DEF Spec

(* TypeOK: in particular no pipe holds more than PipeSize messages.          *)
THEOREM UdpTypes == Spec => []TypeOK
<1>1. UdpIInv => TypeOK
  BY DEF UdpIInv
<1> QED BY <1>1, UdpInvariant, PTL

(* What gen_id is for: it gives no two clients the same number.              *)
IdsDiffer == \A c, d \in Clients : Id[c] = Id[d] => c = d

(* OwnClientOnly: whatever the network does, a subprocess reads only what    *)
(* its own client sent (udp.c:83), provided the ids differ.                  *)
THEOREM UdpOwnClientOnly == IdsDiffer => (Spec => []OwnClientOnly)
<1> SUFFICES ASSUME IdsDiffer PROVE Spec => []OwnClientOnly
  OBVIOUS
<1>1. UdpIInv => OwnClientOnly
  <2> SUFFICES ASSUME UdpIInv, NEW n \in 1..procs
               PROVE  /\ \A k \in 1..Len(got[n]) : got[n][k].from = owner[n]
                      /\ \A k \in 1..Len(pipe[n]) : pipe[n][k].from = owner[n]
    BY DEF OwnClientOnly
  <2>1. got[n] \in Seq(Mail(n)) /\ pipe[n] \in Seq(Mail(n)) /\ owner[n] \in Clients
    BY DEF UdpIInv, Flow, Forked
  <2>2. \A m \in Mail(n) : m.from = owner[n]
    BY <2>1 DEF Mail, IdsDiffer
  <2> QED BY <2>1, <2>2, ElementOfSeq
<1> QED BY <1>1, UdpInvariant, PTL

(* TableLeadsHome: the server's table and pipes agree, and no two slots are  *)
(* one client's (udp.c:137).                                                 *)
THEOREM UdpTableLeadsHome == Spec => []TableLeadsHome
<1>1. UdpIInv => TableLeadsHome
  <2> SUFFICES ASSUME UdpIInv, NEW i \in Slots, mas[Server][i] # 0
               PROVE  /\ chan[Server][i] # NoPipe /\ mas[Server][i] = Id[owner[chan[Server][i]]]
                      /\ \A j \in Slots \ {i} : mas[Server][j] # mas[Server][i]
    BY DEF TableLeadsHome
  <2>1. Server \in Procs
    BY UdpAssumption DEF Server, Procs
  <2>2. LeadsHome(Server, i) /\ \A l, j \in Slots : l < j /\ mas[Server][j] # 0 => mas[Server][l] \notin {0, mas[Server][j]}
    BY <2>1 DEF UdpIInv, Tables
  <2>3. ASSUME NEW j \in Slots \ {i} PROVE mas[Server][j] # mas[Server][i]
    <3>1. i < j \/ j < i
      BY UdpAssumption DEF Slots
    <3> QED BY <3>1, <2>2
  <2> QED BY <2>2, <2>3 DEF LeadsHome, NoPipe
<1> QED BY <1>1, UdpInvariant, PTL
-----------------------------------------------------------------------------
(* The order of the lines.  On a network that keeps what it is given, and    *)
(* with shells that start, a client's messages have numbers: the open key is *)
(* the first, then the lines.                                                *)
Reliable == Faults = {} /\ ~ShellFails /\ IdsDiffer

Stream == [c \in Clients |-> IF cpc[c] \in {"main", "done"} THEN <<OpenKey>> \o sent[c] ELSE <<>>]

(* How many messages subprocess n took from its pipe, how many reached the   *)
(* pipe, and how many the server took from the network.                      *)
Handed(n) == IF role[n] \in {"greet", "key"} THEN 0 ELSE 1 + Len(got[n])
Piped(n) == Handed(n) + Len(pipe[n])
Passed(n) == Piped(n) + IF role[Server] = "write" /\ held[Server].to = n THEN 1 ELSE 0

(* Only the server serves the network; a client has one subprocess and the   *)
(* server knows it; who has the key or sent lines has one; who still has a   *)
(* connection to ask for has none.                                           *)
OneServer == /\ \A n \in 1..procs : /\ role[n] \in {"greet", "key", "serve", "talk", "exited"}
                                    /\ key[n] = IF role[n] \in {"greet", "key"} THEN "none" ELSE "K"
                                    /\ role[n] \in {"greet", "key"} => got[n] = <<>>
             /\ \A n \in (procs + 1)..MaxForks : key[n] = "none"
OneSubprocess ==
  /\ \A n, m \in 1..procs : owner[n] = owner[m] => n = m
  /\ \A n \in 1..procs : cpc[owner[n]] # "start" /\ \E i \in Slots : mas[Server][i] = Id[owner[n]]
  /\ \A c \in Clients : greets[c] > 0 \/ cpc[c] \in {"main", "done"} => \E n \in 1..procs : owner[n] = c
  /\ \A c \in Clients : cpc[c] \in {"start", "key"} => sent[c] = <<>>
OneConnect ==
  \A k \in 1..Len(net) : net[k].what = "connect" =>
    /\ cpc[net[k].from] # "start"
    /\ \A n \in 1..procs : owner[n] # net[k].from
    /\ \A l \in 1..Len(net) \ {k} : net[l].what = "connect" => net[l].from # net[k].from

(* idx gives the datagrams on their way, nt, the numbers they have in the    *)
(* streams of their clients: what a subprocess' client sent and the server   *)
(* has not taken is there, and in order.                                     *)
DataOf(d, c) == d.what = "data" /\ d.from = c
Numbering(nt, idx, stream, own, passed) ==
  /\ Len(idx) = Len(nt)
  /\ \A k \in 1..Len(nt) : nt[k].what = "data" =>
       idx[k] \in 1..Len(stream[nt[k].from]) /\ nt[k].body = stream[nt[k].from][idx[k]]
  /\ \A k, l \in 1..Len(nt) : k < l /\ nt[k].what = "data" /\ DataOf(nt[l], nt[k].from) => idx[k] < idx[l]
  /\ \A n \in DOMAIN passed :
       /\ \A k \in 1..Len(nt) : DataOf(nt[k], own[n]) => passed[n] < idx[k]
       /\ \A j \in (passed[n] + 1)..Len(stream[own[n]]) : \E k \in 1..Len(nt) : DataOf(nt[k], own[n]) /\ idx[k] = j

AllPassed == [n \in 1..procs |-> Passed(n)]
Numbered(idx) == Numbering(net, idx, Stream, owner, AllPassed)
InLine ==
  \A n \in 1..procs :
    /\ Passed(n) <= Len(Stream[owner[n]])
    /\ \A k \in 1..Len(got[n]) : got[n][k].msg = Stream[owner[n]][1 + k]
    /\ \A k \in 1..Len(pipe[n]) : pipe[n][k].msg = Stream[owner[n]][Handed(n) + k]
    /\ role[Server] = "write" /\ held[Server].to = n => held[Server].msg = Stream[owner[n]][Piped(n) + 1]

Ones == OneServer /\ OneSubprocess /\ OneConnect
OrderIInv == UdpIInv /\ Ones /\ InLine /\ \E idx \in Seq(Nat) : Numbered(idx)

(* The numbers when a request for a connection is sent: it has none.         *)
LEMMA NumberConnect ==
  ASSUME NEW nt \in Seq(Datagrams), NEW idx \in Seq(Nat), NEW stream, NEW own, NEW passed,
         Numbering(nt, idx, stream, own, passed), NEW d \in Datagrams, d.what = "connect"
  PROVE  Numbering(Append(nt, d), Append(idx, 0), stream, own, passed)
<1> DEFINE N == Append(nt, d)
           X == Append(idx, 0)
<1>1. /\ Len(nt) \in Nat /\ Len(idx) = Len(nt) /\ Len(N) = Len(nt) + 1 /\ N[Len(nt) + 1].what # "data"
      /\ \A k \in 1..Len(nt) : N[k] = nt[k]
  BY AppendProperties, LenProperties DEF Numbering
<1>2. Len(X) = Len(nt) + 1 /\ \A k \in 1..Len(nt) : X[k] = idx[k]
  BY <1>1, AppendProperties
<1> HIDE DEF N, X
<1>3. \A k \in 1..Len(N) : N[k].what = "data" => k \in 1..Len(nt) /\ N[k] = nt[k] /\ X[k] = idx[k]
  BY <1>1, <1>2
<1>4. \A k \in 1..Len(nt) : k \in 1..Len(N)
  BY <1>1
<1> QED BY <1>1, <1>2, <1>3, <1>4 DEF Numbering, DataOf, N, X

(* The numbers when client c sends its next message.                         *)
LEMMA NumberData ==
  ASSUME NEW nt \in Seq(Datagrams), NEW idx \in Seq(Nat), NEW stream \in [Clients -> Seq(Bodies)],
         NEW own, NEW passed, Numbering(nt, idx, stream, own, passed),
         \A n \in DOMAIN passed : own[n] \in Clients /\ passed[n] \in Nat /\ passed[n] <= Len(stream[own[n]]),
         NEW c \in Clients, NEW d \in Datagrams, DataOf(d, c),
         NEW longer \in [Clients -> Seq(Bodies)], longer[c] = Append(stream[c], d.body),
         \A b \in Clients \ {c} : longer[b] = stream[b]
  PROVE  Numbering(Append(nt, d), Append(idx, Len(stream[c]) + 1), longer, own, passed)
<1> DEFINE N == Append(nt, d)
           last == Len(stream[c]) + 1
           X == Append(idx, last)
<1>0. last \in Nat /\ \A b \in Clients : Len(stream[b]) \in Nat
  BY LenProperties
<1>1. /\ Len(nt) \in Nat /\ Len(idx) = Len(nt) /\ Len(N) = Len(nt) + 1 /\ N[Len(nt) + 1] = d
      /\ \A k \in 1..Len(nt) : N[k] = nt[k] /\ nt[k].from \in Clients
  <2>1. \A k \in 1..Len(nt) : nt[k].from \in Clients
    BY ElementOfSeq DEF Datagrams
  <2> QED BY <2>1, AppendProperties, LenProperties DEF Numbering
<1>2. Len(X) = Len(nt) + 1 /\ X[Len(nt) + 1] = last /\ \A k \in 1..Len(nt) : X[k] = idx[k]
  BY <1>0, <1>1, AppendProperties
<1>3. /\ Len(longer[c]) = last /\ longer[c][last] = d.body
      /\ \A b \in Clients : Len(stream[b]) <= Len(longer[b]) /\ \A j \in 1..Len(stream[b]) : longer[b][j] = stream[b][j]
      /\ \A b \in Clients \ {c} : longer[b] = stream[b]
  <2>1. d.body \in Bodies
    BY DEF Datagrams
  <2>2. /\ Len(Append(stream[c], d.body)) = last /\ Append(stream[c], d.body)[last] = d.body
        /\ \A j \in 1..Len(stream[c]) : Append(stream[c], d.body)[j] = stream[c][j]
    BY <2>1, AppendProperties
  <2>3. longer[c] = Append(stream[c], d.body) /\ \A b \in Clients \ {c} : longer[b] = stream[b]
    OBVIOUS
  <2>4. Len(longer[c]) = last /\ longer[c][last] = d.body
    BY <2>2, <2>3
  <2>5. ASSUME NEW b \in Clients
        PROVE  Len(stream[b]) <= Len(longer[b]) /\ \A j \in 1..Len(stream[b]) : longer[b][j] = stream[b][j]
    <3>1. CASE b = c
      <4>1. Len(stream[c]) \in Nat /\ Len(longer[c]) = Len(stream[c]) + 1
        BY <1>0, <2>4
      <4>2. \A j \in 1..Len(stream[c]) : longer[c][j] = stream[c][j]
        BY <2>2, <2>3
      <4>3. Len(stream[c]) <= Len(longer[c])
        BY <4>1
      <4> QED BY <3>1, <4>2, <4>3
    <3>2. CASE b # c
      BY <3>2, <2>3, <1>0
    <3> QED BY <3>1, <3>2
  <2> QED BY <2>3, <2>4, <2>5
<1> HIDE DEF N, X, last
<1>4. \A k \in 1..Len(N) : k \in 1..Len(nt) \/ k = Len(nt) + 1
  BY <1>1, SMTT(30)
<1>5. ASSUME NEW k \in 1..Len(N), N[k].what = "data"
      PROVE  X[k] \in 1..Len(longer[N[k].from]) /\ N[k].body = longer[N[k].from][X[k]]
  <2>1. CASE k \in 1..Len(nt)
    <3>1. idx[k] \in 1..Len(stream[nt[k].from]) /\ nt[k].body = stream[nt[k].from][idx[k]]
      BY <2>1, <1>1, <1>5 DEF Numbering
    <3>2. idx[k] \in 1..Len(longer[nt[k].from]) /\ nt[k].body = longer[nt[k].from][idx[k]]
      BY <3>1, <2>1, <1>0, <1>1, <1>3
    <3> QED BY <3>2, <2>1, <1>1, <1>2
  <2>2. CASE k = Len(nt) + 1
    BY <2>2, <1>0, <1>1, <1>2, <1>3 DEF DataOf, last
  <2> QED BY <2>1, <2>2, <1>4
<1>6. ASSUME NEW k \in 1..Len(N), NEW l \in 1..Len(N), k < l, N[k].what = "data", DataOf(N[l], N[k].from)
      PROVE  X[k] < X[l]
  <2>0. k \in 1..Len(nt)
    BY <1>1, <1>6
  <2>1. CASE l \in 1..Len(nt)
    BY <2>0, <2>1, <1>1, <1>2, <1>6 DEF Numbering
  <2>2. CASE l = Len(nt) + 1
    <3>1. nt[k].from = c /\ nt[k].what = "data"
      BY <2>0, <2>2, <1>1, <1>6 DEF DataOf
    <3>2. idx[k] \in 1..Len(stream[c])
      BY <3>1, <2>0 DEF Numbering
    <3> QED BY <3>2, <2>0, <2>2, <1>0, <1>2 DEF last
  <2> QED BY <2>1, <2>2, <1>4
<1>7. ASSUME NEW n \in DOMAIN passed
      PROVE  /\ \A k \in 1..Len(N) : DataOf(N[k], own[n]) => passed[n] < X[k]
             /\ \A j \in (passed[n] + 1)..Len(longer[own[n]]) : \E k \in 1..Len(N) : DataOf(N[k], own[n]) /\ X[k] = j
  <2>1. /\ \A k \in 1..Len(nt) : DataOf(nt[k], own[n]) => passed[n] < idx[k]
        /\ \A j \in (passed[n] + 1)..Len(stream[own[n]]) : \E k \in 1..Len(nt) : DataOf(nt[k], own[n]) /\ idx[k] = j
    BY DEF Numbering
  <2>2. ASSUME NEW k \in 1..Len(N), DataOf(N[k], own[n]) PROVE passed[n] < X[k]
    <3>1. CASE k \in 1..Len(nt)
      BY <3>1, <2>1, <2>2, <1>1, <1>2
    <3>2. CASE k = Len(nt) + 1
      BY <3>2, <2>2, <1>0, <1>1, <1>2 DEF DataOf, last
    <3> QED BY <3>1, <3>2, <1>4
  <2>3. ASSUME NEW j \in (passed[n] + 1)..Len(longer[own[n]])
        PROVE  \E k \in 1..Len(N) : DataOf(N[k], own[n]) /\ X[k] = j
    <3>1. CASE j \in (passed[n] + 1)..Len(stream[own[n]])
      <4>1. PICK k \in 1..Len(nt) : DataOf(nt[k], own[n]) /\ idx[k] = j
        BY <3>1, <2>1
      <4>2. k \in 1..Len(N)
        BY <1>1
      <4> QED BY <4>1, <4>2, <1>1, <1>2
    <3>2. CASE own[n] = c /\ j = last
      <4>1. Len(nt) + 1 \in 1..Len(N)
        BY <1>1
      <4> QED BY <3>2, <4>1, <1>1, <1>2
    <3>3. CASE own[n] # c
      <4>1. own[n] \in Clients \ {c}
        BY <3>3
      <4>2. longer[own[n]] = stream[own[n]]
        BY <4>1, <1>3
      <4> QED BY <4>2, <3>1
    <3>4. CASE own[n] = c
      <4>1. /\ passed[n] \in Nat /\ j \in Int /\ Len(stream[c]) \in Nat
            /\ passed[n] + 1 <= j /\ j <= Len(longer[c])
        BY <3>4, <1>0, <1>3
      <4>2. j <= Len(stream[c]) \/ j = last
        BY <4>1, <1>3 DEF last
      <4>3. j <= Len(stream[c]) => j \in (passed[n] + 1)..Len(stream[own[n]])
        BY <4>1, <3>4
      <4> QED BY <4>2, <4>3, <3>1, <3>2, <3>4
    <3> QED BY <3>3, <3>4
  <2> QED BY <2>2, <2>3
<1> QED BY <1>1, <1>2, <1>5, <1>6, <1>7 DEF Numbering, N, X, last

(* The numbers when the server takes the oldest datagram.                    *)
NextTaken(nt, stream, own, passed, now) ==
  /\ Len(nt) > 0 /\ DOMAIN now = DOMAIN passed
  /\ \A n \in DOMAIN passed :
       /\ passed[n] \in Nat /\ Len(stream[own[n]]) \in Nat
       /\ now[n] = passed[n] + IF DataOf(nt[1], own[n]) THEN 1 ELSE 0
       /\ DataOf(nt[1], own[n]) => passed[n] + 1 <= Len(stream[own[n]])
(* The first message under way is taken: it is the next of its client.        *)
LEMMA NumberTake ==
  ASSUME NEW nt \in Seq(Datagrams), NEW idx \in Seq(Nat), NEW stream, NEW own, NEW passed, NEW now,
         Numbering(nt, idx, stream, own, passed), NextTaken(nt, stream, own, passed, now)
  PROVE  /\ Numbering(Without(nt, 1), Without(idx, 1), stream, own, now)
         /\ \A n \in DOMAIN passed : DataOf(nt[1], own[n]) => idx[1] = passed[n] + 1
<1> USE DEF NextTaken
<1> DEFINE N == Without(nt, 1)
           X == Without(idx, 1)
<1>1. Len(nt) \in Nat /\ Len(idx) = Len(nt) /\ 1 \in 1..Len(nt) /\ \A k \in 1..Len(nt) : idx[k] \in Nat
  BY LenProperties, ElementOfSeq DEF Numbering
<1>2. /\ Len(N) = Len(nt) - 1 /\ \A k \in 1..Len(N) : N[k] = nt[k + 1]
      /\ Len(X) = Len(nt) - 1 /\ \A k \in 1..Len(N) : X[k] = idx[k + 1]
  <2>1. Len(N) = Len(nt) - 1 /\ \A k \in 1..(Len(nt) - 1) : N[k] = nt[k + 1]
    BY <1>1, WithoutElement
  <2>2. 1 \in 1..Len(idx)
    BY <1>1
  <2>3. Len(X) = Len(idx) - 1 /\ \A k \in 1..(Len(idx) - 1) : X[k] = idx[k + 1]
    BY <2>2, WithoutElement
  <2> QED BY <1>1, <2>1, <2>3, Zenon
<1> HIDE DEF N, X
<1>3. \A k \in 1..Len(N) : k \in Int /\ k + 1 \in 1..Len(nt)
  BY <1>1, <1>2
<1>4. ASSUME NEW n \in DOMAIN passed, DataOf(nt[1], own[n]) PROVE idx[1] = passed[n] + 1
  <2>1. passed[n] + 1 \in (passed[n] + 1)..Len(stream[own[n]])
    BY <1>4
  <2>2. PICK k \in 1..Len(nt) : DataOf(nt[k], own[n]) /\ idx[k] = passed[n] + 1
    BY <2>1 DEF Numbering
  <2>3. passed[n] < idx[1]
    BY <1>1, <1>4 DEF Numbering
  <2>4. k # 1 => idx[1] < idx[k]
    BY <1>1, <1>4, <2>2 DEF Numbering, DataOf
  <2> QED BY <2>2, <2>3, <2>4, <1>1
<1>5. ASSUME NEW k \in 1..Len(N), N[k].what = "data"
      PROVE  X[k] \in 1..Len(stream[N[k].from]) /\ N[k].body = stream[N[k].from][X[k]]
  <2>1. k + 1 \in 1..Len(nt) /\ N[k] = nt[k + 1] /\ X[k] = idx[k + 1]
    BY <1>2, <1>3
  <2>2. nt[k + 1].what = "data"
    BY <2>1, <1>5
  <2> QED BY <2>1, <2>2 DEF Numbering
<1>6. ASSUME NEW k \in 1..Len(N), NEW l \in 1..Len(N), k < l, N[k].what = "data", DataOf(N[l], N[k].from)
      PROVE  X[k] < X[l]
  <2>1. k + 1 \in 1..Len(nt) /\ l + 1 \in 1..Len(nt) /\ k + 1 < l + 1
    BY <1>3, <1>6
  <2>2. /\ N[k] = nt[k + 1] /\ X[k] = idx[k + 1] /\ N[l] = nt[l + 1] /\ X[l] = idx[l + 1]
    BY <1>2
  <2>3. nt[k + 1].what = "data" /\ DataOf(nt[l + 1], nt[k + 1].from)
    BY <2>2, <1>6
  <2> QED BY <2>1, <2>2, <2>3 DEF Numbering
<1>7. ASSUME NEW n \in DOMAIN now
      PROVE  /\ \A k \in 1..Len(N) : DataOf(N[k], own[n]) => now[n] < X[k]
             /\ \A j \in (now[n] + 1)..Len(stream[own[n]]) : \E k \in 1..Len(N) : DataOf(N[k], own[n]) /\ X[k] = j
  <2>0. n \in DOMAIN passed /\ passed[n] \in Nat /\ now[n] \in {passed[n], passed[n] + 1}
    OBVIOUS
  <2>1. ASSUME NEW k \in 1..Len(N), DataOf(N[k], own[n]) PROVE now[n] < X[k]
    <3>1. DataOf(nt[k + 1], own[n]) /\ k + 1 \in 1..Len(nt) /\ X[k] = idx[k + 1] /\ 1 < k + 1
      BY <2>1, <1>1, <1>2, <1>3, SMTT(30)
    <3>2. passed[n] < idx[k + 1]
      BY <2>0, <3>1 DEF Numbering
    <3>3. DataOf(nt[1], own[n]) => idx[1] < idx[k + 1]
      BY <3>1, <1>1 DEF Numbering, DataOf
    <3>4. now[n] = passed[n] + IF DataOf(nt[1], own[n]) THEN 1 ELSE 0
      BY <2>0
    <3> QED BY <2>0, <3>1, <3>2, <3>3, <3>4, <1>1, <1>4
  <2>2. ASSUME NEW j \in (now[n] + 1)..Len(stream[own[n]])
        PROVE  \E k \in 1..Len(N) : DataOf(N[k], own[n]) /\ X[k] = j
    <3>0. now[n] = passed[n] + IF DataOf(nt[1], own[n]) THEN 1 ELSE 0
      BY <2>0
    <3>1. j \in (passed[n] + 1)..Len(stream[own[n]])
      BY <2>0
    <3>2. PICK k \in 1..Len(nt) : DataOf(nt[k], own[n]) /\ idx[k] = j
      BY <2>0, <3>1 DEF Numbering
    <3>3. k # 1
      <4>1. CASE DataOf(nt[1], own[n])
        <5>1. idx[1] = passed[n] + 1 /\ now[n] = passed[n] + 1
          BY <4>1, <2>0, <3>0, <1>4
        <5> QED BY <5>1, <2>0, <3>2
      <4>2. CASE ~ DataOf(nt[1], own[n])
        BY <4>2, <3>2
      <4> QED BY <4>1, <4>2
    <3>4. k - 1 \in 1..Len(N) /\ (k - 1) + 1 = k
      BY <3>3, <1>1, <1>2
    <3> QED BY <3>2, <3>4, <1>2
  <2> QED BY <2>1, <2>2
<1>8. Numbering(N, X, stream, own, now)
  BY <1>2, <1>5, <1>6, <1>7 DEF Numbering
<1> QED BY <1>4, <1>8 DEF N, X

(* What the steps below use of the invariant.                                *)
LEMMA OrderTypes ==
  ASSUME UdpIInv
  PROVE  /\ net \in Seq(Datagrams) /\ Len(net) \in Nat /\ \A k \in 1..Len(net) : net[k] \in Datagrams
         /\ \A d \in Datagrams : d.from \in Clients /\ d.id = Id[d.from] /\ d.what \in {"connect", "data"} /\ d.body \in Bodies
         /\ procs \in Nat /\ 1..procs \subseteq Procs /\ Server \in Procs /\ Server \notin 1..procs
         /\ \A n \in 1..procs : owner[n] \in Clients
         /\ \A n \in 1..procs : pipe[n] \in Seq(Mail(n)) /\ got[n] \in Seq(Mail(n))
                                /\ Len(pipe[n]) \in Nat /\ Len(got[n]) \in Nat
         /\ \A n \in 1..procs : Handed(n) \in Nat /\ Piped(n) \in Nat /\ Passed(n) \in Nat /\ Piped(n) <= Passed(n)
         /\ sent \in [Clients -> Seq(Bodies)] /\ cpc \in [Clients -> {"start", "key", "main", "done"}]
         /\ greets \in [Clients -> Nat]
         /\ Stream \in [Clients -> Seq(Bodies)] /\ \A c \in Clients : Len(Stream[c]) \in Nat
         /\ role \in [Procs -> {"none", "greet", "key", "serve", "talk", "loop", "write", "exited"}]
<1>a. Parts
  BY InvParts
<1>1. /\ net \in Seq(Datagrams) /\ Len(net) \in Nat /\ \A k \in 1..Len(net) : net[k] \in Datagrams
  BY <1>a, LenProperties, ElementOfSeq DEF Parts
<1>2. \A d \in Datagrams : d.from \in Clients /\ d.id = Id[d.from] /\ d.what \in {"connect", "data"} /\ d.body \in Bodies
  BY DEF Datagrams
<1>3. /\ procs \in Nat /\ 1..procs \subseteq Procs /\ Server \in Procs /\ Server \notin 1..procs
      /\ role \in [Procs -> {"none", "greet", "key", "serve", "talk", "loop", "write", "exited"}]
  BY <1>a, UdpAssumption DEF Parts, ServerTypes, Procs, Server
<1>4. /\ sent \in [Clients -> Seq(Bodies)] /\ cpc \in [Clients -> {"start", "key", "main", "done"}]
      /\ greets \in [Clients -> Nat]
  BY <1>a DEF Parts, ClientTypes
<1>5. \A n \in 1..procs : owner[n] \in Clients
  BY <1>a DEF Parts, Forked
<1>6. \A n \in 1..procs : pipe[n] \in Seq(Mail(n)) /\ got[n] \in Seq(Mail(n))
                          /\ Len(pipe[n]) \in Nat /\ Len(got[n]) \in Nat
  BY <1>a, LenProperties DEF Parts, Flow
<1>7. \A n \in 1..procs : Handed(n) \in Nat /\ Piped(n) \in Nat /\ Passed(n) \in Nat /\ Piped(n) <= Passed(n)
  <2> SUFFICES ASSUME NEW n \in 1..procs
               PROVE  Handed(n) \in Nat /\ Piped(n) \in Nat /\ Passed(n) \in Nat /\ Piped(n) <= Passed(n)
    OBVIOUS
  <2>1. Handed(n) \in Nat
    BY <1>6 DEF Handed
  <2>2. Piped(n) \in Nat
    BY <2>1, <1>6 DEF Piped
  <2> QED BY <2>1, <2>2 DEF Passed
<1>8. Stream \in [Clients -> Seq(Bodies)] /\ \A c \in Clients : Len(Stream[c]) \in Nat
  <2>1. <<OpenKey>> \in Seq(Bodies) /\ <<>> \in Seq(Bodies)
    BY DEF Bodies
  <2>2. \A c \in Clients : <<OpenKey>> \o sent[c] \in Seq(Bodies)
    BY <2>1, <1>4, ConcatProperties
  <2>3. Stream \in [Clients -> Seq(Bodies)]
    BY <2>1, <2>2 DEF Stream
  <2> QED BY <2>3, LenProperties
<1> QED BY <1>1, <1>2, <1>3, <1>4, <1>5, <1>6, <1>7, <1>8

Order == Ones /\ InLine /\ \E idx \in Seq(Nat) : Numbered(idx)

(* A datagram joins the others.                                              *)
LEMMA Joined ==
  ASSUME net \in Seq(Datagrams), NEW d \in Datagrams, net' = Append(net, d)
  PROVE  /\ Len(net) \in Nat /\ Len(net') = Len(net) + 1 /\ net'[Len(net) + 1] = d
         /\ \A k \in 1..Len(net) : net'[k] = net[k]
BY AppendProperties, LenProperties

(* Steps that leave the pipes and who reads them alone.                      *)
LEMMA PassedSame ==
  UNCHANGED <<procs, role, held, pipe, got>> =>
    /\ AllPassed' = AllPassed
    /\ \A n \in 1..procs : Handed(n)' = Handed(n) /\ Piped(n)' = Piped(n) /\ Passed(n)' = Passed(n)
BY DEF AllPassed, Passed, Piped, Handed

(* com_connect is asked for.                                                 *)
LEMMA OrderConnect == ASSUME OrderIInv, NEW c \in Clients, ClientConnect(c) PROVE Order'
<1>a. UdpIInv /\ Ones /\ InLine
  BY DEF OrderIInv
<1> DEFINE d == Datagram(c, Id[c], "connect", Plain(""))
<1>b. d \in Datagrams /\ d.what = "connect" /\ d.from = c
  BY UdpAssumption DEF Datagram, Datagrams, Bodies
<1>c. /\ cpc[c] = "start" /\ cpc' = [cpc EXCEPT ![c] = "key"] /\ net' = Append(net, d)
      /\ UNCHANGED <<greets, sent, procs, role, mas, held, pipe, owner, key, got>>
  BY DEF ClientConnect, ClientGo, tables, child
<1> HIDE DEF d
<1>d. cpc \in [Clients -> {"start", "key", "main", "done"}]
  BY <1>a, OrderTypes
<1>1. Stream' = Stream
  BY <1>c, <1>d DEF Stream
<1>2. OneServer' /\ OneSubprocess'
  <2>1. OneServer'
    BY <1>a, <1>c DEF Ones, OneServer
  <2>2. \A n \in 1..procs : owner[n] # c
    BY <1>a, <1>c DEF Ones, OneSubprocess
  <2> QED BY <2>1, <2>2, <1>a, <1>c, <1>d DEF Ones, OneSubprocess
<1>3. OneConnect'
  <2>0. /\ Len(net) \in Nat /\ Len(net') = Len(net) + 1 /\ net'[Len(net) + 1] = d
        /\ \A k \in 1..Len(net) : net'[k] = net[k] /\ net[k].from \in Clients
    BY <1>a, <1>b, <1>c, OrderTypes, Joined
  <2>1. ASSUME NEW k \in 1..Len(net), net[k].what = "connect"
        PROVE  /\ net[k].from # c /\ cpc[net[k].from] # "start" /\ \A n \in 1..procs : owner[n] # net[k].from
               /\ \A l \in 1..Len(net) \ {k} : net[l].what = "connect" => net[l].from # net[k].from
    BY <1>a, <1>c, <2>1 DEF Ones, OneConnect
  <2>2. \A n \in 1..procs : owner[n] # c
    BY <1>a, <1>c DEF Ones, OneSubprocess
  <2>3. ASSUME NEW k \in 1..Len(net'), net'[k].what = "connect"
        PROVE  /\ cpc'[net'[k].from] # "start" /\ \A n \in 1..procs' : owner'[n] # net'[k].from
               /\ \A l \in 1..Len(net') \ {k} : net'[l].what = "connect" => net'[l].from # net'[k].from
    <3>1. CASE k \in 1..Len(net)
      <4>1. \A l \in 1..Len(net') : l \in 1..Len(net) \/ net'[l].from = c
        BY <2>0, <1>b
      <4> QED BY <3>1, <4>1, <2>0, <2>1, <2>3, <1>c, <1>d
    <3>2. CASE k = Len(net) + 1
      <4>1. net'[k].from = c /\ cpc'[c] = "key"
        BY <3>2, <2>0, <1>b, <1>c, <1>d
      <4>2. \A l \in 1..Len(net') \ {k} : l \in 1..Len(net) /\ net'[l] = net[l]
        BY <3>2, <2>0
      <4> QED BY <4>1, <4>2, <2>1, <2>2, <1>c
    <3> QED BY <3>1, <3>2, <2>0
  <2> QED BY <2>3 DEF OneConnect
<1>4. InLine'
  BY <1>a, <1>c, <1>1, PassedSame DEF InLine
<1>5. \E idx \in Seq(Nat) : Numbered(idx)'
  <2>1. PICK idx \in Seq(Nat) : Numbered(idx)
    BY DEF OrderIInv
  <2>2. net \in Seq(Datagrams)
    BY <1>a, OrderTypes
  <2>3. Numbering(net', Append(idx, 0), Stream, owner, AllPassed)
    BY <2>1, <2>2, <1>b, <1>c, NumberConnect DEF Numbered
  <2>4. Append(idx, 0) \in Seq(Nat)
    BY AppendProperties
  <2>5. Numbered(Append(idx, 0))'
    BY <2>3, <1>1, <1>c, PassedSame DEF Numbered
  <2> QED BY <2>4, <2>5
<1> QED BY <1>2, <1>3, <1>4, <1>5 DEF Order, Ones

(* A client that has a subprocess sends its next message.                    *)
LEMMA OrderSaid ==
  ASSUME OrderIInv, NEW c \in Clients, NEW m \in Bodies, NEW at \in {"main", "done"},
         net' = Append(net, Datagram(c, Id[c], "data", m)), cpc' = [cpc EXCEPT ![c] = at],
         greets[c] > 0 \/ cpc[c] \in {"main", "done"},
         Stream' \in [Clients -> Seq(Bodies)], Stream'[c] = Append(Stream[c], m),
         \A b \in Clients \ {c} : Stream'[b] = Stream[b] /\ sent'[b] = sent[b],
         \A b \in Clients : greets'[b] > 0 => greets[b] > 0,
         UNCHANGED <<procs, role, mas, held, pipe, owner, key, got>>
  PROVE  Order'
<1>a. UdpIInv /\ Ones /\ InLine
  BY DEF OrderIInv
<1> DEFINE d == Datagram(c, Id[c], "data", m)
<1>b. d \in Datagrams /\ d.what = "data" /\ d.from = c /\ d.body = m
  BY UdpAssumption DEF Datagram, Datagrams
<1>c. net' = Append(net, d)
  OBVIOUS
<1> HIDE DEF d
<1>d. cpc \in [Clients -> {"start", "key", "main", "done"}]
  BY <1>a, OrderTypes
<1>1. \E n \in 1..procs : owner[n] = c
  BY <1>a DEF Ones, OneSubprocess
<1>2. OneServer' /\ OneSubprocess'
  <2>1. OneServer'
    BY <1>a DEF Ones, OneServer
  <2>2. \A b \in Clients : cpc'[b] = IF b = c THEN at ELSE cpc[b]
    BY <1>d
  <2>3. \A n, o \in 1..procs : owner[n] = owner[o] => n = o
    BY <1>a DEF Ones, OneSubprocess
  <2>4. \A n \in 1..procs : cpc'[owner[n]] # "start" /\ \E i \in Slots : mas[Server][i] = Id[owner[n]]
    <3>1. \A n \in 1..procs : owner[n] \in Clients
      BY <1>a, OrderTypes
    <3>2. \A n \in 1..procs : cpc[owner[n]] # "start" /\ \E i \in Slots : mas[Server][i] = Id[owner[n]]
      BY <1>a DEF Ones, OneSubprocess
    <3> QED BY <3>1, <3>2, <2>2
  <2>5. ASSUME NEW b \in Clients, greets'[b] > 0 \/ cpc'[b] \in {"main", "done"} PROVE \E n \in 1..procs : owner[n] = b
    <3>1. CASE b = c
      BY <3>1, <1>1
    <3>2. CASE b # c
      <4>1. greets[b] > 0 \/ cpc[b] \in {"main", "done"}
        BY <3>2, <2>2, <2>5
      <4> QED BY <4>1, <1>a DEF Ones, OneSubprocess
    <3> QED BY <3>1, <3>2
  <2>6. ASSUME NEW b \in Clients, cpc'[b] \in {"start", "key"} PROVE sent'[b] = <<>>
    <3>1. b # c /\ cpc[b] \in {"start", "key"} /\ sent'[b] = sent[b]
      BY <2>2, <2>6
    <3> QED BY <3>1, <1>a DEF Ones, OneSubprocess
  <2>7. OneSubprocess'
    BY <2>3, <2>4, <2>5, <2>6 DEF OneSubprocess
  <2> QED BY <2>1, <2>7
<1>3. OneConnect'
  <2>0. /\ Len(net) \in Nat /\ Len(net') = Len(net) + 1 /\ net'[Len(net) + 1] = d
        /\ \A k \in 1..Len(net) : net'[k] = net[k] /\ net[k].from \in Clients
    BY <1>a, <1>b, <1>c, OrderTypes, Joined
  <2>1. \A k \in 1..Len(net') : net'[k].what = "connect" => k \in 1..Len(net)
    BY <2>0, <1>b
  <2>2. \A b \in Clients : cpc[b] # "start" => cpc'[b] # "start"
    BY <1>d
  <2> QED BY <2>0, <2>1, <2>2, <1>a DEF Ones, OneConnect
<1>s. /\ \A b \in Clients : Len(Stream[b]) \in Nat /\ Len(Stream[b]) <= Len(Stream'[b])
      /\ \A b \in Clients, j \in Nat : j \in 1..Len(Stream[b]) => Stream'[b][j] = Stream[b][j]
  <2> DEFINE T == Stream[c]
  <2>0. Stream \in [Clients -> Seq(Bodies)] /\ \A b \in Clients : Len(Stream[b]) \in Nat
    BY <1>a, OrderTypes
  <2>1. Len(Append(T, m)) = Len(T) + 1 /\ \A j \in 1..Len(T) : Append(T, m)[j] = T[j]
    BY <2>0, AppendProperties
  <2>2. ASSUME NEW b \in Clients
        PROVE  Len(Stream[b]) <= Len(Stream'[b]) /\ \A j \in Nat : j \in 1..Len(Stream[b]) => Stream'[b][j] = Stream[b][j]
    <3>1. CASE b = c
      <4>1. Len(Stream'[c]) = Len(T) + 1 /\ Len(T) \in Nat
        BY <2>0, <2>1
      <4> HIDE DEF T
      <4>2. Len(T) <= Len(Stream'[c])
        BY <4>1
      <4> QED BY <3>1, <4>2, <2>1 DEF T
    <3>2. CASE b # c
      BY <3>2, <2>0
    <3> QED BY <3>1, <3>2
  <2> QED BY <2>0, <2>2
<1>4. InLine'
  <2>0. /\ UNCHANGED <<procs, owner, got, pipe, role, held>>
        /\ \A n \in 1..procs : owner[n] \in Clients /\ Handed(n) \in Nat /\ Piped(n) \in Nat /\ Passed(n) \in Nat
                               /\ Len(got[n]) \in Nat /\ Len(pipe[n]) \in Nat
    BY <1>a, OrderTypes
  <2>1. ASSUME NEW n \in 1..procs
        PROVE  /\ Passed(n) <= Len(Stream'[owner[n]])
               /\ \A k \in 1..Len(got[n]) : got[n][k].msg = Stream'[owner[n]][1 + k]
               /\ \A k \in 1..Len(pipe[n]) : pipe[n][k].msg = Stream'[owner[n]][Handed(n) + k]
               /\ role[Server] = "write" /\ held[Server].to = n => held[Server].msg = Stream'[owner[n]][Piped(n) + 1]
    <3>1. Passed(n) <= Len(Stream[owner[n]]) /\ Len(Stream[owner[n]]) \in Nat
      BY <1>a, <1>s, <2>0 DEF InLine
    <3>2. Piped(n) = Handed(n) + Len(pipe[n]) /\ (Len(got[n]) > 0 => Handed(n) = 1 + Len(got[n]))
      BY <1>a DEF Piped, Handed, Ones, OneServer
    <3>3. Piped(n) <= Passed(n) /\ (role[Server] = "write" /\ held[Server].to = n => Passed(n) = Piped(n) + 1)
      BY <2>0 DEF Passed
    <3>4. Passed(n) <= Len(Stream'[owner[n]])
      BY <3>1, <1>s, <2>0
    <3>o. owner[n] \in Clients /\ \A j \in Nat : j \in 1..Len(Stream[owner[n]]) => Stream'[owner[n]][j] = Stream[owner[n]][j]
      BY <2>0, <1>s
    <3>5. ASSUME NEW k \in 1..Len(got[n]) PROVE got[n][k].msg = Stream'[owner[n]][1 + k]
      <4>0. /\ Len(got[n]) \in Nat /\ Len(pipe[n]) \in Nat /\ Handed(n) \in Nat /\ Piped(n) \in Nat /\ Passed(n) \in Nat
        BY <2>0
      <4>k. k \in Nat /\ 1 <= k /\ k <= Len(got[n])
        BY <4>0
      <4>h. Handed(n) = 1 + Len(got[n]) /\ Handed(n) <= Piped(n)
        BY <3>2, <4>0, <4>k, SMTT(30)
      <4>1. 1 + k \in Nat /\ 1 + k \in 1..Len(Stream[owner[n]])
        BY <3>1, <3>3, <4>0, <4>k, <4>h
      <4>2. got[n][k].msg = Stream[owner[n]][1 + k]
        BY <1>a DEF InLine
      <4> QED BY <4>1, <4>2, <3>o
    <3>6. ASSUME NEW k \in 1..Len(pipe[n]) PROVE pipe[n][k].msg = Stream'[owner[n]][Handed(n) + k]
      <4>0. /\ Len(got[n]) \in Nat /\ Len(pipe[n]) \in Nat /\ Handed(n) \in Nat /\ Piped(n) \in Nat /\ Passed(n) \in Nat
        BY <2>0
      <4>1. Handed(n) + k \in Nat /\ Handed(n) + k \in 1..Len(Stream[owner[n]])
        BY <3>1, <3>2, <3>3, <4>0, SMTT(30)
      <4>2. pipe[n][k].msg = Stream[owner[n]][Handed(n) + k]
        BY <1>a DEF InLine
      <4> QED BY <4>1, <4>2, <3>o
    <3>7. ASSUME role[Server] = "write", held[Server].to = n
          PROVE  held[Server].msg = Stream'[owner[n]][Piped(n) + 1]
      <4>1. Piped(n) + 1 \in 1..Len(Stream[owner[n]])
        BY <3>1, <3>3, <3>7, <2>0
      <4> QED BY <3>7, <4>1, <1>s, <1>a, <2>0, SMTT(30) DEF InLine
    <3> QED BY <3>4, <3>5, <3>6, <3>7
  <2> QED BY <2>0, <2>1, PassedSame, SMTT(30) DEF InLine
<1>5. \E idx \in Seq(Nat) : Numbered(idx)'
  <2>1. PICK idx \in Seq(Nat) : Numbered(idx)
    BY DEF OrderIInv
  <2>2. /\ net \in Seq(Datagrams) /\ Stream \in [Clients -> Seq(Bodies)] /\ Len(Stream[c]) + 1 \in Nat
        /\ \A n \in DOMAIN AllPassed : owner[n] \in Clients /\ AllPassed[n] \in Nat /\ AllPassed[n] <= Len(Stream[owner[n]])
    BY <1>a, OrderTypes DEF AllPassed, InLine
  <2>3. Numbering(net', Append(idx, Len(Stream[c]) + 1), Stream', owner, AllPassed)
    BY <2>1, <2>2, <1>b, <1>c, NumberData, ZenonT(60) DEF Numbered, DataOf
  <2>4. PICK x \in Seq(Nat) : x = Append(idx, Len(Stream[c]) + 1)
    BY <2>2, AppendProperties
  <2>5. Numbered(x)'
    BY <2>3, <2>4, PassedSame DEF Numbered
  <2> QED BY <2>5
<1> QED BY <1>2, <1>3, <1>4, <1>5 DEF Order, Ones

(* What a client adds to its stream: the open key, then its lines.           *)
LEMMA StreamGrows ==
  ASSUME ClientTypes, NEW c \in Clients, NEW m \in Bodies, NEW at \in {"main", "done"},
         cpc' = [cpc EXCEPT ![c] = at],
         \/ cpc[c] = "key" /\ m = OpenKey /\ sent[c] = <<>> /\ sent' = sent
         \/ cpc[c] = "main" /\ sent' = [sent EXCEPT ![c] = Append(@, m)]
  PROVE  /\ Stream' \in [Clients -> Seq(Bodies)] /\ Stream'[c] = Append(Stream[c], m)
         /\ \A b \in Clients \ {c} : Stream'[b] = Stream[b] /\ sent'[b] = sent[b]
<1>0. sent \in [Clients -> Seq(Bodies)] /\ cpc \in [Clients -> {"start", "key", "main", "done"}]
  BY DEF ClientTypes
<1>k. <<OpenKey>> \in Seq(Bodies) /\ <<>> \in Seq(Bodies) /\ OpenKey \in Bodies
  <2>1. OpenKey \in Bodies
    BY DEF Bodies
  <2> QED BY <2>1
<1>1. sent' \in [Clients -> Seq(Bodies)]
  <2>1. Append(sent[c], m) \in Seq(Bodies)
    BY <1>0, AppendProperties
  <2> QED BY <2>1, <1>0
<1>2. /\ Stream = [b \in Clients |-> IF cpc[b] \in {"main", "done"} THEN <<OpenKey>> \o sent[b] ELSE <<>>]
      /\ Stream' = [b \in Clients |-> IF cpc'[b] \in {"main", "done"} THEN <<OpenKey>> \o sent'[b] ELSE <<>>]
  BY DEF Stream
<1>3. \A b \in Clients : cpc'[b] = IF b = c THEN at ELSE cpc[b]
  BY <1>0
<1>4. Stream' \in [Clients -> Seq(Bodies)]
  <2>1. \A b \in Clients : <<OpenKey>> \o sent'[b] \in Seq(Bodies)
    BY <1>k, <1>1, ConcatProperties
  <2> QED BY <2>1, <1>2, <1>k
<1>5. \A b \in Clients \ {c} : sent'[b] = sent[b]
  BY <1>0
<1>6. \A b \in Clients \ {c} : Stream'[b] = Stream[b]
  BY <1>2, <1>3, <1>5
<1>7. Stream'[c] = <<OpenKey>> \o sent'[c]
  BY <1>2, <1>3
<1>8. CASE cpc[c] = "key" /\ m = OpenKey /\ sent[c] = <<>> /\ sent' = sent
  <2>1. Stream[c] = <<>>
    BY <1>2, <1>8
  <2>2. Stream'[c] = <<OpenKey>>
    BY <1>7, <1>8, <1>k, ConcatEmptySeq
  <2>3. Append(<<>>, OpenKey) = <<>> \o <<OpenKey>> /\ <<>> \o <<OpenKey>> = <<OpenKey>>
    BY <1>k, AppendIsConcat, ConcatEmptySeq
  <2> QED BY <1>4, <1>5, <1>6, <1>8, <2>1, <2>2, <2>3
<1>9. CASE cpc[c] = "main" /\ sent' = [sent EXCEPT ![c] = Append(@, m)]
  <2>1. Stream[c] = <<OpenKey>> \o sent[c]
    BY <1>2, <1>9
  <2>2. Stream'[c] = <<OpenKey>> \o Append(sent[c], m)
    BY <1>0, <1>7, <1>9
  <2>3. <<OpenKey>> \o Append(sent[c], m) = Append(<<OpenKey>> \o sent[c], m)
    BY <1>0, <1>k, AppendAfter
  <2> QED BY <1>4, <1>5, <1>6, <2>1, <2>2, <2>3
<1> QED BY <1>8, <1>9

(* A client's steps keep the order.                                          *)
LEMMA OrderClient == ASSUME OrderIInv, NEW c \in Clients, ClientStep(c) PROVE Order'
<1>a. UdpIInv /\ Ones /\ ClientTypes
  BY TypeParts DEF OrderIInv, UdpIInv, Types
<1>b. OpenKey \in Bodies /\ Plain("quit") \in Bodies /\ \A t \in Typed : Enc("K", t) \in Bodies
  BY DEF Bodies
<1>1. CASE ClientConnect(c)
  BY <1>1, OrderConnect
<1>2. CASE ClientKey(c)
  <2>1. /\ cpc[c] = "key" /\ cpc' = [cpc EXCEPT ![c] = "main"] /\ greets[c] > 0
        /\ greets' = [greets EXCEPT ![c] = @ - 1]
        /\ net' = Append(net, Datagram(c, Id[c], "data", OpenKey))
        /\ sent' = sent /\ UNCHANGED <<procs, role, mas, held, pipe, owner, key, got>>
    BY <1>2 DEF ClientKey, ClientGo, tables, child
  <2>2. sent[c] = <<>>
    BY <1>a, <2>1 DEF Ones, OneSubprocess
  <2>3. /\ Stream' \in [Clients -> Seq(Bodies)] /\ Stream'[c] = Append(Stream[c], OpenKey)
        /\ \A b \in Clients \ {c} : Stream'[b] = Stream[b] /\ sent'[b] = sent[b]
    BY <1>a, <1>b, <2>1, <2>2, StreamGrows
  <2>4. \A b \in Clients : greets'[b] > 0 => greets[b] > 0
    BY <1>a, <2>1 DEF ClientTypes
  <2> QED BY <1>b, <2>1, <2>3, <2>4, OrderSaid
<1>3. ASSUME NEW m \in Bodies, NEW at \in {"main", "done"}, cpc[c] = "main", cpc' = [cpc EXCEPT ![c] = at],
             Command(c, m), UNCHANGED <<greets, procs, role, tables, pipe, owner, child, faults>>
      PROVE  Order'
  <2>1. /\ net' = Append(net, Datagram(c, Id[c], "data", m)) /\ sent' = [sent EXCEPT ![c] = Append(@, m)]
        /\ UNCHANGED <<greets, procs, role, mas, held, pipe, owner, key, got>>
    BY <1>3 DEF Command, tables, child
  <2>2. /\ Stream' \in [Clients -> Seq(Bodies)] /\ Stream'[c] = Append(Stream[c], m)
        /\ \A b \in Clients \ {c} : Stream'[b] = Stream[b] /\ sent'[b] = sent[b]
    BY <1>a, <1>3, <2>1, StreamGrows
  <2> QED BY <1>3, <2>1, <2>2, OrderSaid
<1>4. CASE ClientSend(c)
  <2>1. PICK t \in Typed : ClientSend(c)!(t)
    BY <1>4 DEF ClientSend
  <2>2. Enc("K", t) # Plain("broadcast")
    BY DEF Enc, Plain
  <2> QED BY <1>3, <1>b, <2>1, <2>2 DEF ClientGo
<1>5. CASE ClientInterrupted(c)
  BY <1>3, <1>b, <1>5 DEF ClientInterrupted, ClientGo
<1> QED BY <1>1, <1>2, <1>4, <1>5 DEF ClientStep

(* Who may take a step of the server, and who one of a subprocess.           *)
LEMMA WhoSteps ==
  ASSUME OrderIInv, NEW n \in Procs
  PROVE  /\ role[n] \in {"loop", "write"} => n = Server
         /\ role[n] \in {"greet", "key", "serve", "talk"} => n \in 1..procs
<1>1. n = Server \/ n \in 1..procs \/ n \in (procs + 1)..MaxForks
  BY OrderTypes DEF OrderIInv, Procs, Server
<1>2. role[Server] \in {"loop", "write"} /\ \A m \in (procs + 1)..MaxForks : role[m] = "none"
  BY DEF OrderIInv, UdpIInv, Forked
<1>3. \A m \in 1..procs : role[m] \in {"greet", "key", "serve", "talk", "exited"}
  BY DEF OrderIInv, Ones, OneServer
<1> QED BY <1>1, <1>2, <1>3

(* Steps between the pipe and what is read: nothing comes in, and what the   *)
(* server took stays taken.                                                  *)
LEMMA OrderKept ==
  ASSUME OrderIInv, UNCHANGED <<net, cpc, sent, procs, owner>>,
         \A i \in Slots : mas'[Server][i] = mas[Server][i],
         \A b \in Clients : greets'[b] > 0 => greets[b] > 0 \/ \E n \in 1..procs : owner[n] = b,
         \A n \in 1..procs : Passed(n)' = Passed(n)
  PROVE  Stream' = Stream /\ OneSubprocess' /\ OneConnect' /\ \E idx \in Seq(Nat) : Numbered(idx)'
<1>1. Stream' = Stream
  BY DEF Stream
<1>2. OneSubprocess'
  BY DEF OrderIInv, Ones, OneSubprocess
<1>3. OneConnect'
  BY DEF OrderIInv, Ones, OneConnect
<1>4. AllPassed' = AllPassed
  BY DEF AllPassed
<1>5. PICK idx \in Seq(Nat) : Numbered(idx)
  BY DEF OrderIInv
<1>6. Numbered(idx)'
  BY <1>1, <1>4, <1>5 DEF Numbered
<1> QED BY <1>1, <1>2, <1>3, <1>6

(* The server writes to a pipe what it took.                                 *)
LEMMA OrderWrite == ASSUME OrderIInv, NEW n \in Procs, WritePipe(n) PROVE Order'
<1>a. UdpIInv /\ Ones /\ InLine /\ TypeOK /\ Held
  BY DEF OrderIInv, UdpIInv
<1> DEFINE w == held[Server]
<1>1. n = Server
  BY WhoSteps DEF WritePipe
<1>2. w.to \in 1..procs /\ w.msg # Plain("quit\n") /\ w.msg \in Bodies /\ w.from \in Clients
  BY <1>a, <1>1, OrderTypes, NoneGivesBack DEF WritePipe, Held, TypeOK
<1>3. /\ role[Server] = "write" /\ role' = [role EXCEPT ![Server] = "loop"]
      /\ pipe' = [pipe EXCEPT ![w.to] = Append(@, [from |-> w.from, msg |-> w.msg])]
      /\ mas' = [mas EXCEPT ![Server] = [i \in Slots |-> mas[Server][i]]]
      /\ UNCHANGED <<net, greets, cpc, sent, procs, owner, key, got>>
  BY <1>1, <1>2 DEF WritePipe, clients, child
<1>4. \A i \in Slots : mas'[Server][i] = mas[Server][i]
  BY <1>a, <1>3, OrderTypes DEF TypeOK
<1> HIDE DEF w
<1>5. \A m \in 1..procs : /\ role'[m] = role[m] /\ Handed(m)' = Handed(m)
                          /\ pipe'[m] = IF m = w.to THEN Append(pipe[m], [from |-> w.from, msg |-> w.msg]) ELSE pipe[m]
  BY <1>a, <1>3, OrderTypes DEF Handed, TypeOK
<1>6. /\ role'[Server] = "loop"
      /\ \A m \in 1..procs : Piped(m) = Handed(m) + Len(pipe[m]) /\ Passed(m) = Piped(m) + IF w.to = m THEN 1 ELSE 0
      /\ \A m \in 1..procs : Passed(m)' = Handed(m)' + Len(pipe'[m])
      /\ \A m \in 1..procs : Handed(m) \in Nat /\ Len(pipe[m]) \in Nat
  <2>1. role'[Server] = "loop"
    BY <1>a, <1>3, OrderTypes DEF TypeOK
  <2>2. \A m \in 1..procs : Piped(m) = Handed(m) + Len(pipe[m]) /\ Passed(m) = Piped(m) + IF w.to = m THEN 1 ELSE 0
    BY <1>3 DEF Piped, Passed, w
  <2>3. \A m \in 1..procs : Handed(m) \in Nat /\ Len(pipe[m]) \in Nat
    BY <1>a, OrderTypes
  <2>4. ASSUME NEW m \in 1..procs PROVE Passed(m)' = Handed(m)' + Len(pipe'[m])
    <3>1. Piped(m)' = Handed(m)' + Len(pipe'[m])
      BY DEF Piped
    <3>2. Passed(m)' = Piped(m)' + 0
      BY <2>1 DEF Passed
    <3>3. Handed(m)' \in Nat /\ Len(pipe'[m]) \in Nat
      <4>1. pipe'[m] \in Seq([from : Clients, msg : Bodies])
        <5>1. Append(pipe[w.to], [from |-> w.from, msg |-> w.msg]) \in Seq([from : Clients, msg : Bodies])
          BY <1>a, <1>2, OrderTypes, AppendProperties, ZenonT(60) DEF TypeOK
        <5> QED BY <5>1, <1>a, <1>5, OrderTypes, ZenonT(60) DEF TypeOK
      <4> QED BY <4>1, <1>5, <2>3, LenProperties
    <3> QED BY <3>1, <3>2, <3>3
  <2> QED BY <2>1, <2>2, <2>3, <2>4
<1>7. /\ Len(Append(pipe[w.to], [from |-> w.from, msg |-> w.msg])) = Len(pipe[w.to]) + 1
      /\ Append(pipe[w.to], [from |-> w.from, msg |-> w.msg])[Len(pipe[w.to]) + 1] = [from |-> w.from, msg |-> w.msg]
      /\ \A k \in 1..Len(pipe[w.to]) : Append(pipe[w.to], [from |-> w.from, msg |-> w.msg])[k] = pipe[w.to][k]
  <2>1. /\ pipe[w.to] \in Seq([from : Clients, msg : Bodies])
        /\ [from |-> w.from, msg |-> w.msg] \in [from : Clients, msg : Bodies]
    BY <1>a, <1>2, OrderTypes DEF TypeOK
  <2> QED BY <2>1, AppendProperties
<1>8. \A m \in 1..procs : Passed(m)' = Passed(m)
  <2> SUFFICES ASSUME NEW m \in 1..procs PROVE Passed(m)' = Passed(m)
    OBVIOUS
  <2>0. /\ Passed(m)' = Handed(m)' + Len(pipe'[m]) /\ Handed(m)' = Handed(m)
        /\ Piped(m) = Handed(m) + Len(pipe[m]) /\ Passed(m) = Piped(m) + IF w.to = m THEN 1 ELSE 0
        /\ Handed(m) \in Nat /\ Len(pipe[m]) \in Nat
    BY <1>5, <1>6
  <2>1. CASE w.to = m
    <3>1. Len(pipe'[m]) = Len(pipe[m]) + 1
      BY <2>1, <1>5, <1>7
    <3> QED BY <2>0, <2>1, <3>1
  <2>2. CASE w.to # m
    <3>1. Len(pipe'[m]) = Len(pipe[m])
      BY <2>2, <1>5
    <3> QED BY <2>0, <2>2, <3>1
  <2> QED BY <2>1, <2>2
<1>9. Stream' = Stream /\ OneSubprocess' /\ OneConnect' /\ \E idx \in Seq(Nat) : Numbered(idx)'
  BY <1>3, <1>4, <1>8, OrderKept
<1>10. OneServer'
  BY <1>a, <1>3, <1>5 DEF Ones, OneServer
<1>11. InLine'
  <2>1. ASSUME NEW m \in 1..procs, NEW k \in 1..Len(pipe'[m])
        PROVE  pipe'[m][k].msg = Stream[owner[m]][Handed(m) + k]
    <3>0. Len(pipe[m]) \in Nat
      BY <1>a, OrderTypes
    <3>1. CASE m = w.to /\ k = Len(pipe[m]) + 1
      <4>1. pipe'[m][k] = [from |-> w.from, msg |-> w.msg]
        BY <3>1, <1>5, <1>7
      <4>2. w.msg = Stream[owner[m]][Piped(m) + 1]
        BY <3>1, <1>a, <1>3 DEF InLine, w
      <4>3. Piped(m) + 1 = Handed(m) + k
        <5>1. Piped(m) = Handed(m) + Len(pipe[m]) /\ Handed(m) \in Nat /\ Len(pipe[m]) \in Nat
          BY <1>6
        <5> QED BY <5>1, <3>1
      <4> QED BY <4>1, <4>2, <4>3
    <3>2. CASE k \in 1..Len(pipe[m])
      <4>1. pipe'[m][k] = pipe[m][k]
        <5>1. CASE m = w.to
          BY <5>1, <3>2, <1>5, <1>7
        <5>2. CASE m # w.to
          BY <5>2, <1>5
        <5> QED BY <5>1, <5>2
      <4>2. pipe[m][k].msg = Stream[owner[m]][Handed(m) + k]
        BY <3>2, <1>a DEF InLine
      <4> QED BY <4>1, <4>2
    <3>3. m = w.to => k \in 1..(Len(pipe[m]) + 1)
      BY <1>5, <1>7
    <3>4. m # w.to => k \in 1..Len(pipe[m])
      BY <1>5
    <3> QED BY <3>0, <3>1, <3>2, <3>3, <3>4
  <2>2. \A m \in 1..procs : Passed(m) <= Len(Stream[owner[m]])
                            /\ \A k \in 1..Len(got[m]) : got[m][k].msg = Stream[owner[m]][1 + k]
    BY <1>a DEF InLine
  <2>3. /\ procs' = procs /\ got' = got /\ owner' = owner /\ role'[Server] # "write" /\ Stream' = Stream
        /\ \A m \in 1..procs : Handed(m)' = Handed(m) /\ Passed(m)' = Passed(m)
    BY <1>3, <1>5, <1>6, <1>8, <1>9
  <2> QED BY <2>1, <2>2, <2>3 DEF InLine
<1> QED BY <1>9, <1>10, <1>11 DEF Order, Ones

(* A subprocess that takes a message from its pipe, or nothing, passes it    *)
(* from what reached the pipe to what it took.                               *)
LEMMA OrderTakes ==
  ASSUME OrderIInv, NEW n \in 1..procs, UNCHANGED <<net, cpc, sent, procs, owner, mas, held>>,
         \A b \in Clients : greets'[b] > 0 => greets[b] > 0 \/ \E m \in 1..procs : owner[m] = b,
         NEW took \in {0, 1}, took <= Len(pipe[n]),
         Handed(n)' = Handed(n) + took, Len(pipe'[n]) = Len(pipe[n]) - took,
         \A k \in 1..Len(pipe'[n]) : pipe'[n][k] = pipe[n][k + took],
         \A m \in 1..procs \ {n} : pipe'[m] = pipe[m] /\ Handed(m)' = Handed(m) /\ got'[m] = got[m],
         role'[Server] = role[Server],
         \A k \in 1..Len(got'[n]) : got'[n][k].msg = Stream[owner[n]][1 + k],
         OneServer'
  PROVE  Order'
<1>a. UdpIInv /\ Ones /\ InLine
  BY DEF OrderIInv
<1>0. \A m \in 1..procs : Handed(m) \in Nat /\ Len(pipe[m]) \in Nat /\ Piped(m) = Handed(m) + Len(pipe[m])
                          /\ Piped(m)' = Handed(m)' + Len(pipe'[m])
  BY <1>a, OrderTypes DEF Piped
<1>1. ASSUME NEW m \in 1..procs PROVE Piped(m)' = Piped(m)
  <2>1. CASE m = n
    <3>1. /\ Handed(n) \in Nat /\ Len(pipe[n]) \in Nat /\ Piped(n) = Handed(n) + Len(pipe[n])
          /\ Piped(n)' = Handed(n)' + Len(pipe'[n])
      BY <1>0
    <3>2. Piped(n)' = (Handed(n) + took) + (Len(pipe[n]) - took)
      BY <3>1
    <3> QED BY <2>1, <3>1, <3>2
  <2>2. CASE m # n
    BY <2>2, <1>0
  <2> QED BY <2>1, <2>2
<1>2. ASSUME NEW m \in 1..procs PROVE Passed(m)' = Passed(m)
  BY <1>1 DEF Passed
<1>3. Stream' = Stream /\ OneSubprocess' /\ OneConnect' /\ \E idx \in Seq(Nat) : Numbered(idx)'
  BY <1>2, OrderKept
<1>4. InLine'
  <2>1. ASSUME NEW m \in 1..procs, NEW k \in 1..Len(pipe'[m])
        PROVE  pipe'[m][k].msg = Stream[owner[m]][Handed(m)' + k]
    <3>1. CASE m = n
      <4>0. Len(pipe[n]) \in Nat /\ Handed(n) \in Nat
        BY <1>0
      <4>1. k \in 1..Len(pipe'[n])
        BY <3>1
      <4>2. k + took \in 1..Len(pipe[n]) /\ Handed(n) + (k + took) = (Handed(n) + took) + k
        BY <4>0, <4>1
      <4>3. pipe'[n][k] = pipe[n][k + took]
        BY <4>1
      <4>4. pipe[n][k + took].msg = Stream[owner[n]][Handed(n) + (k + took)]
        BY <4>2, <1>a DEF InLine
      <4> QED BY <3>1, <4>2, <4>3, <4>4
    <3>2. CASE m # n
      <4>1. pipe'[m] = pipe[m] /\ Handed(m)' = Handed(m)
        BY <3>2
      <4> QED BY <4>1, <1>a DEF InLine
    <3> QED BY <3>1, <3>2
  <2>2. ASSUME NEW m \in 1..procs
        PROVE  /\ Passed(m) <= Len(Stream[owner[m]])
               /\ \A k \in 1..Len(got'[m]) : got'[m][k].msg = Stream[owner[m]][1 + k]
               /\ role[Server] = "write" /\ held[Server].to = m => held[Server].msg = Stream[owner[m]][Piped(m) + 1]
    <3>1. Passed(m) <= Len(Stream[owner[m]])
          /\ (role[Server] = "write" /\ held[Server].to = m => held[Server].msg = Stream[owner[m]][Piped(m) + 1])
      BY <1>a DEF InLine
    <3>2. m # n => \A k \in 1..Len(got'[m]) : got'[m][k].msg = Stream[owner[m]][1 + k]
      <4>1. m # n => got'[m] = got[m]
        OBVIOUS
      <4>2. \A k \in 1..Len(got[m]) : got[m][k].msg = Stream[owner[m]][1 + k]
        BY <1>a DEF InLine
      <4> QED BY <4>1, <4>2
    <3> QED BY <3>1, <3>2
  <2>3. /\ procs' = procs /\ owner' = owner /\ held' = held /\ role'[Server] = role[Server] /\ Stream' = Stream
        /\ \A m \in 1..procs : Piped(m)' = Piped(m) /\ Passed(m)' = Passed(m)
    BY <1>1, <1>2, <1>3
  <2> QED BY <2>1, <2>2, <2>3 DEF InLine
<1> QED BY <1>3, <1>4 DEF Order, Ones

(* A step of a subprocess keeps the order.                                    *)
LEMMA OrderChild ==
  ASSUME OrderIInv, ~ ShellFails, NEW n \in Procs, ChildStep(n) \/ BashStep(n) PROVE Order'
<1>a. UdpIInv /\ Ones /\ InLine /\ TypeOK
  BY DEF OrderIInv, UdpIInv
<1>b. n \in 1..procs /\ n # Server /\ Server \in Procs /\ owner[n] \in Clients /\ 1..procs \subseteq Procs
  BY <1>a, WhoSteps, OrderTypes DEF ChildStep, ChildGreet, ChildKey, ChildServe, BashStep, BashSilent, BashExits, RoleGo
<1>c. UNCHANGED <<net, cpc, sent, procs, owner, mas, held>>
  BY DEF ChildStep, ChildGreet, ChildKey, ChildServe, BashStep, BashSilent, BashExits, clients, tables
<1>d. /\ pipe[n] \in Seq(Mail(n)) /\ got[n] \in Seq(Mail(n)) /\ Len(pipe[n]) \in Nat /\ Len(got[n]) \in Nat
      /\ Handed(n) \in Nat
  BY <1>a, <1>b, OrderTypes
<1>e. pipe[n] # <<>> => /\ Len(Tail(pipe[n])) = Len(pipe[n]) - 1 /\ Len(pipe[n]) >= 1 /\ Head(pipe[n]) = pipe[n][1]
                        /\ \A k \in 1..(Len(pipe[n]) - 1) : Tail(pipe[n])[k] = pipe[n][k + 1]
                        /\ Head(pipe[n]) \in Mail(n)
  BY <1>d, HeadTailProperties, EmptySeq
<1>f. OneServer
  BY <1>a DEF Ones
<1>g. \A k \in 1..Len(got[n]) : got[n][k].msg = Stream[owner[n]][1 + k]
  BY <1>a, <1>b DEF InLine
<1>h. pipe[n] # <<>> => pipe[n][1].msg = Stream[owner[n]][Handed(n) + 1]
  <2>1. pipe[n] # <<>> => 1 \in 1..Len(pipe[n])
    BY <1>d, <1>e
  <2> QED BY <2>1, <1>a, <1>b DEF InLine
<1>1. CASE ChildGreet(n)
  <2>1. /\ role[n] = "greet" /\ role' = [role EXCEPT ![n] = "key"] /\ pipe' = pipe /\ got' = got /\ key' = key
        /\ greets' = [greets EXCEPT ![owner[n]] = @ + 1]
    BY <1>1 DEF ChildGreet, RoleGo, child
  <2>2. \A m \in Procs : role'[m] = IF m = n THEN "key" ELSE role[m]
    BY <2>1, <1>a DEF TypeOK
  <2>3. OneServer'
    BY <1>b, <1>c, <1>f, <2>1, <2>2 DEF OneServer
  <2>4. Handed(n)' = Handed(n) + 0 /\ \A m \in 1..procs \ {n} : Handed(m)' = Handed(m)
    BY <1>b, <2>1, <2>2 DEF Handed
  <2>5. \A b \in Clients : greets'[b] > 0 => greets[b] > 0 \/ \E m \in 1..procs : owner[m] = b
    BY <1>a, <1>b, <2>1 DEF TypeOK
  <2>6. Len(pipe'[n]) = Len(pipe[n]) - 0 /\ \A k \in 1..Len(pipe'[n]) : pipe'[n][k] = pipe[n][k + 0]
    BY <1>d, <2>1
  <2>7. role'[Server] = role[Server] /\ 0 <= Len(pipe[n])
    BY <1>b, <1>d, <2>2
  <2> QED BY <1>b, <1>c, <1>g, <2>1, <2>3, <2>4, <2>5, <2>6, <2>7, OrderTakes
<1>2. CASE ChildKey(n)
  <2>1. /\ role[n] = "key" /\ role' = [role EXCEPT ![n] = "serve"] /\ pipe[n] # <<>> /\ greets' = greets /\ got' = got
        /\ key' = [key EXCEPT ![n] = IF Head(pipe[n]).msg = OpenKey THEN "K" ELSE "other"]
        /\ pipe' = [pipe EXCEPT ![n] = Tail(@)]
    BY <1>2 DEF ChildKey, RoleGo
  <2>2. \A m \in Procs : /\ role'[m] = IF m = n THEN "serve" ELSE role[m]
                         /\ pipe'[m] = IF m = n THEN Tail(pipe[m]) ELSE pipe[m]
    BY <2>1, <1>a DEF TypeOK
  <2>3. got[n] = <<>> /\ Handed(n) = 0
    BY <1>b, <1>f, <2>1 DEF OneServer, Handed
  <2>4. Head(pipe[n]).msg = OpenKey
    <3>1. pipe[n][1].msg = Stream[owner[n]][1]
      BY <1>h, <2>1, <2>3
    <3>2. Len(Stream[owner[n]]) >= 1
      <4>1. /\ Passed(n) <= Len(Stream[owner[n]]) /\ Len(Stream[owner[n]]) \in Nat
            /\ Piped(n) <= Passed(n) /\ Piped(n) \in Nat /\ Passed(n) \in Nat
        BY <1>a, <1>b, OrderTypes DEF InLine
      <4>2. Piped(n) = Handed(n) + Len(pipe[n])
        BY DEF Piped
      <4> QED BY <4>1, <4>2, <1>d, <1>e, <2>1
    <3>3. /\ Stream[owner[n]] = IF cpc[owner[n]] \in {"main", "done"} THEN <<OpenKey>> \o sent[owner[n]] ELSE <<>>
          /\ sent[owner[n]] \in Seq(Bodies) /\ OpenKey \in Bodies
      BY <1>a, <1>b DEF Stream, TypeOK, Bodies
    <3>4. Stream[owner[n]] = <<OpenKey>> \o sent[owner[n]]
      BY <3>2, <3>3
    <3>5. (<<OpenKey>> \o sent[owner[n]])[1] = OpenKey
      <4>1. <<OpenKey>> \in Seq(Bodies) /\ Len(<<OpenKey>>) = 1 /\ <<OpenKey>>[1] = OpenKey
        BY <3>3
      <4> QED BY <4>1, <3>3, Together
    <3> QED BY <1>e, <2>1, <3>1, <3>4, <3>5
  <2>5. \A m \in Procs : key'[m] = IF m = n THEN "K" ELSE key[m]
    BY <1>a, <2>1, <2>4 DEF TypeOK
  <2>6. OneServer'
    <3>1. \A m \in 1..procs : /\ role'[m] \in {"greet", "key", "serve", "talk", "exited"}
                              /\ key'[m] = IF role'[m] \in {"greet", "key"} THEN "none" ELSE "K"
                              /\ role'[m] \in {"greet", "key"} => got'[m] = <<>>
      BY <1>b, <1>f, <2>1, <2>2, <2>5 DEF OneServer
    <3>2. \A m \in (procs + 1)..MaxForks : m \in Procs /\ m # n
      BY <1>a, <1>b, UdpAssumption DEF Procs, TypeOK
    <3> QED BY <3>1, <3>2, <1>c, <1>f, <2>5 DEF OneServer
  <2>7. Handed(n)' = Handed(n) + 1 /\ \A m \in 1..procs \ {n} : Handed(m)' = Handed(m)
    <3>1. Len(got[n]) = 0
      BY <2>3
    <3> QED BY <3>1, <1>b, <2>1, <2>2, <2>3 DEF Handed
  <2>8. Len(pipe'[n]) = Len(pipe[n]) - 1 /\ \A k \in 1..Len(pipe'[n]) : pipe'[n][k] = pipe[n][k + 1]
    BY <1>b, <1>e, <2>1, <2>2
  <2>9. /\ role'[Server] = role[Server] /\ 1 <= Len(pipe[n]) /\ \A m \in 1..procs \ {n} : pipe'[m] = pipe[m]
        /\ got' = got /\ \A b \in Clients : greets'[b] > 0 => greets[b] > 0
    BY <1>b, <1>d, <1>e, <2>1, <2>2
  <2> QED BY <1>b, <1>c, <1>g, <2>6, <2>7, <2>8, <2>9, OrderTakes
<1>3. CASE ChildServe(n)
  <2>1. /\ role[n] = "serve" /\ pipe[n] # <<>> /\ greets' = greets /\ key' = key
        /\ pipe' = [pipe EXCEPT ![n] = Tail(@)] /\ got' = [got EXCEPT ![n] = Append(@, Head(pipe[n]))]
        /\ role' = role \/ \E r \in {"talk", "exited"} : role' = [role EXCEPT ![n] = r]
    BY <1>3 DEF ChildServe, RoleGo
  <2>2. \A m \in Procs : /\ m # n => role'[m] = role[m]
                         /\ pipe'[m] = IF m = n THEN Tail(pipe[m]) ELSE pipe[m]
                         /\ got'[m] = IF m = n THEN Append(got[m], Head(pipe[m])) ELSE got[m]
    BY <2>1, <1>a DEF TypeOK
  <2>3. role'[n] \in {"serve", "talk", "exited"}
    BY <2>1, <1>a, <1>b DEF TypeOK
  <2>4. /\ Len(got'[n]) = Len(got[n]) + 1 /\ got'[n][Len(got[n]) + 1] = Head(pipe[n])
        /\ \A k \in 1..Len(got[n]) : got'[n][k] = got[n][k]
    <3>1. got'[n] = Append(got[n], Head(pipe[n])) /\ Head(pipe[n]) \in Mail(n)
      BY <1>b, <1>e, <2>1, <2>2
    <3> QED BY <3>1, <1>d, AppendProperties
  <2>5. Handed(n) = 1 + Len(got[n]) /\ Handed(n)' = Handed(n) + 1 /\ \A m \in 1..procs \ {n} : Handed(m)' = Handed(m)
    <3>1. Handed(n) = 1 + Len(got[n]) /\ Handed(n)' = 1 + Len(got'[n])
      BY <2>1, <2>3 DEF Handed
    <3>2. \A m \in 1..procs \ {n} : Handed(m)' = Handed(m)
      BY <1>b, <2>2 DEF Handed
    <3> QED BY <3>1, <3>2, <2>4, <1>d
  <2>6. OneServer'
    BY <1>b, <1>c, <1>f, <2>1, <2>2, <2>3 DEF OneServer
  <2>7. ASSUME NEW k \in 1..Len(got'[n]) PROVE got'[n][k].msg = Stream[owner[n]][1 + k]
    <3>1. CASE k \in 1..Len(got[n])
      BY <3>1, <1>g, <2>4
    <3>2. CASE k = Len(got[n]) + 1
      <4>1. Handed(n) + 1 = 1 + k
        BY <3>2, <1>d, <2>5
      <4> QED BY <3>2, <4>1, <1>e, <1>h, <2>1, <2>4
    <3> QED BY <3>1, <3>2, <1>d, <2>4
  <2>8. Len(pipe'[n]) = Len(pipe[n]) - 1 /\ \A k \in 1..Len(pipe'[n]) : pipe'[n][k] = pipe[n][k + 1]
    BY <1>b, <1>e, <2>1, <2>2, ZenonT(60)
  <2>9. /\ role'[Server] = role[Server] /\ 1 <= Len(pipe[n])
        /\ \A m \in 1..procs \ {n} : pipe'[m] = pipe[m] /\ got'[m] = got[m]
        /\ \A b \in Clients : greets'[b] > 0 => greets[b] > 0
    BY <1>b, <1>d, <1>e, <2>1, <2>2
  <2> QED BY <1>b, <1>c, <2>5, <2>6, <2>7, <2>8, <2>9, OrderTakes
<1>4. CASE BashExits(n)
  <2>1. UNCHANGED <<role, pipe, got, key, greets>>
    BY <1>4 DEF BashExits
  <2>2. OneServer'
    BY <1>c, <1>f, <2>1 DEF OneServer
  <2>3. \A m \in 1..procs : Handed(m)' = Handed(m)
    BY <2>1 DEF Handed
  <2>4. Handed(n)' = Handed(n) + 0 /\ 0 <= Len(pipe[n])
    BY <1>b, <1>d, <2>3
  <2>5. Len(pipe'[n]) = Len(pipe[n]) - 0 /\ \A k \in 1..Len(pipe'[n]) : pipe'[n][k] = pipe[n][k + 0]
    BY <1>d, <2>1
  <2> QED BY <1>b, <1>c, <1>g, <2>1, <2>2, <2>3, <2>4, <2>5, OrderTakes
<1>5. CASE BashSilent(n)
  <2>1. /\ role[n] = "talk" /\ role' = [role EXCEPT ![n] = "serve"]
        /\ UNCHANGED <<pipe, got, key, greets>>
    BY <1>5 DEF BashSilent, RoleGo, child
  <2>2. \A m \in Procs : role'[m] = IF m = n THEN "serve" ELSE role[m]
    BY <2>1, <1>a DEF TypeOK
  <2>3. OneServer'
    BY <1>b, <1>c, <1>f, <2>1, <2>2 DEF OneServer
  <2>4. \A m \in 1..procs : Handed(m)' = Handed(m)
    BY <1>b, <2>1, <2>2 DEF Handed
  <2>5. Handed(n)' = Handed(n) + 0 /\ 0 <= Len(pipe[n])
    BY <1>b, <1>d, <2>4
  <2>6. Len(pipe'[n]) = Len(pipe[n]) - 0 /\ \A k \in 1..Len(pipe'[n]) : pipe'[n][k] = pipe[n][k + 0]
    BY <1>d, <2>1
  <2>7. role'[Server] = role[Server]
    BY <1>b, <2>2
  <2> QED BY <1>b, <1>c, <1>g, <2>1, <2>3, <2>4, <2>5, <2>6, <2>7, OrderTakes
<1> QED BY <1>1, <1>2, <1>3, <1>4, <1>5 DEF ChildStep, BashStep

(* A network that does not reorder gives the server the oldest datagram.     *)
LEMMA TakeOldest ==
  ASSUME UdpIInv, Faults = {}, NEW k \in Next1, Take(k)
  PROVE  /\ k = 1 /\ Len(net) > 0 /\ Len(net) \in Nat /\ net[1] \in Datagrams
         /\ net' = Without(net, 1) /\ net' \in Seq(Datagrams) /\ Len(net') = Len(net) - 1
         /\ \A j \in 1..Len(net') : j + 1 \in 1..Len(net) /\ net'[j] = net[j + 1]
<1>1. net \in Seq(Datagrams) /\ Len(net) \in Nat
  BY OrderTypes
<1>2. k = 1 /\ 1 \in 1..Len(net)
  BY <1>1 DEF Next1
<1>3. net' = Without(net, 1)
  BY <1>2 DEF Take, Without
<1>4. net[1] \in Datagrams
  BY <1>1, <1>2, ElementOfSeq
<1>5. /\ net' \in Seq(Datagrams) /\ Len(net') = Len(net) - 1
      /\ \A j \in 1..(Len(net) - 1) : net'[j] = net[j + 1]
  BY <1>1, <1>2, <1>3, WithoutElement
<1> QED BY <1>1, <1>2, <1>3, <1>4, <1>5

(* The numbers when a subprocess is forked for a client that sent nothing.   *)
LEMMA NumberFork ==
  ASSUME NEW nt \in Seq(Datagrams), NEW idx \in Seq(Nat), NEW stream, NEW own, NEW passed,
         Numbering(nt, idx, stream, own, passed), NEW c \in Clients, stream[c] = <<>>,
         NEW new, NEW owns, NEW passes, DOMAIN passes = DOMAIN passed \cup {new},
         \A n \in DOMAIN passed : owns[n] = own[n] /\ passes[n] = passed[n],
         owns[new] = c, passes[new] = 0
  PROVE  Numbering(nt, idx, stream, owns, passes)
<1>1. Len(<<>>) = 0
  OBVIOUS
<1>2. \A k \in 1..Len(nt) : ~ DataOf(nt[k], c)
  <2> SUFFICES ASSUME NEW k \in 1..Len(nt), DataOf(nt[k], c) PROVE FALSE
    OBVIOUS
  <2>1. idx[k] \in 1..Len(stream[c])
    BY DEF Numbering, DataOf
  <2> QED BY <1>1, <2>1
<1>3. ASSUME NEW n \in DOMAIN passes
      PROVE  /\ \A k \in 1..Len(nt) : DataOf(nt[k], owns[n]) => passes[n] < idx[k]
             /\ \A j \in (passes[n] + 1)..Len(stream[owns[n]]) : \E k \in 1..Len(nt) : DataOf(nt[k], owns[n]) /\ idx[k] = j
  <2>1. CASE n \in DOMAIN passed
    <3>1. owns[n] = own[n] /\ passes[n] = passed[n]
      BY <2>1
    <3>2. /\ \A k \in 1..Len(nt) : DataOf(nt[k], own[n]) => passed[n] < idx[k]
          /\ \A j \in (passed[n] + 1)..Len(stream[own[n]]) : \E k \in 1..Len(nt) : DataOf(nt[k], own[n]) /\ idx[k] = j
      BY <2>1 DEF Numbering
    <3> QED BY <3>1, <3>2
  <2>2. CASE n = new
    BY <2>2, <1>1, <1>2
  <2> QED BY <2>1, <2>2
<1>4. /\ Len(idx) = Len(nt)
      /\ \A k \in 1..Len(nt) : nt[k].what = "data" =>
           idx[k] \in 1..Len(stream[nt[k].from]) /\ nt[k].body = stream[nt[k].from][idx[k]]
      /\ \A k, l \in 1..Len(nt) : k < l /\ nt[k].what = "data" /\ DataOf(nt[l], nt[k].from) => idx[k] < idx[l]
  BY DEF Numbering
<1> QED BY <1>3, <1>4 DEF Numbering

(* com_connect is refused, or answered by a subprocess that is at the start. *)
LEMMA OrderReceiveConnect ==
  ASSUME OrderIInv, Reliable, NEW n \in Procs, ReceiveConnect(n) PROVE Order'
<1>a. UdpIInv /\ Ones /\ InLine /\ TypeOK /\ Forked /\ Tables /\ OneServer /\ OneSubprocess /\ OneConnect
  BY DEF OrderIInv, UdpIInv, Ones
<1> DEFINE d == net[1]
           c == net[1].from
<1>1. n = Server /\ role[n] = "loop" /\ UNCHANGED <<greets, cpc, sent, pipe, key, got>>
  BY WhoSteps DEF ReceiveConnect, clients, child
<1>2. PICK k \in Next1 :
        /\ net[k].what = "connect" /\ Take(k)
        /\ \/ Connect(n, net[k])
           \/ UNCHANGED <<procs, role, tables, owner, bash>>
  BY DEF ReceiveConnect
<1>3. /\ k = 1 /\ Len(net) > 0 /\ Len(net) \in Nat /\ d \in Datagrams
      /\ net' = Without(net, 1) /\ net' \in Seq(Datagrams) /\ Len(net') = Len(net) - 1
      /\ \A j \in 1..Len(net') : j + 1 \in 1..Len(net) /\ net'[j] = net[j + 1]
  BY <1>a, <1>2, TakeOldest DEF Reliable
<1>4. d.what = "connect" /\ c \in Clients /\ 1 \in 1..Len(net)
  BY <1>2, <1>3 DEF Datagrams
<1>5. /\ cpc[c] # "start" /\ \A m \in 1..procs : owner[m] # c
      /\ \A l \in 1..Len(net) \ {1} : net[l].what = "connect" => net[l].from # c
  BY <1>a, <1>4 DEF OneConnect
<1>6. Stream' = Stream /\ Stream[c] = <<>>
  <2>1. cpc[c] \notin {"main", "done"}
    BY <1>a, <1>4, <1>5 DEF OneSubprocess
  <2> QED BY <1>1, <1>4, <2>1 DEF Stream
<1>7. PICK idx \in Seq(Nat) : Numbering(net', idx, Stream, owner, AllPassed)
  <2>1. PICK idx \in Seq(Nat) : Numbering(net, idx, Stream, owner, AllPassed)
    BY DEF OrderIInv, Numbered
  <2>2. ~ DataOf(d, owner[1]) /\ \A b : ~ DataOf(d, b)
    BY <1>4 DEF DataOf
  <2>3. /\ net \in Seq(Datagrams) /\ \A m \in DOMAIN AllPassed : AllPassed[m] \in Nat
        /\ \A m \in DOMAIN AllPassed : Len(Stream[owner[m]]) \in Nat
    BY <1>a, OrderTypes DEF AllPassed
  <2>4. \A m \in DOMAIN AllPassed : AllPassed[m] = AllPassed[m] + IF DataOf(net[1], owner[m]) THEN 1 ELSE 0
    BY <2>2, <2>3
  <2>5. \A m \in DOMAIN AllPassed : ~ DataOf(net[1], owner[m])
    BY <2>2
  <2> HIDE DEF d
  <2>6. Numbering(net', Without(idx, 1), Stream, owner, AllPassed)
    <3>1. NextTaken(net, Stream, owner, AllPassed, AllPassed)
      BY <1>3, <2>3, <2>4, <2>5 DEF NextTaken, d
    <3> QED BY <1>3, <2>1, <2>3, <3>1, NumberTake
  <2>7. Without(idx, 1) \in Seq(Nat)
    <3>1. 1 \in 1..Len(idx)
      BY <1>4, <2>1 DEF Numbering
    <3> QED BY <3>1, WithoutElement
  <2> QED BY <2>6, <2>7
<1>8. ASSUME NEW k1 \in 1..Len(net'), net'[k1].what = "connect"
      PROVE  /\ cpc[net'[k1].from] # "start" /\ net'[k1].from # c
             /\ \A m \in 1..procs : owner[m] # net'[k1].from
             /\ \A l \in 1..Len(net') \ {k1} : net'[l].what = "connect" => net'[l].from # net'[k1].from
  <2>1. k1 + 1 \in 1..Len(net) \ {1} /\ net'[k1] = net[k1 + 1]
    BY <1>3
  <2>2. ASSUME NEW l \in 1..Len(net') \ {k1}, net'[l].what = "connect" PROVE net'[l].from # net'[k1].from
    <3>1. l + 1 \in 1..Len(net) \ {k1 + 1} /\ net'[l] = net[l + 1]
      BY <1>3, <2>2
    <3> QED BY <1>a, <1>8, <2>1, <2>2, <3>1 DEF OneConnect
  <2>3. cpc[net'[k1].from] # "start" /\ \A m \in 1..procs : owner[m] # net'[k1].from
    BY <1>a, <1>8, <2>1 DEF OneConnect
  <2> QED BY <1>5, <1>8, <2>1, <2>2, <2>3
<1>9. CASE UNCHANGED <<procs, role, tables, owner, bash>>
  <2>1. UNCHANGED <<procs, role, mas, held, owner>>
    BY <1>9 DEF tables
  <2>2. OneServer' /\ OneSubprocess'
    BY <1>a, <1>1, <2>1 DEF OneServer, OneSubprocess
  <2>3. OneConnect'
    BY <1>1, <1>8, <2>1 DEF OneConnect
  <2>4. /\ AllPassed' = AllPassed
        /\ \A m \in 1..procs : Handed(m)' = Handed(m) /\ Piped(m)' = Piped(m) /\ Passed(m)' = Passed(m)
    BY <1>1, <2>1, PassedSame
  <2>5. InLine'
    BY <1>a, <1>1, <1>6, <2>1, <2>4 DEF InLine
  <2>6. Numbered(idx)'
    BY <1>6, <1>7, <2>1, <2>4 DEF Numbered
  <2> QED BY <2>2, <2>3, <2>5, <2>6 DEF Order, Ones
<1>10. CASE Connect(n, d)
  <2>1. PICK i \in Slots, new \in 1..MaxForks :
           LET row == [mas[n] EXCEPT ![i] = d.id]
               crow == [chan[n] EXCEPT ![i] = new]
           IN /\ new = procs + 1 /\ new # n /\ procs' = new
              /\ d.id = Id[d.from] /\ d.from \in Clients /\ d.id \in Int \ {0}
              /\ mas' = [m \in Procs |-> IF m \in {n, new} THEN row ELSE mas[m]]
              /\ chan' = [m \in Procs |-> IF m \in {n, new} THEN crow ELSE chan[m]]
              /\ owner' = [owner EXCEPT ![new] = d.from]
              /\ role' = [role EXCEPT ![new] = "greet"] /\ role[new] = "none"
              /\ mas[n][i] \in {0, d.id} /\ \A j \in Slots : j < i => mas[n][j] \notin {0, d.id}
              /\ UNCHANGED held
    BY <1>a, <1>1, <1>3, <1>10, ConnectRows
  <2>2. /\ new = procs + 1 /\ new # Server /\ procs' = procs + 1 /\ procs \in Nat /\ new \in Procs /\ Server \in Procs
        /\ 1..procs \subseteq Procs
        /\ held' = held /\ mas[Server][i] \in {0, Id[c]} /\ Id[c] # 0
        /\ \A m \in Procs : role'[m] = (IF m = new THEN "greet" ELSE role[m]) /\ owner'[m] = IF m = new THEN c ELSE owner[m]
        /\ \A m \in 1..procs' : m \in 1..procs \/ m = new
        /\ \A m \in 1..procs : m # new /\ m \in 1..procs'
    <3>1. /\ procs \in Nat /\ Server \in Procs /\ 1..procs \subseteq Procs
          /\ role \in [Procs -> {"none", "greet", "key", "serve", "talk", "loop", "write", "exited"}]
          /\ owner \in [Procs -> Clients \cup {"nobody"}]
      BY <1>a, OrderTypes DEF TypeOK
    <3>2. /\ new = procs + 1 /\ new # Server /\ procs' = procs + 1 /\ held' = held
          /\ role' = [role EXCEPT ![new] = "greet"] /\ owner' = [owner EXCEPT ![new] = c]
          /\ mas[Server][i] \in {0, Id[c]} /\ Id[c] # 0
      BY <1>1, <2>1
    <3> HIDE DEF d, c
    <3>3. new \in Procs
      BY UdpAssumption DEF Procs
    <3>4. \A m \in Procs : role'[m] = (IF m = new THEN "greet" ELSE role[m]) /\ owner'[m] = IF m = new THEN c ELSE owner[m]
      BY <3>1, <3>2, <3>3
    <3>5. (\A m \in 1..procs' : m \in 1..procs \/ m = new) /\ \A m \in 1..procs : m # new /\ m \in 1..procs'
      BY <3>1, <3>2
    <3> QED BY <3>1, <3>2, <3>3, <3>4, <3>5
  <2>3. \A j \in Slots : mas'[Server][j] = IF j = i THEN Id[c] ELSE mas[Server][j]
    <3>1. mas'[Server] = [mas[Server] EXCEPT ![i] = Id[c]]
      BY <1>1, <2>1, <2>2
    <3>2. mas[Server] \in [Slots -> Int]
      BY <1>a, <2>2 DEF TypeOK
    <3> QED BY <3>1, <3>2
  <2>4. got[new] = <<>> /\ pipe[new] = <<>> /\ key[new] = "none"
    <3>1. new \in (procs + 1)..MaxForks
      BY <2>2
    <3> QED BY <3>1, <1>a DEF Forked, OneServer
  <2> HIDE DEF d, c
  <2>5. OneServer'
    <3>1. \A m \in 1..procs' : /\ role'[m] \in {"greet", "key", "serve", "talk", "exited"}
                               /\ key[m] = IF role'[m] \in {"greet", "key"} THEN "none" ELSE "K"
                               /\ role'[m] \in {"greet", "key"} => got[m] = <<>>
      BY <1>a, <2>2, <2>4 DEF OneServer
    <3>2. \A m \in (procs' + 1)..MaxForks : m \in (procs + 1)..MaxForks
      BY <2>2, UdpAssumption
    <3> QED BY <3>1, <3>2, <1>a, <1>1 DEF OneServer
  <2>6. OneSubprocess'
    <3>1. ASSUME NEW m \in 1..procs', NEW o \in 1..procs', owner'[m] = owner'[o] PROVE m = o
      BY <1>a, <1>5, <2>2, <3>1 DEF OneSubprocess, c
    <3>2. ASSUME NEW m \in 1..procs' PROVE cpc[owner'[m]] # "start" /\ \E j \in Slots : mas'[Server][j] = Id[owner'[m]]
      <4>1. CASE m = new
        <5>1. owner'[m] = c /\ mas'[Server][i] = Id[c]
          BY <4>1, <2>2, <2>3
        <5> QED BY <5>1, <1>5 DEF c
      <4>2. CASE m \in 1..procs
        <5>1. owner'[m] = owner[m] /\ cpc[owner[m]] # "start" /\ owner[m] \in Clients
          BY <4>2, <1>a, <2>2, OrderTypes DEF OneSubprocess
        <5>2. PICK j \in Slots : mas[Server][j] = Id[owner[m]]
          BY <4>2, <1>a DEF OneSubprocess
        <5>3. Id[owner[m]] # 0
          BY <5>1, UdpAssumption
        <5>4. mas'[Server][j] = Id[owner[m]]
          BY <5>2, <5>3, <2>2, <2>3
        <5> QED BY <5>1, <5>4
      <4> QED BY <4>1, <4>2, <2>2
    <3>3. ASSUME NEW b \in Clients, greets[b] > 0 \/ cpc[b] \in {"main", "done"} PROVE \E m \in 1..procs' : owner'[m] = b
      <4>1. PICK m \in 1..procs : owner[m] = b
        BY <1>a, <3>3 DEF OneSubprocess
      <4>2. m \in 1..procs' /\ owner'[m] = b
        BY <4>1, <2>2
      <4> QED BY <4>2
    <3>4. \A b \in Clients : cpc[b] \in {"start", "key"} => sent[b] = <<>>
      BY <1>a DEF OneSubprocess
    <3> QED BY <3>1, <3>2, <3>3, <3>4, <1>1 DEF OneSubprocess
  <2>7. OneConnect'
    <3>1. \A k1 \in 1..Len(net') : net'[k1].what = "connect" => \A m \in 1..procs' : owner'[m] # net'[k1].from
      BY <1>8, <2>2
    <3> QED BY <3>1, <1>1, <1>8 DEF OneConnect
  <2>8. /\ \A m \in 1..procs : Handed(m)' = Handed(m) /\ Piped(m)' = Piped(m) /\ Passed(m)' = Passed(m)
        /\ Handed(new)' = 0 /\ Piped(new)' = 0 /\ Passed(new)' = 0
    <3>1. \A m \in 1..procs : Handed(m)' = Handed(m)
      BY <1>1, <2>2 DEF Handed
    <3>2. \A m \in 1..procs : Piped(m)' = Piped(m)
      BY <1>1, <3>1 DEF Piped
    <3>3. role'[Server] = "loop" /\ role[Server] = "loop"
      BY <1>1, <2>2
    <3>4. \A m \in 1..procs : Passed(m)' = Passed(m)
      BY <3>2, <3>3 DEF Passed
    <3>5. Handed(new)' = 0
      BY <2>2 DEF Handed
    <3>6. Piped(new)' = 0
      BY <1>1, <2>4, <3>5 DEF Piped
    <3>7. Passed(new)' = 0
      BY <3>3, <3>6 DEF Passed
    <3> QED BY <3>1, <3>2, <3>4, <3>5, <3>6, <3>7
  <2>9. InLine'
    <3>0. role'[Server] = "loop" /\ got' = got /\ pipe' = pipe /\ owner'[new] = c /\ \A m \in 1..procs : owner'[m] = owner[m]
      BY <1>1, <2>2
    <3>1. ASSUME NEW m \in 1..procs
          PROVE  /\ Passed(m)' <= Len(Stream[owner'[m]])
                 /\ \A j \in 1..Len(got[m]) : got[m][j].msg = Stream[owner'[m]][1 + j]
                 /\ \A j \in 1..Len(pipe[m]) : pipe[m][j].msg = Stream[owner'[m]][Handed(m)' + j]
      <4>1. Passed(m)' = Passed(m) /\ Handed(m)' = Handed(m) /\ owner'[m] = owner[m]
        BY <2>8, <3>0
      <4> QED BY <4>1, <1>a DEF InLine
    <3>2. /\ Passed(new)' <= Len(Stream[owner'[new]])
          /\ \A j \in 1..Len(got[new]) : got[new][j].msg = Stream[owner'[new]][1 + j]
          /\ \A j \in 1..Len(pipe[new]) : pipe[new][j].msg = Stream[owner'[new]][Handed(new)' + j]
      <4>1. Len(<<>>) = 0 /\ Stream[owner'[new]] = <<>>
        BY <1>6, <3>0 DEF c
      <4> QED BY <4>1, <2>4, <2>8
    <3>3. \A m \in 1..procs' : /\ Passed(m)' <= Len(Stream[owner'[m]])
                               /\ \A j \in 1..Len(got[m]) : got[m][j].msg = Stream[owner'[m]][1 + j]
                               /\ \A j \in 1..Len(pipe[m]) : pipe[m][j].msg = Stream[owner'[m]][Handed(m)' + j]
      BY <2>2, <3>1, <3>2
    <3> QED BY <3>0, <3>3, <1>6 DEF InLine
  <2>10. Numbered(idx)'
    <3>1. DOMAIN AllPassed = 1..procs /\ DOMAIN AllPassed' = 1..procs' /\ 1..procs' = 1..procs \cup {new}
      BY <2>2 DEF AllPassed
    <3>2. \A m \in 1..procs : owner'[m] = owner[m] /\ AllPassed'[m] = AllPassed[m]
      BY <2>2, <2>8 DEF AllPassed
    <3>3. owner'[new] = c /\ AllPassed'[new] = 0
      BY <2>2, <2>8, <3>1 DEF AllPassed
    <3>4. Numbering(net', idx, Stream, owner', AllPassed')
      <4>1. /\ DOMAIN AllPassed' = DOMAIN AllPassed \cup {new}
            /\ \A m \in DOMAIN AllPassed : owner'[m] = owner[m] /\ AllPassed'[m] = AllPassed[m]
        BY <3>1, <3>2
      <4>2. net' \in Seq(Datagrams) /\ c \in Clients /\ Stream[c] = <<>>
        BY <1>3, <1>4, <1>6 DEF c
      <4> QED BY <1>7, <3>3, <4>1, <4>2, NumberFork
    <3> QED BY <3>4, <1>6 DEF Numbered
  <2> QED BY <2>5, <2>6, <2>7, <2>9, <2>10 DEF Order, Ones
<1> QED BY <1>2, <1>3, <1>9, <1>10

(* master_handler: the oldest datagram is the next one of its client, and    *)
(* it goes to the pipe of this client's subprocess.                          *)
LEMMA OrderReceiveData ==
  ASSUME OrderIInv, Reliable, NEW n \in Procs, ReceiveData(n) PROVE Order'
<1>a. UdpIInv /\ Ones /\ InLine /\ TypeOK /\ Forked /\ Tables /\ OneServer /\ OneSubprocess /\ OneConnect
  BY DEF OrderIInv, UdpIInv, Ones
<1> DEFINE d == net[1]
           c == net[1].from
<1>1. n = Server /\ role[n] = "loop" /\ UNCHANGED <<greets, cpc, sent, procs, mas, chan, pipe, owner, key, got>>
  BY WhoSteps DEF ReceiveData, clients, child
<1>2. PICK k \in Next1 :
        /\ net[k].what = "data" /\ Take(k)
        /\ \/ /\ Known(n, net[k].id) # {}
              /\ held' = [held EXCEPT ![n] = [to |-> chan[n][Least(Known(n, net[k].id))], msg |-> net[k].body, from |-> net[k].from]]
              /\ role' = [role EXCEPT ![n] = "write"]
           \/ Known(n, net[k].id) = {} /\ UNCHANGED <<held, role>>
  BY DEF ReceiveData
<1>3. /\ k = 1 /\ Len(net) > 0 /\ Len(net) \in Nat /\ d \in Datagrams
      /\ net' = Without(net, 1) /\ net' \in Seq(Datagrams) /\ Len(net') = Len(net) - 1
      /\ \A j \in 1..Len(net') : j + 1 \in 1..Len(net) /\ net'[j] = net[j + 1]
  BY <1>a, <1>2, TakeOldest DEF Reliable
<1>4. d.what = "data" /\ c \in Clients /\ 1 \in 1..Len(net) /\ d.id = Id[c] /\ Id[c] # 0
  BY <1>2, <1>3, UdpAssumption DEF Datagrams
<1>5. PICK idx \in Seq(Nat) : Numbering(net, idx, Stream, owner, AllPassed)
  BY DEF OrderIInv, Numbered
<1>6. idx[1] \in 1..Len(Stream[c]) /\ d.body = Stream[c][idx[1]] /\ Len(Stream[c]) \in Nat
  BY <1>a, <1>4, <1>5, OrderTypes DEF Numbering
<1>7. PICK o \in 1..procs : owner[o] = c
  <2>1. Stream[c] = IF cpc[c] \in {"main", "done"} THEN <<OpenKey>> \o sent[c] ELSE <<>>
    BY <1>4 DEF Stream
  <2>2. Len(<<>>) = 0
    OBVIOUS
  <2>3. cpc[c] \in {"main", "done"}
    BY <1>6, <2>1, <2>2
  <2> QED BY <1>a, <1>4, <2>3 DEF OneSubprocess
<1>8. \A m \in 1..procs : owner[m] = c <=> m = o
  BY <1>a, <1>7 DEF OneSubprocess
<1>9. Known(n, d.id) # {} /\ chan[n][Least(Known(n, d.id))] = o
  <2>1. PICK i \in Slots : mas[Server][i] = Id[c]
    BY <1>a, <1>7 DEF OneSubprocess
  <2>2. Known(n, d.id) # {} /\ Known(n, d.id) \in SUBSET Slots
    BY <1>1, <1>4, <2>1 DEF Known
  <2>3. Least(Known(n, d.id)) \in Slots /\ mas[n][Least(Known(n, d.id))] = Id[c]
    <3>1. Least(Known(n, d.id)) \in Known(n, d.id)
      BY <2>2, LeastIsOne
    <3> QED BY <1>4, <3>1 DEF Known
  <2>4. /\ chan[n][Least(Known(n, d.id))] \in 1..procs
        /\ Id[c] = Id[owner[chan[n][Least(Known(n, d.id))]]]
    BY <1>a, <1>4, <2>3, SMTT(30) DEF Tables, LeadsHome
  <2>5. owner[chan[n][Least(Known(n, d.id))]] = c
    BY <1>a, <1>4, <2>4, OrderTypes DEF Reliable, IdsDiffer
  <2> QED BY <1>8, <2>2, <2>4, <2>5
<1>10. /\ held' = [held EXCEPT ![n] = [to |-> o, msg |-> d.body, from |-> c]]
       /\ role' = [role EXCEPT ![n] = "write"]
  BY <1>2, <1>3, <1>9
<1> HIDE DEF d, c
<1>11. /\ role'[Server] = "write" /\ held'[Server].to = o /\ held'[Server].msg = d.body /\ role[Server] = "loop"
       /\ \A m \in 1..procs : role'[m] = role[m]
  BY <1>a, <1>1, <1>10, OrderTypes DEF TypeOK
<1>12. ASSUME NEW m \in 1..procs
       PROVE  /\ Handed(m)' = Handed(m) /\ Piped(m)' = Piped(m) /\ Passed(m) = Piped(m) /\ Passed(m) \in Nat
              /\ Passed(m)' = Passed(m) + IF m = o THEN 1 ELSE 0
  <2>1. Handed(m)' = Handed(m)
    BY <1>1, <1>11 DEF Handed
  <2>2. Piped(m)' = Piped(m)
    BY <1>1, <2>1 DEF Piped
  <2>3. Piped(m) \in Nat
    BY <1>a, OrderTypes
  <2>4. Passed(m) = Piped(m) + 0
    BY <1>11 DEF Passed
  <2>5. Passed(m)' = Piped(m)' + IF m = o THEN 1 ELSE 0
    BY <1>11 DEF Passed
  <2> QED BY <2>1, <2>2, <2>3, <2>4, <2>5
<1>13. /\ idx[1] = Passed(o) + 1 /\ Passed(o) + 1 <= Len(Stream[c])
       /\ \E x \in Seq(Nat) : Numbering(net', x, Stream, owner, AllPassed')
  <2>1. \A m \in 1..procs : DataOf(net[1], owner[m]) <=> m = o
    BY <1>4, <1>8 DEF DataOf, c, d
  <2>2. DOMAIN AllPassed = 1..procs /\ DOMAIN AllPassed' = DOMAIN AllPassed
    BY <1>1 DEF AllPassed
  <2>3. \A m \in DOMAIN AllPassed : AllPassed[m] \in Nat /\ AllPassed[m] = Passed(m) /\ AllPassed'[m] = Passed(m)'
    BY <1>1, <1>12, <2>2 DEF AllPassed
  <2>4. \A m \in DOMAIN AllPassed : AllPassed'[m] = AllPassed[m] + IF DataOf(net[1], owner[m]) THEN 1 ELSE 0
    BY <1>12, <2>1, <2>2, <2>3
  <2>5. AllPassed[o] < idx[1]
    BY <1>4, <1>5, <1>7, <2>1, <2>2 DEF Numbering
  <2>6. \A m \in DOMAIN AllPassed : DataOf(net[1], owner[m]) => AllPassed[m] + 1 <= Len(Stream[owner[m]])
    <3>1. AllPassed[o] + 1 <= Len(Stream[owner[o]])
      <4>1. AllPassed[o] \in Nat
        BY <2>2, <2>3
      <4> QED BY <4>1, <1>6, <1>7, <2>5
    <3> QED BY <2>1, <2>2, <3>1
  <2>7. /\ net \in Seq(Datagrams) /\ \A m \in DOMAIN AllPassed : Len(Stream[owner[m]]) \in Nat
        /\ \A m \in DOMAIN AllPassed : AllPassed[m] \in Nat
    BY <1>a, <2>2, <2>3, OrderTypes
  <2>8. /\ Numbering(Without(net, 1), Without(idx, 1), Stream, owner, AllPassed')
        /\ \A m \in DOMAIN AllPassed : DataOf(net[1], owner[m]) => idx[1] = AllPassed[m] + 1
    <3>1. NextTaken(net, Stream, owner, AllPassed, AllPassed')
      BY <1>3, <2>2, <2>4, <2>6, <2>7 DEF NextTaken
    <3> QED BY <1>3, <1>5, <2>7, <3>1, NumberTake
  <2>9. Without(idx, 1) \in Seq(Nat)
    <3>1. 1 \in 1..Len(idx)
      BY <1>4, <1>5 DEF Numbering
    <3> QED BY <3>1, WithoutElement
  <2>10. idx[1] = Passed(o) + 1
    BY <2>1, <2>2, <2>3, <2>8
  <2>11. Passed(o) + 1 <= Len(Stream[c])
    BY <1>7, <2>1, <2>2, <2>3, <2>6
  <2> QED BY <1>3, <2>8, <2>9, <2>10, <2>11
<1>14. Stream' = Stream
  BY <1>1 DEF Stream
<1>15. OneServer' /\ OneSubprocess'
  <2>1. OneSubprocess'
    BY <1>a, <1>1 DEF OneSubprocess
  <2> QED BY <2>1, <1>a, <1>1, <1>11 DEF OneServer
<1>16. OneConnect'
  <2>1. ASSUME NEW k1 \in 1..Len(net'), net'[k1].what = "connect"
        PROVE  /\ cpc[net'[k1].from] # "start" /\ \A m \in 1..procs : owner[m] # net'[k1].from
               /\ \A l \in 1..Len(net') \ {k1} : net'[l].what = "connect" => net'[l].from # net'[k1].from
    <3>1. k1 + 1 \in 1..Len(net) /\ net'[k1] = net[k1 + 1]
      BY <1>3
    <3>2. ASSUME NEW l \in 1..Len(net') \ {k1}, net'[l].what = "connect" PROVE net'[l].from # net'[k1].from
      <4>1. l + 1 \in 1..Len(net) \ {k1 + 1} /\ net'[l] = net[l + 1]
        BY <1>3, <3>2
      <4> QED BY <1>a, <2>1, <3>1, <3>2, <4>1 DEF OneConnect
    <3>3. cpc[net'[k1].from] # "start" /\ \A m \in 1..procs : owner[m] # net'[k1].from
      BY <1>a, <2>1, <3>1 DEF OneConnect
    <3> QED BY <3>2, <3>3
  <2> QED BY <2>1, <1>1 DEF OneConnect
<1>17. InLine'
  <2>1. ASSUME NEW m \in 1..procs
        PROVE  /\ Passed(m)' <= Len(Stream[owner[m]])
               /\ \A k1 \in 1..Len(got[m]) : got[m][k1].msg = Stream[owner[m]][1 + k1]
               /\ \A k1 \in 1..Len(pipe[m]) : pipe[m][k1].msg = Stream[owner[m]][Handed(m) + k1]
               /\ o = m => d.body = Stream[owner[m]][Piped(m) + 1]
    <3>1. /\ Passed(m) <= Len(Stream[owner[m]])
          /\ \A k1 \in 1..Len(got[m]) : got[m][k1].msg = Stream[owner[m]][1 + k1]
          /\ \A k1 \in 1..Len(pipe[m]) : pipe[m][k1].msg = Stream[owner[m]][Handed(m) + k1]
      BY <1>a DEF InLine
    <3>2. Passed(m) = Piped(m) /\ Passed(m) \in Nat /\ Passed(m)' = Passed(m) + IF m = o THEN 1 ELSE 0
      BY <1>12
    <3>3. Passed(m)' <= Len(Stream[owner[m]])
      <4>1. CASE m = o
        BY <4>1, <1>7, <1>13, <3>2
      <4>2. CASE m # o
        BY <4>2, <3>1, <3>2
      <4> QED BY <4>1, <4>2
    <3>4. o = m => d.body = Stream[owner[m]][Piped(m) + 1]
      BY <1>6, <1>7, <1>13, <3>2
    <3> QED BY <3>1, <3>3, <3>4
  <2>2. \A m \in 1..procs : Handed(m)' = Handed(m) /\ Piped(m)' = Piped(m)
    BY <1>12
  <2> QED BY <2>1, <2>2, <1>1, <1>11, <1>14 DEF InLine
<1>18. \E x \in Seq(Nat) : Numbered(x)'
  BY <1>1, <1>13, <1>14 DEF Numbered
<1> QED BY <1>15, <1>16, <1>17, <1>18 DEF Order, Ones

(* At first nothing was sent.                                                 *)
LEMMA InitOrder == Init => OrderIInv
<1> SUFFICES ASSUME Init PROVE OrderIInv
  OBVIOUS
<1>1. UdpIInv
  BY InitUdp
<1>2. procs = 0 /\ net = <<>> /\ Len(net) = 0 /\ \A c \in Clients : greets[c] = 0 /\ cpc[c] = "start" /\ sent[c] = <<>>
  BY DEF Init
<1>3. 1..procs = {} /\ 1..Len(net) = {}
  BY <1>2
<1>4. Ones
  <2>1. \A m \in (procs + 1)..MaxForks : key[m] = "none"
    BY <1>2, UdpAssumption DEF Init, Procs
  <2> QED BY <1>2, <1>3, <2>1 DEF Ones, OneServer, OneSubprocess, OneConnect
<1>5. InLine
  BY <1>3 DEF InLine
<1>6. Numbered(<<>>) /\ <<>> \in Seq(Nat)
  <2>1. DOMAIN AllPassed = {}
    BY <1>3 DEF AllPassed
  <2> QED BY <1>2, <1>3, <2>1 DEF Numbered, Numbering
<1> QED BY <1>1, <1>4, <1>5, <1>6 DEF OrderIInv

(* Every step keeps the order when the network is reliable.                   *)
LEMMA NextOrder == ASSUME Reliable PROVE OrderIInv /\ [Next]_vars => OrderIInv'
<1> SUFFICES ASSUME OrderIInv, [Next]_vars PROVE OrderIInv'
  OBVIOUS
<1>1. UdpIInv'
  BY NextUdp DEF OrderIInv
<1>2. Order'
  <2>1. ASSUME NEW c \in Clients, ClientStep(c) PROVE Order'
    BY <2>1, OrderClient
  <2>2. ASSUME NEW n \in Procs, ServerStep(n) PROVE Order'
    BY <2>2, OrderReceiveConnect, OrderReceiveData, OrderWrite DEF ServerStep
  <2>3. ASSUME NEW n \in Procs, ChildStep(n) \/ BashStep(n) PROVE Order'
    BY <2>3, OrderChild DEF Reliable
  <2>4. CASE Network
    BY <2>4 DEF Network, Reliable
  <2>5. CASE UNCHANGED vars
    <3>1. UNCHANGED <<net, greets, cpc, sent, procs, role, mas, chan, held, pipe, owner, key, bash, got, faults>>
      BY <2>5 DEF vars, clients, tables, child
    <3>2. /\ Stream' = Stream /\ AllPassed' = AllPassed
          /\ \A n \in 1..procs : Handed(n)' = Handed(n) /\ Piped(n)' = Piped(n) /\ Passed(n)' = Passed(n)
      BY <3>1, PassedSame DEF Stream
    <3>3. Ones'
      BY <3>1 DEF OrderIInv, Ones, OneServer, OneSubprocess, OneConnect
    <3>4. InLine'
      BY <3>1, <3>2 DEF OrderIInv, InLine
    <3>5. PICK idx \in Seq(Nat) : Numbered(idx)
      BY DEF OrderIInv
    <3>6. Numbered(idx)'
      BY <3>1, <3>2, <3>5 DEF Numbered
    <3> QED BY <3>3, <3>4, <3>6 DEF Order
  <2> QED BY <2>1, <2>2, <2>3, <2>4, <2>5 DEF Next
<1> QED BY <1>1, <1>2 DEF OrderIInv, Order

(* The order holds in every state a network without faults leads to.         *)
THEOREM UdpOrder == Reliable => (Spec => []OrderIInv)
<1> SUFFICES ASSUME Reliable PROVE Spec => []OrderIInv
  OBVIOUS
<1>1. OrderIInv /\ [Next]_vars => OrderIInv'
  BY NextOrder
<1> QED BY <1>1, InitOrder, PTL DEF Spec

(* What the order says of what was read.                                     *)
LEMMA OrderInLine == OrderIInv => LinesInOrder
<1> SUFFICES ASSUME OrderIInv, NEW n \in 1..procs
             PROVE  /\ key[n] # "other" /\ Len(got[n]) <= Len(sent[owner[n]])
                    /\ \A k \in 1..Len(got[n]) : got[n][k].msg = sent[owner[n]][k]
  BY DEF LinesInOrder
<1>a. UdpIInv /\ InLine /\ OneServer
  BY DEF OrderIInv, Ones
<1>1. key[n] # "other"
  BY <1>a DEF OneServer
<1>2. /\ owner[n] \in Clients /\ sent[owner[n]] \in Seq(Bodies) /\ Len(got[n]) \in Nat /\ Len(pipe[n]) \in Nat
      /\ Passed(n) \in Nat /\ Piped(n) <= Passed(n) /\ Piped(n) \in Nat /\ Handed(n) \in Nat
  BY <1>a, OrderTypes
<1>3. Len(sent[owner[n]]) \in Nat /\ OpenKey \in Bodies
  BY <1>2, LenProperties DEF Bodies
<1>4. CASE Len(got[n]) = 0
  BY <1>1, <1>3, <1>4
<1>5. CASE Len(got[n]) > 0
  <2>1. Handed(n) = 1 + Len(got[n])
    <3>1. got[n] # <<>>
      BY <1>5
    <3> QED BY <3>1, <1>a DEF OneServer, Handed
  <2>2. Handed(n) <= Piped(n)
    BY <1>2 DEF Piped
  <2>3. Passed(n) <= Len(Stream[owner[n]])
    BY <1>a DEF InLine
  <2>4. Stream[owner[n]] = IF cpc[owner[n]] \in {"main", "done"} THEN <<OpenKey>> \o sent[owner[n]] ELSE <<>>
    BY <1>2 DEF Stream
  <2>5. Stream[owner[n]] = <<OpenKey>> \o sent[owner[n]]
    <3>1. Len(<<>>) = 0
      OBVIOUS
    <3>2. Len(Stream[owner[n]]) # 0
      BY <1>2, <2>1, <2>2, <2>3
    <3> QED BY <2>4, <3>1, <3>2
  <2>6. /\ Len(<<OpenKey>> \o sent[owner[n]]) = 1 + Len(sent[owner[n]])
        /\ \A k \in 2..(1 + Len(sent[owner[n]])) : (<<OpenKey>> \o sent[owner[n]])[k] = sent[owner[n]][k - 1]
    <3>1. <<OpenKey>> \in Seq(Bodies) /\ Len(<<OpenKey>>) = 1 /\ 1 + 1 = 2
      BY <1>3
    <3> QED BY <3>1, <1>2, Together
  <2>7. Len(got[n]) <= Len(sent[owner[n]])
    BY <1>2, <1>3, <2>1, <2>2, <2>3, <2>5, <2>6
  <2>8. ASSUME NEW k \in 1..Len(got[n]) PROVE got[n][k].msg = sent[owner[n]][k]
    <3>1. 1 + k \in 2..(1 + Len(sent[owner[n]])) /\ (1 + k) - 1 = k
      BY <1>2, <1>3, <2>7
    <3>2. got[n][k].msg = Stream[owner[n]][1 + k]
      BY <1>a DEF InLine
    <3> QED BY <2>5, <2>6, <3>1, <3>2
  <2> QED BY <1>1, <2>7, <2>8
<1> QED BY <1>2, <1>4, <1>5

(* LinesInOrder: a subprocess deciphers and reads its client's lines in the  *)
(* order they were typed, each once, from the first.                         *)
THEOREM UdpLinesInOrder == Reliable => (Spec => []LinesInOrder)
<1> SUFFICES ASSUME Reliable PROVE Spec => []LinesInOrder
  OBVIOUS
<1> QED BY OrderInLine, UdpOrder, PTL
=============================================================================
