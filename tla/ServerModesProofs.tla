-------------------------- MODULE ServerModesProofs --------------------------
(***************************************************************************)
(* Theorems about the server in either mode: over UDP they are those of    *)
(* UdpServerProofs; over TCP they follow from TcpIInv, for any number of   *)
(* clients and subprocesses and any interruption of the clients.           *)
(***************************************************************************)
EXTENDS ServerModes, UdpServerProofs

USE DEF Serving

(* What is not forked is blank, and a client that did not connect said       *)
(* nothing; it is done when its end of the connection is closed.             *)
TcpForked ==
  /\ \A n \in 0..tcpForks : tcpRole[n] # "none"
  /\ \A n \in (tcpForks + 1)..TcpMaxForks : tcpRole[n] = "none" /\ tcpGot[n] = <<>>
TcpStarts ==
  \A c \in TcpClients : /\ tcpPc[c] = "start" => up[c] = <<>> /\ tcpSent[c] = <<>>
                        /\ peer[c] # "open" => tcpPc[c] = "done"

(* Connections: one that waits or is used by a process is waited for or used *)
(* once, and its client has connected.                                       *)
Uses(n) == tcpRole[n] \in {"key", "answer", "fork", "ended"} \cup Serving
OneUse ==
  /\ \A n \in TcpProcs : Uses(n) => conn[n] \in TcpClients
  /\ \A n, m \in TcpProcs : Uses(n) /\ Uses(m) /\ conn[n] = conn[m] => n = m
  /\ \A k, l \in 1..Len(backlog) : backlog[k] = backlog[l] => k = l
  /\ \A k \in 1..Len(backlog) : tcpPc[backlog[k]] # "start" /\ \A n \in TcpProcs : Uses(n) => conn[n] # backlog[k]
  /\ \A n \in TcpProcs : Uses(n) => tcpPc[conn[n]] # "start"

(* Nothing was read of what client c sends: its key, if it went that far,    *)
(* and then its lines.                                                       *)
Unread(c) ==
  \/ up[c] = <<>> /\ tcpSent[c] = <<>> /\ tcpPc[c] \in {"hello", "done"}
  \/ up[c] = <<KeyB>> \o tcpSent[c] /\ tcpPc[c] \in {"key", "main", "poll", "done"}

(* The key was read, and read was what process n got; or the client left     *)
(* before it sent a key, and there is nothing.                               *)
KeyRead(n, c, read) ==
  \/ tcpKey[n] = "K" /\ tcpPc[c] \in {"key", "main", "poll", "done"} /\ read \o up[c] = tcpSent[c]
  \/ tcpKey[n] = "other" /\ tcpPc[c] = "done" /\ read = <<>> /\ up[c] = <<>> /\ tcpSent[c] = <<>>

TcpInLine ==
  /\ \A k \in 1..Len(backlog) : Unread(backlog[k])
  /\ \A n \in TcpProcs :
       /\ tcpRole[n] = "key" => Unread(conn[n])
       /\ tcpRole[n] \in {"answer", "fork"} => KeyRead(n, conn[n], <<>>)
       /\ tcpRole[n] \in Serving \cup {"ended"} => KeyRead(n, conn[n], tcpGot[n])

TcpIInv == TcpTypeOK /\ TcpForked /\ TcpStarts /\ OneUse /\ TcpInLine
-----------------------------------------------------------------------------
(* The types of TcpTypeOK that a step of a client changes, and the others.   *)
EndTypes == /\ backlog \in Seq(TcpClients) /\ up \in [TcpClients -> Seq(Messages)]
            /\ down \in [TcpClients -> Nat] /\ peer \in [TcpClients -> {"open", "fin", "told", "reset"}]
            /\ tcpPc \in [TcpClients -> {"start", "hello", "key", "main", "poll", "done"}]
            /\ tcpSent \in [TcpClients -> Seq(Messages)]
ProcTypes == /\ tcpRole \in [TcpProcs -> {"none", "accept", "key", "answer", "fork", "ended"} \cup Serving]
             /\ conn \in [TcpProcs -> TcpClients \cup {Nobody}]
             /\ tcpKey \in [TcpProcs -> {"none", "K", "other"}] /\ tcpBash \in [TcpProcs -> BOOLEAN]
             /\ tcpGot \in [TcpProcs -> Seq(Messages)] /\ tcpForks \in 0..TcpMaxForks
(* The types in two parts.                                                    *)
LEMMA TcpTypeParts == (TcpTypeOK <=> EndTypes /\ ProcTypes) /\ (TcpTypeOK' <=> EndTypes' /\ ProcTypes')
BY DEF TcpTypeOK, EndTypes, ProcTypes

(* A client that moves on and keeps what is said of the messages it sent.    *)
LEMMA ClientMoves ==
  ASSUME TcpIInv, NEW c \in TcpClients, tcpPc[c] # "start", tcpPc'[c] # "start",
         \A b \in TcpClients \ {c} : tcpPc'[b] = tcpPc[b] /\ up'[b] = up[b] /\ tcpSent'[b] = tcpSent[b] /\ peer'[b] = peer[b],
         Unread(c) => Unread(c)',
         \A n \in TcpProcs, r \in Seq(Messages) : KeyRead(n, c, r) => KeyRead(n, c, r)',
         peer'[c] # "open" => tcpPc'[c] = "done",
         UNCHANGED <<backlog, tcpRole, conn, tcpKey, tcpGot, tcpForks>>
  PROVE  TcpForked' /\ TcpStarts' /\ OneUse' /\ TcpInLine'
<1>a. EndTypes /\ ProcTypes /\ TcpForked /\ TcpStarts /\ OneUse /\ TcpInLine
  BY TcpTypeParts DEF TcpIInv
<1>1. TcpForked'
  BY <1>a DEF TcpForked
<1>2. TcpStarts'
  BY <1>a DEF TcpStarts
<1>3. \A k \in 1..Len(backlog) : backlog[k] \in TcpClients
  BY <1>a, ElementOfSeq DEF EndTypes
<1>4. OneUse'
  <2>1. \A b \in TcpClients : tcpPc[b] # "start" => tcpPc'[b] # "start"
    OBVIOUS
  <2>2. \A n \in TcpProcs : Uses(n)' = Uses(n)
    BY DEF Uses
  <2> QED BY <1>a, <1>3, <2>1, <2>2 DEF OneUse
<1>5. \A b \in TcpClients : Unread(b) => Unread(b)'
  BY DEF Unread
<1>6. ASSUME NEW n \in TcpProcs, NEW b \in TcpClients, NEW r \in Seq(Messages), KeyRead(n, b, r) PROVE KeyRead(n, b, r)'
  <2>1. CASE b = c
    BY <1>6, <2>1
  <2>2. CASE b # c
    BY <1>6, <2>2 DEF KeyRead
  <2> QED BY <2>1, <2>2
<1>7. TcpInLine'
  <2>1. \A k \in 1..Len(backlog) : Unread(backlog[k])'
    BY <1>a, <1>3, <1>5 DEF TcpInLine
  <2>2. ASSUME NEW n \in TcpProcs
        PROVE  /\ tcpRole[n] = "key" => Unread(conn[n])'
               /\ tcpRole[n] \in {"answer", "fork"} => KeyRead(n, conn[n], <<>>)'
               /\ tcpRole[n] \in Serving \cup {"ended"} => KeyRead(n, conn[n], tcpGot[n])'
    <3>1. Uses(n) => conn[n] \in TcpClients
      BY <1>a DEF OneUse
    <3>2. tcpGot[n] \in Seq(Messages) /\ <<>> \in Seq(Messages)
      BY <1>a DEF ProcTypes
    <3>3. PICK b, g : b = conn[n] /\ g = tcpGot[n]
      OBVIOUS
    <3>4. /\ tcpRole[n] = "key" => Unread(b)
          /\ tcpRole[n] \in {"answer", "fork"} => KeyRead(n, b, <<>>)
          /\ tcpRole[n] \in Serving \cup {"ended"} => KeyRead(n, b, g)
      BY <1>a, <3>3 DEF TcpInLine
    <3>5. /\ tcpRole[n] = "key" => Unread(b)'
          /\ tcpRole[n] \in {"answer", "fork"} => KeyRead(n, b, <<>>)'
          /\ tcpRole[n] \in Serving \cup {"ended"} => KeyRead(n, b, g)'
      BY <1>5, <1>6, <3>1, <3>2, <3>3, <3>4 DEF Uses
    <3> QED BY <3>3, <3>5
  <2> QED BY <2>1, <2>2 DEF TcpInLine
<1> QED BY <1>1, <1>2, <1>4, <1>7

(* A process that reads of its own connection, or ends it.                   *)
LEMMA ProcessMoves ==
  ASSUME TcpIInv, NEW n \in TcpProcs, Uses(n), NEW c \in TcpClients, c = conn[n],
         tcpRole'[n] \notin {"none", "key"},
         tcpRole'[n] \in {"answer", "fork"} => KeyRead(n, c, <<>>)',
         tcpRole'[n] \in Serving \cup {"ended"} => KeyRead(n, c, tcpGot[n])',
         \A b \in TcpClients \ {c} : up'[b] = up[b],
         \A b \in TcpClients : peer'[b] # "open" => peer[b] # "open",
         \A m \in TcpProcs \ {n} : tcpRole'[m] = tcpRole[m] /\ tcpKey'[m] = tcpKey[m] /\ tcpGot'[m] = tcpGot[m],
         UNCHANGED <<backlog, tcpPc, tcpSent, conn, tcpForks>>
  PROVE  TcpForked' /\ TcpStarts' /\ OneUse' /\ TcpInLine'
<1>a. EndTypes /\ ProcTypes /\ TcpForked /\ TcpStarts /\ OneUse /\ TcpInLine
  BY TcpTypeParts DEF TcpIInv
<1>b. /\ n \in 0..tcpForks /\ tcpForks \in 0..TcpMaxForks /\ TcpMaxForks \in Nat
      /\ \A m \in TcpProcs : m \in 0..tcpForks \/ m \in (tcpForks + 1)..TcpMaxForks
      /\ \A m \in (tcpForks + 1)..TcpMaxForks : m \in TcpProcs
      /\ \A m \in 0..tcpForks : m \in TcpProcs
  <2>1. tcpForks \in 0..TcpMaxForks /\ TcpMaxForks \in Nat
    BY <1>a, TcpAssumption DEF ProcTypes
  <2>2. \A m \in TcpProcs : m \in 0..tcpForks \/ m \in (tcpForks + 1)..TcpMaxForks
    BY <2>1 DEF TcpProcs
  <2>3. (\A m \in (tcpForks + 1)..TcpMaxForks : m \in TcpProcs) /\ \A m \in 0..tcpForks : m \in TcpProcs
    BY <2>1 DEF TcpProcs
  <2>4. n \in 0..tcpForks
    BY <1>a, <2>2 DEF TcpForked, Uses
  <2> QED BY <2>1, <2>2, <2>3, <2>4
<1>1. TcpForked'
  <2>1. \A m \in 0..tcpForks : tcpRole'[m] # "none"
    BY <1>a, <1>b DEF TcpForked
  <2>2. \A m \in (tcpForks + 1)..TcpMaxForks : m # n
    BY <1>b
  <2> QED BY <2>1, <2>2, <1>a, <1>b DEF TcpForked
<1>2. tcpPc[c] # "start" /\ \A m \in TcpProcs \ {n} : Uses(m) => conn[m] # c
  BY <1>a DEF OneUse
<1>3. TcpStarts'
  BY <1>a, <1>2 DEF TcpStarts
<1>4. \A k \in 1..Len(backlog) : backlog[k] \in TcpClients /\ backlog[k] # c
  BY <1>a, ElementOfSeq DEF EndTypes, OneUse
<1>5. \A m \in TcpProcs : Uses(m)' => Uses(m)
  BY DEF Uses
<1>6. OneUse'
  <2>1. \A m \in TcpProcs : Uses(m)' => conn[m] \in TcpClients /\ tcpPc[conn[m]] # "start"
    BY <1>a, <1>5 DEF OneUse
  <2>2. \A m, o \in TcpProcs : Uses(m)' /\ Uses(o)' /\ conn[m] = conn[o] => m = o
    BY <1>a, <1>5 DEF OneUse
  <2>3. /\ \A k, l \in 1..Len(backlog) : backlog[k] = backlog[l] => k = l
        /\ \A k \in 1..Len(backlog) : tcpPc[backlog[k]] # "start" /\ \A m \in TcpProcs : Uses(m)' => conn[m] # backlog[k]
    BY <1>a, <1>5 DEF OneUse
  <2> QED BY <2>1, <2>2, <2>3 DEF OneUse
<1>7. TcpInLine'
  <2>1. \A k \in 1..Len(backlog) : Unread(backlog[k])'
    BY <1>a, <1>4 DEF TcpInLine, Unread
  <2>2. ASSUME NEW m \in TcpProcs
        PROVE  /\ tcpRole'[m] = "key" => Unread(conn[m])'
               /\ tcpRole'[m] \in {"answer", "fork"} => KeyRead(m, conn[m], <<>>)'
               /\ tcpRole'[m] \in Serving \cup {"ended"} => KeyRead(m, conn[m], tcpGot[m])'
    <3>1. CASE m = n
      BY <3>1
    <3>2. CASE m # n
      <4>1. /\ tcpRole'[m] = tcpRole[m] /\ tcpKey'[m] = tcpKey[m] /\ tcpGot'[m] = tcpGot[m]
            /\ Uses(m) => conn[m] \in TcpClients \ {c}
        BY <3>2, <1>a, <1>2 DEF OneUse
      <4>2. Uses(m) => up'[conn[m]] = up[conn[m]]
        BY <4>1
      <4>3. /\ tcpRole[m] = "key" => Unread(conn[m])
            /\ tcpRole[m] \in {"answer", "fork"} => KeyRead(m, conn[m], <<>>)
            /\ tcpRole[m] \in Serving \cup {"ended"} => KeyRead(m, conn[m], tcpGot[m])
        BY <1>a DEF TcpInLine
      <4>4. tcpRole[m] = "key" => Unread(conn[m])'
        BY <4>2, <4>3 DEF Uses, Unread
      <4>5. tcpRole[m] \in {"answer", "fork"} => KeyRead(m, conn[m], <<>>)'
        BY <4>1, <4>2, <4>3 DEF Uses, KeyRead
      <4>6. tcpRole[m] \in Serving \cup {"ended"} => KeyRead(m, conn[m], tcpGot[m])'
        BY <4>1, <4>2, <4>3 DEF Uses, KeyRead
      <4> QED BY <4>1, <4>4, <4>5, <4>6
    <3> QED BY <3>1, <3>2
  <2> QED BY <2>1, <2>2 DEF TcpInLine
<1> QED BY <1>1, <1>3, <1>6, <1>7

(* A client says one more thing after its key.                               *)
LEMMA SaysMore ==
  ASSUME TcpIInv, NEW c \in TcpClients, tcpPc[c] \in {"main", "poll"}, NEW m \in Messages,
         tcpPc'[c] \in {"main", "poll", "done"}, up'[c] = Append(up[c], m), tcpSent'[c] = Append(tcpSent[c], m),
         tcpKey' = tcpKey
  PROVE  /\ Unread(c) => Unread(c)'
         /\ \A n \in TcpProcs, r \in Seq(Messages) : KeyRead(n, c, r) => KeyRead(n, c, r)'
<1>a. up[c] \in Seq(Messages) /\ tcpSent[c] \in Seq(Messages) /\ KeyB \in Messages
  BY TcpTypeParts DEF TcpIInv, EndTypes, Messages
<1>b. <<KeyB>> \in Seq(Messages)
  BY <1>a
<1>1. Unread(c) => Unread(c)'
  <2>1. <<KeyB>> \o Append(tcpSent[c], m) = Append(<<KeyB>> \o tcpSent[c], m)
    BY <1>a, <1>b, AppendAfter
  <2> QED BY <2>1 DEF Unread
<1>2. ASSUME NEW n \in TcpProcs, NEW r \in Seq(Messages), KeyRead(n, c, r) PROVE KeyRead(n, c, r)'
  <2>1. r \o Append(up[c], m) = Append(r \o up[c], m)
    BY <1>a, AppendAfter
  <2> QED BY <1>2, <2>1 DEF KeyRead
<1> QED BY <1>1, <1>2

(* A step of a client keeps it.                                               *)
LEMMA TcpStepClient ==
  ASSUME TcpIInv, NEW c \in TcpClients, TcpClientStep(c) \/ TcpUser(c) PROVE TcpIInv'
<1>a. EndTypes /\ ProcTypes /\ TcpForked /\ TcpStarts /\ OneUse /\ TcpInLine
  BY TcpTypeParts DEF TcpIInv
<1>b. KeyB \in Messages /\ Clear("quit") \in Messages /\ \A t \in TcpTyped : Ciphered("K", t) \in Messages
  BY DEF Messages
<1>c. \A m \in Messages : Append(up[c], m) \in Seq(Messages) /\ Append(tcpSent[c], m) \in Seq(Messages)
  BY <1>a, AppendProperties DEF EndTypes
<1>d. UNCHANGED tcpProc
  BY DEF TcpClientStep, TcpUser, TcpHello, TcpGetKey, TcpAnswer, TcpTimeout, TcpConnect, TcpSend, TcpInterrupted
<1>e. UNCHANGED <<tcpRole, conn, tcpKey, tcpBash, tcpGot, tcpForks>>
  BY <1>d DEF tcpProc
<1>f. ProcTypes'
  BY <1>a, <1>e DEF ProcTypes
<1>1. CASE TcpConnect(c)
  <2>1. /\ tcpPc[c] = "start" /\ tcpPc' = [tcpPc EXCEPT ![c] = "hello"] /\ backlog' = Append(backlog, c)
        /\ UNCHANGED <<up, down, peer, tcpSent>>
    BY <1>1 DEF TcpConnect, TcpGo, ends
  <2>2. /\ Len(backlog) \in Nat /\ Len(backlog') = Len(backlog) + 1 /\ backlog'[Len(backlog) + 1] = c
        /\ backlog' \in Seq(TcpClients) /\ \A k \in 1..Len(backlog) : backlog'[k] = backlog[k] /\ backlog[k] \in TcpClients
    BY <1>a, <2>1, AppendProperties, LenProperties, ElementOfSeq DEF EndTypes
  <2>3. EndTypes'
    BY <1>a, <2>1, <2>2 DEF EndTypes
  <2>4. TcpForked' /\ TcpStarts'
    <3>1. \A b \in TcpClients : tcpPc'[b] = IF b = c THEN "hello" ELSE tcpPc[b]
      BY <1>a, <2>1 DEF EndTypes
    <3>2. TcpForked'
      BY <1>a, <1>e DEF TcpForked
    <3> QED BY <3>1, <3>2, <1>a, <2>1 DEF TcpStarts
  <2>5. (\A k \in 1..Len(backlog) : backlog[k] # c) /\ \A n \in TcpProcs : Uses(n) => conn[n] # c
    BY <1>a, <2>1 DEF OneUse
  <2>6. \A k \in 1..Len(backlog') : k \in 1..Len(backlog) \/ k = Len(backlog) + 1
    BY <2>2
  <2>7. \A b \in TcpClients : tcpPc'[b] = IF b = c THEN "hello" ELSE tcpPc[b]
    BY <1>a, <2>1 DEF EndTypes
  <2>8. \A n \in TcpProcs : Uses(n)' = Uses(n)
    BY <1>e DEF Uses
  <2>9. OneUse'
    <3>1. \A k, l \in 1..Len(backlog') : backlog'[k] = backlog'[l] => k = l
      BY <1>a, <2>2, <2>5, <2>6 DEF OneUse
    <3>2. \A k \in 1..Len(backlog') : tcpPc'[backlog'[k]] # "start" /\ \A n \in TcpProcs : Uses(n) => conn[n] # backlog'[k]
      BY <1>a, <2>2, <2>5, <2>6, <2>7 DEF OneUse
    <3>3. \A n \in TcpProcs : Uses(n) => tcpPc'[conn[n]] # "start"
      BY <1>a, <2>5, <2>7 DEF OneUse
    <3> QED BY <3>1, <3>2, <3>3, <1>a, <1>e, <2>8 DEF OneUse
  <2>10. TcpInLine'
    <3>1. \A b \in TcpClients \ {c} : Unread(b) => Unread(b)'
      BY <2>1, <2>7 DEF Unread
    <3>2. Unread(c)'
      BY <1>a, <2>1, <2>7 DEF Unread, TcpStarts
    <3>3. \A k \in 1..Len(backlog') : Unread(backlog[k])'
      <4> SUFFICES ASSUME NEW k \in 1..Len(backlog') PROVE Unread(backlog[k])'
        OBVIOUS
      <4>1. CASE k \in 1..Len(backlog)
        <5>1. PICK b : b = backlog[k]
          OBVIOUS
        <5>2. b \in TcpClients \ {c} /\ Unread(b) /\ b = backlog'[k]
          BY <4>1, <5>1, <1>a, <2>2, <2>5 DEF TcpInLine
        <5> QED BY <5>2, <3>1
      <4>2. CASE k = Len(backlog) + 1
        BY <4>2, <2>2, <3>2
      <4> QED BY <4>1, <4>2, <2>6
    <3>4. ASSUME NEW n \in TcpProcs
          PROVE  /\ tcpRole[n] = "key" => Unread(conn[n])'
                 /\ tcpRole[n] \in {"answer", "fork"} => KeyRead(n, conn[n], <<>>)'
                 /\ tcpRole[n] \in Serving \cup {"ended"} => KeyRead(n, conn[n], tcpGot[n])'
      <4>1. /\ tcpRole[n] = "key" => Unread(conn[n])
            /\ tcpRole[n] \in {"answer", "fork"} => KeyRead(n, conn[n], <<>>)
            /\ tcpRole[n] \in Serving \cup {"ended"} => KeyRead(n, conn[n], tcpGot[n])
            /\ Uses(n) => conn[n] \in TcpClients \ {c}
        BY <1>a, <2>5 DEF TcpInLine, OneUse
      <4>2. Uses(n) => tcpPc'[conn[n]] = tcpPc[conn[n]]
        BY <2>7, <4>1
      <4>3. tcpRole[n] = "key" => Unread(conn[n])'
        BY <1>e, <2>1, <4>1, <4>2 DEF Uses, Unread
      <4>4. tcpRole[n] \in {"answer", "fork"} => KeyRead(n, conn[n], <<>>)'
        BY <1>e, <2>1, <4>1, <4>2 DEF Uses, KeyRead
      <4>5. tcpRole[n] \in Serving \cup {"ended"} => KeyRead(n, conn[n], tcpGot[n])'
        BY <1>e, <2>1, <4>1, <4>2 DEF Uses, KeyRead
      <4> QED BY <4>3, <4>4, <4>5
    <3> QED BY <3>3, <3>4, <1>e DEF TcpInLine
  <2> QED BY <1>f, <2>3, <2>4, <2>9, <2>10, TcpTypeParts DEF TcpIInv
<1>2. ASSUME tcpPc[c] # "start", tcpPc'[c] # "start",
             \A b \in TcpClients \ {c} : tcpPc'[b] = tcpPc[b] /\ up'[b] = up[b] /\ tcpSent'[b] = tcpSent[b] /\ peer'[b] = peer[b],
             Unread(c) => Unread(c)',
             \A n \in TcpProcs, r \in Seq(Messages) : KeyRead(n, c, r) => KeyRead(n, c, r)',
             peer'[c] # "open" => tcpPc'[c] = "done", EndTypes', backlog' = backlog
      PROVE  TcpIInv'
  BY <1>2, <1>e, <1>f, ClientMoves, TcpTypeParts DEF TcpIInv
<1>p. \A b \in TcpClients : peer[b] # "open" => tcpPc[b] = "done"
  BY <1>a DEF TcpStarts
<1>3. CASE TcpHello(c)
  <2>1. /\ tcpPc[c] = "hello" /\ tcpPc' = [tcpPc EXCEPT ![c] = "key"] /\ up' = [up EXCEPT ![c] = Append(@, KeyB)]
        /\ UNCHANGED <<backlog, down, peer, tcpSent>>
    BY <1>3 DEF TcpHello, TcpGo, Say
  <2>2. EndTypes'
    BY <1>a, <1>b, <1>c, <2>1 DEF EndTypes
  <2>3. tcpPc'[c] = "key" /\ up'[c] = Append(up[c], KeyB)
        /\ \A b \in TcpClients \ {c} : tcpPc'[b] = tcpPc[b] /\ up'[b] = up[b]
    BY <1>a, <2>1 DEF EndTypes
  <2>4. Unread(c) => Unread(c)'
    <3>1. Append(<<>>, KeyB) = <<KeyB>> /\ <<KeyB>> \o <<>> = <<KeyB>>
      <4>1. <<>> \in Seq(Messages) /\ <<KeyB>> \in Seq(Messages)
        BY <1>b
      <4> QED BY <1>b, <4>1, AppendIsConcat, ConcatEmptySeq
    <3> QED BY <2>1, <2>3, <3>1 DEF Unread
  <2>5. \A n \in TcpProcs, r \in Seq(Messages) : KeyRead(n, c, r) => KeyRead(n, c, r)'
    BY <2>1 DEF KeyRead
  <2> QED BY <1>2, <1>p, <2>1, <2>2, <2>3, <2>4, <2>5
<1>4. CASE TcpGetKey(c) \/ TcpAnswer(c) \/ TcpTimeout(c)
  <2>1. /\ tcpPc[c] \in {"key", "poll"} /\ tcpPc'[c] \in {"main", "poll"}
        /\ \A b \in TcpClients \ {c} : tcpPc'[b] = tcpPc[b]
        /\ UNCHANGED <<backlog, up, peer, tcpSent>>
    BY <1>4, <1>a DEF EndTypes, TcpGetKey, TcpAnswer, TcpTimeout, TcpGo, ends, tcpClient
  <2>2. EndTypes'
    <3>1. tcpPc' \in [TcpClients -> {"start", "hello", "key", "main", "poll", "done"}]
      BY <1>4, <1>a DEF EndTypes, TcpGetKey, TcpAnswer, TcpTimeout, TcpGo, tcpClient
    <3>2. down' = down \/ (down[c] > 0 /\ down' = [down EXCEPT ![c] = @ - 1])
      BY <1>4 DEF TcpGetKey, TcpAnswer, TcpTimeout, ends
    <3>3. down' \in [TcpClients -> Nat]
      <4>1. down[c] > 0 => down[c] - 1 \in Nat
        BY <1>a DEF EndTypes
      <4> QED BY <3>2, <4>1, <1>a DEF EndTypes
    <3> QED BY <1>a, <2>1, <3>1, <3>3 DEF EndTypes
  <2>3. Unread(c) => Unread(c)'
    BY <2>1 DEF Unread
  <2>4. \A n \in TcpProcs, r \in Seq(Messages) : KeyRead(n, c, r) => KeyRead(n, c, r)'
    BY <1>e, <2>1 DEF KeyRead
  <2> QED BY <1>2, <1>p, <2>1, <2>2, <2>3, <2>4
<1>5. ASSUME NEW at \in {"main", "poll", "done"}, NEW m \in Messages, tcpPc[c] \in {"main", "poll"},
             tcpPc' = [tcpPc EXCEPT ![c] = at], Say(c, m), tcpSent' = [tcpSent EXCEPT ![c] = Append(@, m)],
             (Hangup(c) /\ at = "done") \/ peer' = peer, UNCHANGED <<backlog, down>>
      PROVE  TcpIInv'
  <2>1. /\ \A b \in TcpClients : tcpPc'[b] = IF b = c THEN at ELSE tcpPc[b]
        /\ \A b \in TcpClients \ {c} : up'[b] = up[b] /\ tcpSent'[b] = tcpSent[b]
        /\ up'[c] = Append(up[c], m) /\ tcpSent'[c] = Append(tcpSent[c], m)
    BY <1>5, <1>a DEF Say, EndTypes
  <2>2. \A b \in TcpClients \ {c} : peer'[b] = peer[b]
    BY <1>5, <1>a DEF Hangup, EndTypes
  <2>3. peer'[c] # "open" => at = "done"
    BY <1>5, <1>p, <2>1
  <2>4. EndTypes'
    <3>1. peer' \in [TcpClients -> {"open", "fin", "told", "reset"}]
      BY <1>5, <1>a DEF Hangup, EndTypes
    <3>2. up' \in [TcpClients -> Seq(Messages)] /\ tcpSent' \in [TcpClients -> Seq(Messages)]
      BY <1>5, <1>a, <1>c DEF Say, EndTypes
    <3> QED BY <1>5, <1>a, <3>1, <3>2 DEF EndTypes
  <2>5. /\ Unread(c) => Unread(c)'
        /\ \A n \in TcpProcs, r \in Seq(Messages) : KeyRead(n, c, r) => KeyRead(n, c, r)'
    BY <1>5, <1>e, <2>1, SaysMore
  <2> QED BY <1>2, <1>5, <2>1, <2>2, <2>3, <2>4, <2>5
<1>6. CASE TcpSend(c)
  <2>1. PICK t \in TcpTyped : TcpSend(c)!(t)
    BY <1>6 DEF TcpSend
  <2> QED BY <1>5, <1>b, <2>1 DEF TcpGo
<1>7. CASE TcpInterrupted(c)
  <2>1. CASE tcpPc[c] \in {"hello", "key"} /\ UNCHANGED <<up, tcpSent>>
    <3>1. /\ tcpPc' = [tcpPc EXCEPT ![c] = "done"] /\ Hangup(c) /\ UNCHANGED <<backlog, down, up, tcpSent>>
      BY <1>7, <2>1 DEF TcpInterrupted
    <3>2. \A b \in TcpClients : /\ tcpPc'[b] = IF b = c THEN "done" ELSE tcpPc[b]
                                /\ b # c => peer'[b] = peer[b]
      BY <3>1, <1>a DEF Hangup, EndTypes
    <3>3. EndTypes'
      BY <3>1, <1>a DEF Hangup, EndTypes
    <3>4. Unread(c) => Unread(c)'
      BY <3>1, <3>2 DEF Unread
    <3>5. \A n \in TcpProcs, r \in Seq(Messages) : KeyRead(n, c, r) => KeyRead(n, c, r)'
      BY <1>e, <2>1, <3>1, <3>2 DEF KeyRead
    <3> QED BY <1>2, <2>1, <3>1, <3>2, <3>3, <3>4, <3>5
  <2>2. CASE tcpPc[c] \in {"main", "poll"} /\ Say(c, Clear("quit")) /\ tcpSent' = [tcpSent EXCEPT ![c] = Append(@, Clear("quit"))]
    BY <1>5, <1>7, <1>b, <2>2 DEF TcpInterrupted
  <2> QED BY <1>7, <2>1, <2>2 DEF TcpInterrupted
<1> QED BY <1>1, <1>3, <1>4, <1>6, <1>7 DEF TcpClientStep, TcpUser
-----------------------------------------------------------------------------
(* The next connection of the backlog is accepted; nothing of it was read.   *)
LEMMA StepAccept == ASSUME TcpIInv, NEW n \in TcpProcs, Accept(n) PROVE TcpIInv'
<1>a. EndTypes /\ ProcTypes /\ TcpForked /\ TcpStarts /\ OneUse /\ TcpInLine
  BY TcpTypeParts DEF TcpIInv
<1>1. /\ tcpRole[n] = "accept" /\ tcpRole' = [tcpRole EXCEPT ![n] = "key"] /\ backlog # <<>>
      /\ conn' = [conn EXCEPT ![n] = Head(backlog)] /\ backlog' = Tail(backlog)
      /\ UNCHANGED <<up, down, peer, tcpPc, tcpSent, tcpKey, tcpBash, tcpGot, tcpForks>>
  BY DEF Accept, RoleTo, ends, tcpClient
<1>2. PICK c : c = Head(backlog)
  OBVIOUS
<1>3. /\ c \in TcpClients /\ c = backlog[1] /\ 1 \in 1..Len(backlog) /\ Len(backlog) \in Nat
      /\ backlog' \in Seq(TcpClients) /\ Len(backlog') = Len(backlog) - 1
      /\ \A k \in 1..Len(backlog') : k + 1 \in 1..Len(backlog) /\ backlog'[k] = backlog[k + 1]
  BY <1>a, <1>1, <1>2, HeadTailProperties, EmptySeq DEF EndTypes
<1>4. \A m \in TcpProcs : /\ tcpRole'[m] = IF m = n THEN "key" ELSE tcpRole[m]
                          /\ conn'[m] = IF m = n THEN c ELSE conn[m]
  BY <1>a, <1>1, <1>2 DEF ProcTypes
<1>5. EndTypes' /\ ProcTypes'
  BY <1>a, <1>1, <1>2, <1>3 DEF EndTypes, ProcTypes
<1>6. TcpForked' /\ TcpStarts'
  <2>1. \A m \in (tcpForks + 1)..TcpMaxForks : m \in TcpProcs /\ m # n
    BY <1>a, <1>1, TcpAssumption DEF ProcTypes, TcpProcs, TcpForked
  <2>2. \A m \in 0..tcpForks : m \in TcpProcs
    BY <1>a, TcpAssumption DEF ProcTypes, TcpProcs
  <2> QED BY <2>1, <2>2, <1>a, <1>1, <1>4 DEF TcpForked, TcpStarts
<1>7. /\ \A m \in TcpProcs : Uses(m) => conn[m] # c
      /\ tcpPc[c] # "start" /\ \A k \in 1..Len(backlog') : backlog'[k] # c
  <2>1. \A k \in 1..Len(backlog') : k + 1 # 1
    BY <1>3
  <2> QED BY <1>a, <1>3, <2>1 DEF OneUse
<1>8. \A m \in TcpProcs : Uses(m)' <=> Uses(m) \/ m = n
  BY <1>1, <1>4 DEF Uses
<1>9. OneUse'
  <2>1. \A m \in TcpProcs : Uses(m)' => conn'[m] \in TcpClients /\ tcpPc[conn'[m]] # "start"
    BY <1>a, <1>3, <1>4, <1>7, <1>8 DEF OneUse
  <2>2. \A m, o \in TcpProcs : Uses(m)' /\ Uses(o)' /\ conn'[m] = conn'[o] => m = o
    BY <1>a, <1>4, <1>7, <1>8 DEF OneUse
  <2>3. \A k, l \in 1..Len(backlog') : backlog'[k] = backlog'[l] => k = l
    <3> SUFFICES ASSUME NEW k \in 1..Len(backlog'), NEW l \in 1..Len(backlog'), backlog'[k] = backlog'[l] PROVE k = l
      OBVIOUS
    <3>1. k + 1 \in 1..Len(backlog) /\ l + 1 \in 1..Len(backlog) /\ backlog[k + 1] = backlog[l + 1]
      BY <1>3
    <3>2. k + 1 = l + 1
      BY <1>a, <3>1 DEF OneUse
    <3> QED BY <3>2, <1>3
  <2>4. \A k \in 1..Len(backlog') : tcpPc[backlog'[k]] # "start" /\ \A m \in TcpProcs : Uses(m)' => conn'[m] # backlog'[k]
    BY <1>a, <1>3, <1>4, <1>7, <1>8 DEF OneUse
  <2> QED BY <2>1, <2>2, <2>3, <2>4, <1>1 DEF OneUse
<1>10. TcpInLine'
  <2>1. \A b : Unread(b)' <=> Unread(b)
    BY <1>1 DEF Unread
  <2>2. \A k \in 1..Len(backlog') : Unread(backlog[k])'
    BY <1>a, <1>1, <1>3 DEF TcpInLine, Unread
  <2>3. ASSUME NEW m \in TcpProcs
        PROVE  /\ tcpRole'[m] = "key" => Unread(conn[m])'
               /\ tcpRole'[m] \in {"answer", "fork"} => KeyRead(m, conn[m], <<>>)'
               /\ tcpRole'[m] \in Serving \cup {"ended"} => KeyRead(m, conn[m], tcpGot[m])'
    <3>1. CASE m = n
      <4>1. Unread(c) /\ conn'[m] = c /\ tcpRole'[m] = "key"
        BY <3>1, <1>a, <1>3, <1>4 DEF TcpInLine
      <4> QED BY <4>1, <1>1 DEF Unread
    <3>2. CASE m # n
      <4>1. /\ tcpRole'[m] = tcpRole[m] /\ tcpKey'[m] = tcpKey[m] /\ tcpGot'[m] = tcpGot[m] /\ conn'[m] = conn[m]
            /\ UNCHANGED <<up, tcpPc, tcpSent>>
        BY <3>2, <1>1, <1>4
      <4>2. /\ tcpRole[m] = "key" => Unread(conn[m])
            /\ tcpRole[m] \in {"answer", "fork"} => KeyRead(m, conn[m], <<>>)
            /\ tcpRole[m] \in Serving \cup {"ended"} => KeyRead(m, conn[m], tcpGot[m])
        BY <1>a DEF TcpInLine
      <4>3. tcpRole[m] = "key" => Unread(conn[m])'
        BY <4>1, <4>2 DEF Unread
      <4>4. /\ tcpRole[m] \in {"answer", "fork"} => KeyRead(m, conn[m], <<>>)'
            /\ tcpRole[m] \in Serving \cup {"ended"} => KeyRead(m, conn[m], tcpGot[m])'
        BY <4>1, <4>2 DEF KeyRead
      <4> QED BY <4>1, <4>3, <4>4
    <3> QED BY <3>1, <3>2
  <2> QED BY <2>2, <2>3 DEF TcpInLine
<1> QED BY <1>5, <1>6, <1>9, <1>10, TcpTypeParts DEF TcpIInv

(* The subprocess has the connection and the key of the process that forks.  *)
LEMMA StepFork == ASSUME TcpIInv, NEW n \in TcpProcs, ForkChild(n) PROVE TcpIInv'
<1>a. EndTypes /\ ProcTypes /\ TcpForked /\ TcpStarts /\ OneUse /\ TcpInLine
  BY TcpTypeParts DEF TcpIInv
<1>0. PICK new : new = tcpForks + 1
  OBVIOUS
<1>1. /\ tcpRole[n] = "fork" /\ new <= TcpMaxForks /\ tcpForks' = new
      /\ tcpRole' = [tcpRole EXCEPT ![n] = "accept", ![new] = "serve"]
      /\ conn' = [conn EXCEPT ![new] = conn[n], ![n] = Nobody]
      /\ tcpKey' = [tcpKey EXCEPT ![new] = tcpKey[n]]
      /\ tcpBash' = [tcpBash EXCEPT ![new] = tcpBash[n]]
      /\ UNCHANGED <<backlog, up, down, peer, tcpPc, tcpSent, tcpGot>>
  BY <1>0 DEF ForkChild, ends, tcpClient
<1>2. /\ new \in TcpProcs /\ new \in (tcpForks + 1)..TcpMaxForks /\ new \in 0..TcpMaxForks
      /\ \A m \in 0..new : m \in 0..tcpForks \/ m = new
      /\ \A m \in 0..tcpForks : m \in TcpProcs
      /\ \A m \in (new + 1)..TcpMaxForks : m \in (tcpForks + 1)..TcpMaxForks /\ m # new /\ m \in TcpProcs
  BY <1>a, <1>0, <1>1, TcpAssumption DEF ProcTypes, TcpProcs
<1>3. new # n /\ tcpGot[new] = <<>> /\ tcpRole[new] = "none"
  BY <1>a, <1>1, <1>2 DEF TcpForked
<1>4. \A m \in TcpProcs :
        /\ tcpRole'[m] = IF m = n THEN "accept" ELSE IF m = new THEN "serve" ELSE tcpRole[m]
        /\ conn'[m] = IF m = n THEN Nobody ELSE IF m = new THEN conn[n] ELSE conn[m]
        /\ tcpKey'[m] = IF m = new THEN tcpKey[n] ELSE tcpKey[m]
  BY <1>a, <1>1, <1>2, <1>3 DEF ProcTypes
<1>5. EndTypes' /\ ProcTypes'
  <2>1. tcpRole' \in [TcpProcs -> {"none", "accept", "key", "answer", "fork", "ended"} \cup Serving]
    BY <1>a, <1>1 DEF ProcTypes
  <2>2. conn' \in [TcpProcs -> TcpClients \cup {Nobody}] /\ tcpKey' \in [TcpProcs -> {"none", "K", "other"}]
    BY <1>a, <1>1 DEF ProcTypes
  <2> QED BY <2>1, <2>2, <1>a, <1>1, <1>2 DEF EndTypes, ProcTypes
<1>6. TcpForked' /\ TcpStarts'
  <2>1. \A m \in 0..new : tcpRole'[m] # "none"
    BY <1>a, <1>2, <1>4 DEF TcpForked
  <2>2. \A m \in (new + 1)..TcpMaxForks : tcpRole'[m] = "none" /\ tcpGot[m] = <<>>
    <3>1. \A m \in (new + 1)..TcpMaxForks : m # n
      BY <1>a, <1>1, <1>2 DEF TcpForked
    <3> QED BY <3>1, <1>a, <1>2, <1>4 DEF TcpForked
  <2> QED BY <2>1, <2>2, <1>a, <1>1 DEF TcpForked, TcpStarts
<1>7. Uses(n) /\ conn[n] \in TcpClients /\ \A m \in TcpProcs \ {n} : Uses(m) => conn[m] # conn[n]
  BY <1>a, <1>1 DEF OneUse, Uses
<1>8. \A m \in TcpProcs : Uses(m)' <=> (Uses(m) /\ m # n) \/ m = new
  BY <1>3, <1>4 DEF Uses
<1>9. OneUse'
  <2>1. \A m \in TcpProcs : Uses(m)' => conn'[m] \in TcpClients /\ tcpPc[conn'[m]] # "start"
    BY <1>a, <1>3, <1>4, <1>7, <1>8 DEF OneUse
  <2>2. \A m, o \in TcpProcs : Uses(m)' /\ Uses(o)' /\ conn'[m] = conn'[o] => m = o
    BY <1>a, <1>3, <1>4, <1>7, <1>8 DEF OneUse
  <2>3. /\ \A k, l \in 1..Len(backlog) : backlog[k] = backlog[l] => k = l
        /\ \A k \in 1..Len(backlog) : tcpPc[backlog[k]] # "start" /\ \A m \in TcpProcs : Uses(m)' => conn'[m] # backlog[k]
    BY <1>a, <1>3, <1>4, <1>7, <1>8 DEF OneUse
  <2> QED BY <2>1, <2>2, <2>3, <1>1 DEF OneUse
<1>10. TcpInLine'
  <2>1. \A k \in 1..Len(backlog) : Unread(backlog[k])'
    BY <1>a, <1>1 DEF TcpInLine, Unread
  <2>2. ASSUME NEW m \in TcpProcs
        PROVE  /\ tcpRole'[m] = "key" => Unread(conn[m])'
               /\ tcpRole'[m] \in {"answer", "fork"} => KeyRead(m, conn[m], <<>>)'
               /\ tcpRole'[m] \in Serving \cup {"ended"} => KeyRead(m, conn[m], tcpGot[m])'
    <3>1. CASE m = n
      BY <3>1, <1>4
    <3>2. CASE m = new
      <4>1. KeyRead(n, conn[n], <<>>)
        BY <1>a, <1>1 DEF TcpInLine
      <4>2. tcpKey'[m] = tcpKey[n] /\ conn'[m] = conn[n] /\ tcpGot'[m] = <<>> /\ tcpRole'[m] = "serve"
        BY <3>2, <1>1, <1>2, <1>3, <1>4
      <4>3. KeyRead(m, conn[m], tcpGot[m])'
        BY <4>1, <4>2, <1>1 DEF KeyRead
      <4> QED BY <4>2, <4>3
    <3>3. CASE m \notin {n, new}
      <4>1. /\ tcpRole'[m] = tcpRole[m] /\ tcpKey'[m] = tcpKey[m] /\ tcpGot'[m] = tcpGot[m] /\ conn'[m] = conn[m]
            /\ UNCHANGED <<up, tcpPc, tcpSent>>
        BY <3>3, <1>1, <1>4
      <4>2. /\ tcpRole[m] = "key" => Unread(conn[m])
            /\ tcpRole[m] \in {"answer", "fork"} => KeyRead(m, conn[m], <<>>)
            /\ tcpRole[m] \in Serving \cup {"ended"} => KeyRead(m, conn[m], tcpGot[m])
        BY <1>a DEF TcpInLine
      <4>3. tcpRole[m] = "key" => Unread(conn[m])'
        BY <4>1, <4>2 DEF Unread
      <4>4. /\ tcpRole[m] \in {"answer", "fork"} => KeyRead(m, conn[m], <<>>)'
            /\ tcpRole[m] \in Serving \cup {"ended"} => KeyRead(m, conn[m], tcpGot[m])'
        BY <4>1, <4>2 DEF KeyRead
      <4> QED BY <4>1, <4>3, <4>4
    <3> QED BY <3>1, <3>2, <3>3
  <2> QED BY <2>1, <2>2, <1>1 DEF TcpInLine
<1> QED BY <1>5, <1>6, <1>9, <1>10, TcpTypeParts DEF TcpIInv

(* The other steps of a process.                                             *)
LEMMA StepProcess ==
  ASSUME TcpIInv, NEW n \in TcpProcs, ReadKey(n) \/ WriteKey(n) \/ TcpChildStep(n)
  PROVE  TcpIInv'
<1>a. EndTypes /\ ProcTypes /\ TcpForked /\ TcpStarts /\ OneUse /\ TcpInLine
  BY TcpTypeParts DEF TcpIInv
<1>b. PICK c : c = conn[n]
  OBVIOUS
<1>c. Uses(n) /\ c \in TcpClients /\ up[c] \in Seq(Messages) /\ tcpSent[c] \in Seq(Messages) /\ tcpGot[n] \in Seq(Messages)
  <2>1. Uses(n)
    BY DEF Uses, ReadKey, WriteKey, TcpChildStep, Serve, ServeEnd, Talk, PassOn, RoleTo
  <2> QED BY <2>1, <1>a, <1>b DEF OneUse, EndTypes, ProcTypes
<1>d. up[c] # <<>> => Head(up[c]) \in Messages /\ Tail(up[c]) \in Seq(Messages)
  BY <1>c, HeadTailProperties
<1>e. /\ tcpRole[n] = "key" => Unread(c)
      /\ tcpRole[n] = "answer" => KeyRead(n, c, <<>>)
      /\ tcpRole[n] \in Serving => KeyRead(n, c, tcpGot[n])
  BY <1>a, <1>b DEF TcpInLine
<1>1. ASSUME tcpRole'[n] \notin {"none", "key"},
             tcpRole'[n] \in {"answer", "fork"} => KeyRead(n, c, <<>>)',
             tcpRole'[n] \in Serving \cup {"ended"} => KeyRead(n, c, tcpGot[n])',
             \A b \in TcpClients \ {c} : up'[b] = up[b],
             \A b \in TcpClients : peer'[b] # "open" => peer[b] # "open",
             \A m \in TcpProcs \ {n} : tcpRole'[m] = tcpRole[m] /\ tcpKey'[m] = tcpKey[m] /\ tcpGot'[m] = tcpGot[m],
             UNCHANGED <<backlog, tcpPc, tcpSent, conn, tcpForks>>, EndTypes', ProcTypes'
      PROVE  TcpIInv'
  BY <1>1, <1>b, <1>c, ProcessMoves, TcpTypeParts DEF TcpIInv
<1>t. (peer' = peer \/ Tell(c)) => /\ peer' \in [TcpClients -> {"open", "fin", "told", "reset"}]
                                   /\ \A b \in TcpClients : peer'[b] # "open" => peer[b] # "open"
  BY <1>a DEF EndTypes, Tell
<1>u. (down' = down \/ down' = [down EXCEPT ![c] = @ + 1]) => down' \in [TcpClients -> Nat]
  <2>1. down \in [TcpClients -> Nat] /\ down[c] + 1 \in Nat
    BY <1>a, <1>c DEF EndTypes
  <2> QED BY <2>1
<1>2. CASE ReadKey(n)
  <2>1. /\ tcpRole[n] = "key" /\ tcpRole' = [tcpRole EXCEPT ![n] = "answer"]
        /\ UNCHANGED <<backlog, down, peer, tcpPc, tcpSent, conn, tcpBash, tcpGot, tcpForks>>
    BY <1>2 DEF ReadKey, RoleTo, tcpClient
  <2>2. \A m \in TcpProcs : tcpRole'[m] = IF m = n THEN "answer" ELSE tcpRole[m]
    BY <1>a, <2>1 DEF ProcTypes
  <2>3. CASE up[c] # <<>> /\ up' = [up EXCEPT ![c] = Tail(@)] /\ tcpKey' = [tcpKey EXCEPT ![n] = "K"]
    <3>1. /\ up'[c] = Tail(up[c]) /\ tcpKey'[n] = "K" /\ \A b \in TcpClients \ {c} : up'[b] = up[b]
          /\ \A m \in TcpProcs \ {n} : tcpKey'[m] = tcpKey[m]
      BY <1>a, <1>c, <2>3 DEF EndTypes, ProcTypes
    <3>2. EndTypes' /\ ProcTypes'
      BY <1>a, <1>d, <2>1, <2>3 DEF EndTypes, ProcTypes
    <3>3. up[c] = <<KeyB>> \o tcpSent[c] /\ tcpPc[c] \in {"key", "main", "poll", "done"}
      BY <1>e, <2>1, <2>3 DEF Unread
    <3>4. Tail(<<KeyB>> \o tcpSent[c]) = tcpSent[c]
      <4>1. <<KeyB>> \in Seq(Messages) /\ Len(<<KeyB>>) = 1
        BY DEF Messages
      <4>2. <<KeyB>> \o tcpSent[c] # <<>>
        BY <2>3, <3>3
      <4>3. /\ Len(<<KeyB>> \o tcpSent[c]) = 1 + Len(tcpSent[c]) /\ Len(tcpSent[c]) \in Nat
            /\ \A i \in 2..(1 + Len(tcpSent[c])) : (<<KeyB>> \o tcpSent[c])[i] = tcpSent[c][i - 1]
        <5>1. Len(<<KeyB>>) + 1 = 2
          BY <4>1
        <5> QED BY <4>1, <5>1, <1>c, Together, LenProperties
      <4>4. PICK t : t = <<KeyB>> \o tcpSent[c]
        OBVIOUS
      <4>5. t \in Seq(Messages) /\ t # <<>>
        BY <3>3, <4>2, <4>4, <1>c
      <4>6. /\ Tail(t) \in Seq(Messages) /\ Len(Tail(t)) = Len(t) - 1
            /\ \A i \in 1..Len(Tail(t)) : Tail(t)[i] = t[i + 1]
        BY <4>5, HeadTailProperties
      <4>7. Len(Tail(t)) = Len(tcpSent[c])
        BY <4>3, <4>4, <4>6
      <4>8. \A i \in 1..Len(Tail(t)) : Tail(t)[i] = tcpSent[c][i]
        <5> SUFFICES ASSUME NEW i \in 1..Len(Tail(t)) PROVE Tail(t)[i] = tcpSent[c][i]
          OBVIOUS
        <5>1. i + 1 \in 2..(1 + Len(tcpSent[c])) /\ (i + 1) - 1 = i
          BY <4>3, <4>7, SMTT(30)
        <5> QED BY <5>1, <4>3, <4>4, <4>6
      <4>9. Tail(t) = tcpSent[c]
        BY <4>6, <4>7, <4>8, <1>c, SeqEqual
      <4> QED BY <4>4, <4>9
    <3>5. <<>> \o tcpSent[c] = tcpSent[c]
      BY <1>c, ConcatEmptySeq
    <3>6. KeyRead(n, c, <<>>)'
      BY <2>1, <3>1, <3>3, <3>4, <3>5 DEF KeyRead
    <3> QED BY <1>1, <1>c, <2>1, <2>2, <3>1, <3>2, <3>6
  <2>4. CASE up[c] = <<>> /\ peer[c] # "open" /\ UNCHANGED up /\ tcpKey' = [tcpKey EXCEPT ![n] = "other"]
    <3>1. tcpPc[c] = "done"
      BY <1>a, <1>c, <2>4 DEF TcpStarts
    <3>2. tcpSent[c] = <<>>
      <4>1. <<KeyB>> \in Seq(Messages) /\ <<KeyB>> # <<>>
        BY DEF Messages
      <4>2. <<KeyB>> \o tcpSent[c] # <<>>
        BY <4>1, <1>c, ConcatEqualIffEmpty
      <4> QED BY <1>e, <2>1, <2>4, <4>2 DEF Unread
    <3>3. tcpKey'[n] = "other" /\ \A m \in TcpProcs \ {n} : tcpKey'[m] = tcpKey[m]
      BY <1>a, <2>4 DEF ProcTypes
    <3>4. EndTypes' /\ ProcTypes'
      BY <1>a, <2>1, <2>4 DEF EndTypes, ProcTypes
    <3>5. KeyRead(n, c, <<>>)'
      BY <2>1, <2>4, <3>1, <3>2, <3>3 DEF KeyRead
    <3> QED BY <1>1, <2>1, <2>2, <2>4, <3>3, <3>4, <3>5
  <2> QED BY <1>2, <1>b, <2>3, <2>4 DEF ReadKey
<1>3. CASE WriteKey(n)
  <2>1. /\ tcpRole[n] = "answer" /\ tcpRole' = [tcpRole EXCEPT ![n] = "fork"]
        /\ down' = [down EXCEPT ![c] = @ + 1] /\ Tell(c)
        /\ UNCHANGED <<backlog, up, tcpPc, tcpSent, conn, tcpKey, tcpBash, tcpGot, tcpForks>>
    BY <1>3, <1>b DEF WriteKey, RoleTo, tcpClient
  <2>2. \A m \in TcpProcs : tcpRole'[m] = IF m = n THEN "fork" ELSE tcpRole[m]
    BY <1>a, <2>1 DEF ProcTypes
  <2>3. EndTypes' /\ ProcTypes'
    <3>1. EndTypes'
      BY <1>a, <1>t, <1>u, <2>1 DEF EndTypes
    <3> QED BY <3>1, <1>a, <2>1 DEF ProcTypes
  <2>4. KeyRead(n, c, <<>>)'
    BY <1>e, <2>1 DEF KeyRead
  <2> QED BY <1>1, <1>t, <2>1, <2>2, <2>3, <2>4
<1> DEFINE Goes == tcpRole' = tcpRole \/ \E r \in Serving \cup {"ended", "accept"} : tcpRole' = [tcpRole EXCEPT ![n] = r]
<1>r. ASSUME NEW from, NEW to \in Serving, Reply(n, from, to)
      PROVE  /\ Goes
             /\ peer' = peer \/ Tell(c)
             /\ down' = down \/ down' = [down EXCEPT ![c] = @ + 1]
  BY <1>r, <1>b DEF Reply, RoleTo
<1>x. ASSUME Execute(n)
      PROVE  /\ Goes
             /\ peer' = peer \/ Tell(c)
             /\ down' = down \/ down' = [down EXCEPT ![c] = @ + 1]
  <2>1. CASE Reply(n, "serve", "serve")
    BY <2>1, <1>r
  <2>2. CASE RoleTo(n, "serve", "talk") /\ UNCHANGED <<down, peer>>
    BY <2>2 DEF RoleTo
  <2> QED BY <1>x, <2>1, <2>2 DEF Execute
<1>4. ASSUME tcpRole[n] \in Serving, Goes,
             peer' = peer \/ Tell(c), down' = down \/ down' = [down EXCEPT ![c] = @ + 1],
             \/ up' = up /\ tcpGot' = tcpGot
             \/ /\ up[c] # <<>> /\ up' = [up EXCEPT ![c] = Tail(@)]
                /\ tcpGot' = [tcpGot EXCEPT ![n] = Append(@, Head(up[c]))],
             tcpBash' \in [TcpProcs -> BOOLEAN],
             UNCHANGED <<backlog, tcpPc, tcpSent, conn, tcpKey, tcpForks>>
      PROVE  TcpIInv'
  <2>1. tcpRole'[n] \in Serving \cup {"ended", "accept"} /\ \A m \in TcpProcs \ {n} : tcpRole'[m] = tcpRole[m]
    BY <1>4, <1>a DEF ProcTypes
  <2>2. EndTypes'
    <3>1. peer' \in [TcpClients -> {"open", "fin", "told", "reset"}] /\ down' \in [TcpClients -> Nat]
      BY <1>4, <1>t, <1>u
    <3>2. up' \in [TcpClients -> Seq(Messages)]
      BY <1>4, <1>a, <1>d DEF EndTypes
    <3> QED BY <1>4, <1>a, <3>1, <3>2 DEF EndTypes
  <2>3. ProcTypes'
    <3>1. tcpRole' \in [TcpProcs -> {"none", "accept", "key", "answer", "fork", "ended"} \cup Serving]
      BY <1>4, <1>a DEF ProcTypes
    <3>2. up[c] # <<>> => Append(tcpGot[n], Head(up[c])) \in Seq(Messages)
      BY <1>c, <1>d, AppendProperties
    <3>3. tcpGot' \in [TcpProcs -> Seq(Messages)]
      BY <1>4, <1>a, <3>2 DEF ProcTypes
    <3> QED BY <1>4, <1>a, <3>1, <3>3 DEF ProcTypes
  <2>4. /\ \A b \in TcpClients \ {c} : up'[b] = up[b]
        /\ \A m \in TcpProcs \ {n} : tcpGot'[m] = tcpGot[m]
    BY <1>4, <1>a DEF EndTypes, ProcTypes
  <2>5. KeyRead(n, c, tcpGot[n])'
    <3>1. KeyRead(n, c, tcpGot[n])
      BY <1>4, <1>e
    <3>2. CASE up' = up /\ tcpGot' = tcpGot
      BY <1>4, <3>1, <3>2 DEF KeyRead
    <3>3. CASE up[c] # <<>> /\ up' = [up EXCEPT ![c] = Tail(@)] /\ tcpGot' = [tcpGot EXCEPT ![n] = Append(@, Head(up[c]))]
      <4>1. up'[c] = Tail(up[c]) /\ tcpGot'[n] = Append(tcpGot[n], Head(up[c]))
        BY <3>3, <1>a, <1>c DEF EndTypes, ProcTypes
      <4>2. Append(tcpGot[n], Head(up[c])) \o Tail(up[c]) = tcpGot[n] \o up[c]
        BY <3>3, <1>c, MoveOver
      <4>3. tcpKey[n] = "K" /\ tcpPc[c] \in {"key", "main", "poll", "done"} /\ tcpGot[n] \o up[c] = tcpSent[c]
        BY <3>1, <3>3 DEF KeyRead
      <4> QED BY <1>4, <4>1, <4>2, <4>3 DEF KeyRead
    <3> QED BY <1>4, <3>2, <3>3
  <2> QED BY <1>1, <1>4, <1>t, <2>1, <2>2, <2>3, <2>4, <2>5
<1>5. CASE Serve(n)
  <2>1. /\ tcpRole[n] = "serve" /\ up[c] # <<>> /\ up' = [up EXCEPT ![c] = Tail(@)]
        /\ tcpGot' = [tcpGot EXCEPT ![n] = Append(@, Head(up[c]))]
        /\ UNCHANGED <<backlog, tcpPc, tcpSent, conn, tcpKey, tcpForks>>
    BY <1>5, <1>b DEF Serve, tcpClient
  <2>2. /\ Goes
        /\ peer' = peer \/ Tell(c)
        /\ down' = down \/ down' = [down EXCEPT ![c] = @ + 1]
        /\ tcpBash' = tcpBash \/ tcpBash' = [tcpBash EXCEPT ![n] = TRUE]
    <3>1. CASE \/ UNCHANGED <<down, peer, tcpRole>>
               \/ RoleTo(n, "serve", "ended") /\ UNCHANGED <<down, peer>>
               \/ RoleTo(n, "serve", "accept") /\ UNCHANGED <<down, peer>>
      BY <1>5, <3>1 DEF Serve, RoleTo
    <3>2. CASE Execute(n) /\ UNCHANGED tcpBash
      BY <1>x, <3>2
    <3> QED BY <1>5, <3>1, <3>2 DEF Serve
  <2>3. tcpBash' \in [TcpProcs -> BOOLEAN]
    BY <1>a, <2>2 DEF ProcTypes
  <2> QED BY <1>4, <2>1, <2>2, <2>3
<1>6. CASE ServeEnd(n)
  <2>1. tcpRole[n] = "serve" /\ UNCHANGED <<backlog, up, tcpPc, tcpSent, conn, tcpKey, tcpBash, tcpGot, tcpForks>>
    BY <1>6 DEF ServeEnd, tcpClient
  <2>2. /\ Goes
        /\ peer' = peer \/ Tell(c)
        /\ down' = down \/ down' = [down EXCEPT ![c] = @ + 1]
    <3>1. CASE RoleTo(n, "serve", "accept") /\ UNCHANGED <<down, peer>>
      BY <3>1 DEF RoleTo
    <3>2. CASE Execute(n)
      BY <1>x, <3>2
    <3> QED BY <1>6, <3>1, <3>2 DEF ServeEnd
  <2>3. tcpBash' \in [TcpProcs -> BOOLEAN]
    BY <1>a, <2>1 DEF ProcTypes
  <2> QED BY <1>4, <2>1, <2>2, <2>3
<1>7. CASE Talk(n)
  <2>1. /\ tcpRole[n] \in Serving /\ Goes
        /\ UNCHANGED <<backlog, up, down, peer, tcpPc, tcpSent, conn, tcpKey, tcpBash, tcpGot, tcpForks>>
    BY <1>7 DEF Talk, RoleTo, tcpClient, ends
  <2>2. tcpBash' \in [TcpProcs -> BOOLEAN]
    BY <1>a, <2>1 DEF ProcTypes
  <2> QED BY <1>4, <2>1, <2>2
<1>8. CASE PassOn(n)
  <2>1. tcpRole[n] \in Serving /\ UNCHANGED <<backlog, up, tcpPc, tcpSent, conn, tcpKey, tcpBash, tcpGot, tcpForks>>
    BY <1>8 DEF PassOn, tcpClient
  <2>2. Goes /\ (peer' = peer \/ Tell(c)) /\ (down' = down \/ down' = [down EXCEPT ![c] = @ + 1])
    BY <1>8, <1>r DEF PassOn
  <2>3. tcpBash' \in [TcpProcs -> BOOLEAN]
    BY <1>a, <2>1 DEF ProcTypes
  <2> QED BY <1>4, <2>1, <2>2, <2>3
<1> QED BY <1>2, <1>3, <1>5, <1>6, <1>7, <1>8 DEF TcpChildStep

(* The end of a shell changes bash_work only.                                 *)
LEMMA StepBash == ASSUME TcpIInv, NEW n \in TcpProcs, TcpBashExits(n) PROVE TcpIInv'
<1>1. UNCHANGED <<backlog, up, down, peer, tcpPc, tcpSent, tcpRole, conn, tcpKey, tcpGot, tcpForks>>
  BY DEF TcpBashExits, tcpClient, ends
<1>2. TcpTypeOK' /\ TcpForked' /\ TcpStarts'
  <2>1. tcpBash' \in [TcpProcs -> BOOLEAN]
    BY DEF TcpBashExits, TcpIInv, TcpTypeOK
  <2> QED BY <1>1, <2>1 DEF TcpIInv, TcpTypeOK, TcpForked, TcpStarts
<1>3. OneUse'
  BY <1>1 DEF TcpIInv, OneUse, Uses
<1>4. TcpInLine'
  BY <1>1 DEF TcpIInv, TcpInLine, Unread, KeyRead
<1> QED BY <1>2, <1>3, <1>4 DEF TcpIInv

(* The server begins so: nobody has connected.                                *)
LEMMA TcpInitInv == TcpInit => TcpIInv
<1> SUFFICES ASSUME TcpInit PROVE TcpIInv
  OBVIOUS
<1>0. TcpMaxForks \in Nat /\ tcpForks = 0
  BY TcpAssumption DEF TcpInit
<1>1. \A n \in TcpProcs : tcpRole[n] = (IF n = 0 THEN "accept" ELSE "none") /\ tcpGot[n] = <<>>
  BY DEF TcpInit
<1>2. TcpTypeOK
  BY <1>0 DEF TcpInit, TcpTypeOK, TcpProcs
<1>3. TcpForked
  BY <1>0, <1>1 DEF TcpForked, TcpProcs
<1>4. TcpStarts /\ backlog = <<>> /\ Len(backlog) = 0
  BY DEF TcpInit, TcpStarts
<1>5. \A n \in TcpProcs : ~ Uses(n)
  BY <1>1 DEF Uses
<1>6. OneUse
  BY <1>4, <1>5 DEF OneUse
<1>7. TcpInLine
  BY <1>4, <1>5 DEF TcpInLine, Uses
<1> QED BY <1>2, <1>3, <1>4, <1>6, <1>7 DEF TcpIInv

(* Every step over TCP keeps it.                                              *)
LEMMA TcpNextInv == TcpIInv /\ [TcpNext]_tcpVars => TcpIInv'
<1> SUFFICES ASSUME TcpIInv, [TcpNext]_tcpVars PROVE TcpIInv'
  OBVIOUS
<1>1. ASSUME NEW c \in TcpClients, TcpClientStep(c) \/ TcpUser(c) PROVE TcpIInv'
  BY <1>1, TcpStepClient
<1>2. ASSUME NEW n \in TcpProcs, TcpServerStep(n) \/ TcpChildStep(n) \/ TcpBashExits(n) PROVE TcpIInv'
  BY <1>2, StepAccept, StepFork, StepProcess, StepBash DEF TcpServerStep
<1>3. CASE UNCHANGED tcpVars
  <2>1. UNCHANGED <<backlog, up, down, peer, tcpPc, tcpSent, tcpRole, conn, tcpKey, tcpBash, tcpGot, tcpForks>>
    BY <1>3 DEF tcpVars, ends, tcpClient, tcpProc
  <2>2. TcpTypeOK' /\ TcpForked' /\ TcpStarts'
    BY <2>1 DEF TcpIInv, TcpTypeOK, TcpForked, TcpStarts
  <2>3. OneUse'
    BY <2>1 DEF TcpIInv, OneUse, Uses
  <2>4. TcpInLine'
    BY <2>1 DEF TcpIInv, TcpInLine, Unread, KeyRead
  <2> QED BY <2>2, <2>3, <2>4 DEF TcpIInv
<1> QED BY <1>1, <1>2, <1>3 DEF TcpNext

(* TcpLinesInOrder follows: what was read and what is on its way are the     *)
(* lines the client sent.                                                    *)
LEMMA TcpIInvOrder == TcpIInv => TcpLinesInOrder
<1> SUFFICES ASSUME TcpIInv, NEW n \in 1..tcpForks, tcpRole[n] \in Serving \cup {"ended"}
             PROVE  /\ IsPrefix(tcpGot[n], tcpSent[conn[n]])
                    /\ tcpKey[n] = "other" => tcpGot[n] = <<>> /\ tcpPc[conn[n]] = "done"
  BY DEF TcpLinesInOrder
<1>a. EndTypes /\ ProcTypes /\ OneUse /\ TcpInLine
  BY TcpTypeParts DEF TcpIInv
<1>1. n \in TcpProcs
  BY <1>a, TcpAssumption DEF ProcTypes, TcpProcs
<1>2. PICK c, g : c = conn[n] /\ g = tcpGot[n]
  OBVIOUS
<1>3. c \in TcpClients /\ g \in Seq(Messages) /\ up[c] \in Seq(Messages) /\ tcpSent[c] \in Seq(Messages)
  BY <1>1, <1>2, <1>a DEF OneUse, Uses, EndTypes, ProcTypes
<1>4. KeyRead(n, c, g)
  BY <1>1, <1>2, <1>a DEF TcpInLine
<1>5. tcpSent[c] = g \o up[c]
  <2>1. <<>> \o <<>> = <<>>
    BY <1>3, ConcatEmptySeq
  <2> QED BY <1>4, <2>1 DEF KeyRead
<1>6. IsPrefix(g, tcpSent[c])
  BY <1>3, <1>5, FirstIsPrefix DEF IsPrefix
<1> QED BY <1>2, <1>4, <1>6 DEF KeyRead

(* Over UDP the UDP invariants are kept, over TCP that of TCP; the other     *)
(* server's state stays as it was.                                           *)
THEOREM ModesInvariant == ModesSpec => [](mode \in {"udp", "tcp"} /\ UdpIInv /\ TcpIInv)
<1> DEFINE Both == mode \in {"udp", "tcp"} /\ UdpIInv /\ TcpIInv
<1>1. ModesInit => Both
  BY InitUdp, TcpInitInv DEF ModesInit
<1>2. Both /\ [ModesNext]_modeVars => Both'
  <2> SUFFICES ASSUME Both, [ModesNext]_modeVars PROVE Both'
    OBVIOUS
  <2>1. mode' = mode /\ [Next]_vars /\ [TcpNext]_tcpVars
    BY DEF ModesNext, ServeUdp, ServeTcp, modeVars
  <2> QED BY <2>1, NextUdp, TcpNextInv
<1> QED BY <1>1, <1>2, PTL DEF ModesSpec

(* The type invariant of both servers.                                       *)
THEOREM ModesTypes == ModesSpec => []ModesTypeOK
<1>1. mode \in {"udp", "tcp"} /\ UdpIInv /\ TcpIInv => ModesTypeOK
  BY DEF UdpIInv, TcpIInv, ModesTypeOK
<1> QED BY <1>1, ModesInvariant, PTL

(* ServedInOrder: in either mode a subprocess deciphers and reads its        *)
(* client's lines in the order they were typed, each once, from the first    *)
(* (udp.c:101, tcp.c:52).  Over UDP the network must keep what it is given.   *)
THEOREM ModesServedInOrder == Reliable => (ModesSpec => []ServedInOrder)
<1> SUFFICES ASSUME Reliable PROVE ModesSpec => []ServedInOrder
  OBVIOUS
<1>1. ModesInit => OrderIInv
  BY InitOrder DEF ModesInit
<1>2. OrderIInv /\ [ModesNext]_modeVars => OrderIInv'
  <2> SUFFICES ASSUME OrderIInv, [ModesNext]_modeVars PROVE OrderIInv'
    OBVIOUS
  <2>1. [Next]_vars
    BY DEF ModesNext, ServeUdp, ServeTcp, modeVars
  <2> QED BY <2>1, NextOrder
<1>3. OrderIInv /\ TcpIInv => ServedInOrder
  BY OrderInLine, TcpIInvOrder DEF ServedInOrder
<1>4. ModesSpec => []OrderIInv
  BY <1>1, <1>2, PTL DEF ModesSpec
<1>5. ModesSpec => []TcpIInv
  BY ModesInvariant, PTL
<1> QED BY <1>3, <1>4, <1>5, PTL
=============================================================================
