---------------------------- MODULE DaemonProofs ----------------------------
(***************************************************************************)
(* Theorems about the backup daemon, for any tree of directories and files *)
(* of any content, any number of changes and of runs of the controller.    *)
(***************************************************************************)
EXTENDS Daemon, TLAPS, SequenceTheorems

Items(s) == {s[n] : n \in 1..Len(s)}
Frames == Items(stack)
Events == Items(queue)
FrameType == [dir : Roots \cup Dirs, watched : BOOLEAN, must : SUBSET Nodes, seen : SUBSET Nodes]
CopyType == [file : Files, to : Backups, at : Nat, old : Contents \cup {Nil, Absent}]
EventType == [dir : Roots \cup Dirs, node : Nodes, what : {"create", "modify", "move"}]

(* The types, and what is behind them: the segment of a signal that can be    *)
(* delivered holds a path, and an event is one of a watched directory.        *)
Segments ==
  /\ seg["w"] \in Roots \cup {None} /\ seg["b"] \in Backups \cup {None}
  /\ dpc \in Kinds => dpc \in blocked
  /\ \A k \in Kinds : dpc = k \/ k \in pending \ blocked => seg[k] # None
  /\ \A c \in Runs : cpc[c] = "kill" =>
       cmd[c].kind \in Kinds /\ (cmd[c].kind \notin blocked => seg[cmd[c].kind] # None)
Quiet ==
  dpc \in Kinds \cup {"start"} =>
    /\ \A d \in Roots \cup Dirs : backs[d] = None
    /\ stack = <<>> /\ queue = <<>> /\ copying = NoCopy
Trees ==
  /\ seg \in [Kinds -> Roots \cup Backups \cup {None}]
  /\ path \in [Kinds -> Roots \cup Backups]
  /\ cmd \in [Runs -> Command] /\ cpc \in [Runs -> {"start", "kill", "done"}]
  /\ \A n \in exists : Parent[n] \in Roots \cup exists

(* What the daemon has in hand is in directories that it watches, which are   *)
(* below its working directory, and never in a backup that it recognises.     *)
RootOf(d) == IF d \in Roots THEN d ELSE Root[d]
Trail ==
  /\ \A e \in Events : e.dir = Parent[e.node] /\ backs[e.dir] # None /\ e.node \in exists
  /\ \A f \in Frames : /\ f.dir \in Nodes => backs[Parent[f.dir]] # None
                       /\ f.watched => backs[f.dir] # None
                       /\ ~f.watched => f.seen = {}
                       /\ ~IsBackup(f.dir) /\ RootOf(f.dir) = path["w"]
  /\ \A d \in Roots \cup Dirs : /\ backs[d] \in {None, path["b"]}
                                /\ backs[d] # None => ~IsBackup(d) /\ RootOf(d) = path["w"]
                                /\ d \in Dirs /\ backs[d] # None => backs[Parent[d]] # None
  /\ copying # NoCopy => /\ copying.file \in exists /\ copying.to = path["b"]
                         /\ backs[Parent[copying.file]] # None

DaemonTypes == TypeOK /\ Segments /\ Quiet /\ Trees /\ Trail

(* No copy is longer than its file, when files do not get shorter and no      *)
(* other is copied there; nor is a file that was replaced while it is copied. *)
Lengths == ~Shrinks =>
  /\ \A p \in Backups, f \in Files : OwnPath(f) =>
       \/ bk[p][Rel[f]] = Absent
       \/ f \in exists /\ Len(bk[p][Rel[f]]) <= Len(content[f])
  /\ copying # NoCopy /\ copying.old # Absent =>
       Len(copying.old) <= Len(content[copying.file])

(* Whatever there is in a watched directory, apart from the backup, has been  *)
(* dealt with, or the scan has yet to come to it, or an event tells of it or  *)
(* of the directory it is in.                                                 *)
Told(n) == \E e \in Events : e.node = n
Due(d) == Told(d) \/ \E f \in Frames : f.dir = d /\ ~f.watched
InScan(n) == \E f \in Frames : f.watched /\ f.dir = Parent[n] /\ n \in f.must \ f.seen
Begun(n) == bk[path["b"]][Rel[n]] # Absent /\ BeginsWith(bk[path["b"]][Rel[n]], content[n])
Copied(n) == Begun(n) \/ (copying # NoCopy /\ copying.file = n)
Covered(n) == \/ InScan(n) \/ Due(Parent[n]) \/ Due(n)
              \/ n \in Files /\ Copied(n)
              \/ n \in Dirs /\ backs[n] # None

(* What copy has written so far is the file's, or an event tells of the file. *)
SoFar(s, f) ==
  /\ copying.old = Absent /\ copying.at <= Len(content[f])
  /\ \A i \in 1..copying.at : s[i] = content[f][i]
InHand(s, f) == s # Absent /\ copying.at <= Len(s) /\ (Told(f) \/ SoFar(s, f))
Coverage ==
  /\ dpc = "run" => backs[path["w"]] # None \/ Due(path["w"])
  /\ \A n \in exists : ~IsBackup(n) /\ backs[Parent[n]] # None => Covered(n)
  /\ copying # NoCopy => InHand(bk[copying.to][Rel[copying.file]], copying.file)

Copies == Lengths /\ Coverage
-----------------------------------------------------------------------------
(* What is in a sequence when an item is added or taken away.                 *)
LEMMA ItemsEmpty == Items(<<>>) = {}
  BY DEF Items

(* One item.                                                                  *)
LEMMA ItemsOne ==
  ASSUME NEW T, NEW e \in T
  PROVE  <<e>> \in Seq(T) /\ Items(<<e>>) = {e}
  BY DEF Items

(* An item added at the end.                                                  *)
LEMMA ItemsAppend ==
  ASSUME NEW T, NEW s \in Seq(T), NEW e \in T
  PROVE  /\ Append(s, e) \in Seq(T) /\ Append(s, e) # <<>>
         /\ Items(Append(s, e)) = Items(s) \cup {e}
         /\ Items(s) \subseteq T
<1>1. /\ Append(s, e) \in Seq(T) /\ Len(Append(s, e)) = Len(s) + 1 /\ Len(s) \in Nat
      /\ Append(s, e)[Len(s) + 1] = e
      /\ \A n \in 1..Len(s) : Append(s, e)[n] = s[n] /\ s[n] \in T
  OBVIOUS
<1>2. \A n : n \in 1..(Len(s) + 1) <=> n \in 1..Len(s) \/ n = Len(s) + 1
  BY <1>1
<1> QED  BY <1>1, <1>2 DEF Items

(* The first item taken off.                                                  *)
LEMMA ItemsTail ==
  ASSUME NEW T, NEW s \in Seq(T), s # <<>>
  PROVE  /\ Tail(s) \in Seq(T) /\ Head(s) \in T
         /\ Items(s) = {Head(s)} \cup Items(Tail(s))
<1>1. /\ Tail(s) \in Seq(T) /\ Head(s) \in T /\ Len(s) \in Nat \ {0} /\ Head(s) = s[1]
      /\ Len(Tail(s)) = Len(s) - 1
      /\ \A n \in 1..(Len(s) - 1) : Tail(s)[n] = s[n + 1]
  OBVIOUS
<1>2. Items(s) \subseteq {Head(s)} \cup Items(Tail(s))
  <2> SUFFICES ASSUME NEW n \in 1..Len(s) PROVE s[n] \in {Head(s)} \cup Items(Tail(s))
    BY DEF Items
  <2>1. CASE n = 1  BY <2>1, <1>1
  <2>2. CASE n # 1
    <3>1. n - 1 \in 1..Len(Tail(s)) /\ Tail(s)[n - 1] = s[n]
      BY <2>2, <1>1
    <3> QED  BY <3>1 DEF Items
  <2> QED  BY <2>1, <2>2
<1>3. {Head(s)} \cup Items(Tail(s)) \subseteq Items(s)
  <2>1. \A n \in 1..Len(Tail(s)) : n + 1 \in 1..Len(s) /\ Tail(s)[n] = s[n + 1]
    BY <1>1
  <2>2. 1 \in 1..Len(s)
    BY <1>1
  <2> QED  BY <1>1, <2>1, <2>2 DEF Items
<1> QED  BY <1>1, <1>2, <1>3

(* The last item taken off.                                                   *)
LEMMA ItemsFront ==
  ASSUME NEW T, NEW s \in Seq(T), s # <<>>
  PROVE  /\ Front(s) \in Seq(T) /\ Last(s) \in T
         /\ Items(s) = Items(Front(s)) \cup {Last(s)}
<1>1. /\ Len(s) \in Nat \ {0} /\ s[Len(s)] \in T /\ Last(s) = s[Len(s)]
      /\ Front(s) \in Seq(T) /\ Len(Front(s)) = Len(s) - 1
      /\ \A n \in 1..(Len(s) - 1) : Front(s)[n] = s[n]
  BY DEF Front, Last
<1>2. \A n : n \in 1..Len(s) <=> n \in 1..(Len(s) - 1) \/ n = Len(s)
  BY <1>1
<1> QED  BY <1>1, <1>2 DEF Items

(* What is queued when something happens to n.                                *)
LEMMA Notified ==
  ASSUME TypeOK, NEW n \in Nodes, NEW what \in {"create", "modify", "move"}, Notify(n, what)
  PROVE  /\ queue' \in Seq(EventType) /\ Events \subseteq Events'
         /\ backs[Parent[n]] = None => queue' = queue
         /\ \A e \in Events' \ Events : e.node = n /\ e.dir = Parent[n] /\ backs[Parent[n]] # None
         /\ backs[Parent[n]] # None => Told(n)'
<1> DEFINE e == [dir |-> Parent[n], node |-> n, what |-> what]
<1>1. e \in EventType /\ e.node = n /\ e.dir = Parent[n] /\ queue \in Seq(EventType)
  BY DaemonAssumption DEF EventType, TypeOK
<1>2. queue' = IF backs[Parent[n]] = None \/ (queue # <<>> /\ Last(queue) = e) THEN queue
               ELSE Append(queue, e)
  BY DEF Notify
<1> HIDE DEF e
<1>3. CASE backs[Parent[n]] = None
  BY <1>1, <1>2, <1>3 DEF Events
<1>4. CASE backs[Parent[n]] # None /\ queue # <<>> /\ Last(queue) = e
  <2>1. queue' = queue
    BY <1>2, <1>4
  <2>2. e \in Items(queue)
    BY <1>1, <1>4, ItemsFront
  <2> QED  BY <2>1, <2>2, <1>1, <1>4 DEF Events, Told
<1>5. CASE backs[Parent[n]] # None /\ ~(queue # <<>> /\ Last(queue) = e)
  <2>1. queue' = Append(queue, e)
    BY <1>2, <1>5
  <2>2. queue' \in Seq(EventType) /\ Items(queue') = Items(queue) \cup {e}
    BY <2>1, <1>1, ItemsAppend
  <2> QED  BY <2>2, <1>1, <1>5 DEF Events, Told
<1> QED  BY <1>3, <1>4, <1>5

(* What a file holds, or lacks, is a list of numbers.                         *)
LEMMA Bytes == \A c \in Contents \cup {Nil} : c \in Seq(Nat)
<1>1. Nil \in Seq(Nat)
  BY DEF Nil
<1>2. \A c \in Contents : c \in Seq(Nat)
  BY DaemonAssumption
<1> QED  BY <1>1, <1>2

(* What files hold are sequences of bytes; no backup is a root or unset.      *)
LEMMA Basics ==
  ASSUME DaemonTypes
  PROVE  /\ \A f \in Files : content[f] \in Seq(Nat) /\ Len(content[f]) \in Nat
         /\ \A p \in Backups, f \in Files :
              /\ Rel[f] \in Paths /\ Len(bk[p][Rel[f]]) \in Nat
              /\ bk[p][Rel[f]] # Absent => bk[p][Rel[f]] \in Seq(Nat)
         /\ copying # NoCopy =>
              /\ copying \in CopyType /\ copying.file \in Files \cap exists
              /\ copying.to = path["b"] /\ copying.at \in Nat
              /\ backs[Parent[copying.file]] # None
         /\ path["w"] \in Roots /\ path["b"] \in Backups
         /\ path["b"] # None /\ path["w"] # path["b"]
         /\ stack \in Seq(FrameType) /\ Frames \subseteq FrameType
         /\ queue \in Seq(EventType) /\ Events \subseteq EventType
<1>2. \A f \in Files : content[f] \in Seq(Nat)
  BY Bytes DEF DaemonTypes, TypeOK
<1>3. ASSUME NEW p \in Backups, NEW f \in Files
      PROVE  /\ Rel[f] \in Paths /\ Len(bk[p][Rel[f]]) \in Nat
             /\ bk[p][Rel[f]] # Absent => bk[p][Rel[f]] \in Seq(Nat)
  <2>1. Rel[f] \in Paths
    BY DEF Paths
  <2>2. bk[p][Rel[f]] \in Seq(Nat) \cup {Absent}
    BY <2>1 DEF DaemonTypes, TypeOK
  <2>3. Len(Absent) = 1
    BY DEF Absent
  <2> QED  BY <2>1, <2>2, <2>3
<1>4. copying # NoCopy =>
        /\ copying \in CopyType /\ copying.file \in Files \cap exists
        /\ copying.to = path["b"] /\ copying.at \in Nat
        /\ backs[Parent[copying.file]] # None
  BY DEF DaemonTypes, TypeOK, CopyType, Trail
<1>5. /\ path["w"] \in Roots /\ path["b"] \in Backups
      /\ path["b"] # None /\ path["w"] # path["b"]
  BY DaemonAssumption DEF DaemonTypes, TypeOK, None
<1>6. /\ stack \in Seq(FrameType) /\ queue \in Seq(EventType)
  BY DEF DaemonTypes, TypeOK, FrameType, EventType
<1>7. Frames \subseteq FrameType /\ Events \subseteq EventType
  BY <1>6 DEF Frames, Events, Items
<1> QED  BY <1>2, <1>3, <1>4, <1>5, <1>6, <1>7

(* The initial states. *)
LEMMA DaemonInit == Init => DaemonTypes /\ Copies
<1> SUFFICES ASSUME Init PROVE DaemonTypes /\ Copies
  OBVIOUS
<1> USE DEF Init
<1>1. TypeOK
  <2>1. bk \in [Backups -> [Paths -> Seq(Nat) \cup {Absent}]]
    OBVIOUS
  <2>2. stack \in Seq(FrameType) /\ queue \in Seq(EventType)
    OBVIOUS
  <2>3. content \in [Files -> Contents \cup {Nil}] /\ exists \subseteq Nodes /\ edits \in 0..MaxEdits
    BY DaemonAssumption
  <2> QED  BY <2>1, <2>2, <2>3, DaemonAssumption DEF TypeOK, Kinds, FrameType, EventType
<1>2. Segments
  BY DEF Segments, Kinds
<1>3. Quiet
  BY DEF Quiet
<1>4. Trees
  BY DaemonAssumption DEF Trees, Kinds
<1>5. Trail
  BY ItemsEmpty, DaemonAssumption DEF Trail, Events, Frames
<1>6. Copies
  <2>1. \A f \in Files : Rel[f] \in Paths
    BY DEF Paths
  <2>2. Lengths
    BY <2>1 DEF Lengths
  <2>3. Coverage
    BY <1>1, DaemonAssumption DEF Coverage, TypeOK
  <2> QED  BY <2>2, <2>3 DEF Copies
<1> QED  BY <1>1, <1>2, <1>3, <1>4, <1>5, <1>6 DEF DaemonTypes

(* Something happens to n: it is made, written or moved to where it is.       *)
LEMMA StepUser ==
  ASSUME DaemonTypes, NEW n \in Nodes, NEW what \in {"create", "modify", "move"},
         Edit, Notify(n, what),
         exists \subseteq exists', exists' \subseteq Nodes, n \in exists',
         \A m \in exists' : Parent[m] \in Roots \cup exists',
         \A m \in exists' \ exists : m = n \/ Parent[m] = n,
         content' \in [Files -> Contents \cup {Nil}],
         \A f \in Files \ {n} : content'[f] = content[f],
         n \in Files \cap exists => Shrinks \/ Len(content'[n]) >= Len(content[n]),
         \/ copying' = copying
         \/ /\ copying # NoCopy /\ copying.file = n /\ copying.old = Absent
            /\ copying' = [copying EXCEPT !.old = content[n]]
  PROVE  DaemonTypes' /\ (Copies => Copies')
<1> USE DEF Edit, controllers
<1>c. /\ copying' # NoCopy <=> copying # NoCopy
      /\ copying # NoCopy =>
           /\ copying' \in CopyType /\ copying'.file = copying.file
           /\ copying'.to = copying.to /\ copying'.at = copying.at
           /\ copying'.old = copying.old \/ (copying.file = n /\ copying'.old = content[n])
  <2>1. copying # NoCopy => copying \in CopyType /\ copying.file \in Files
    BY Basics
  <2>2. n \in Files => content[n] \in Contents \cup {Nil}
    BY DEF DaemonTypes, TypeOK
  <2>3. NoCopy.file \notin Files
    BY DaemonAssumption DEF NoCopy, Files, None
  <2> QED  BY <2>1, <2>2, <2>3 DEF CopyType
<1>n. /\ queue' \in Seq(EventType) /\ Events \subseteq Events'
      /\ backs[Parent[n]] = None => queue' = queue
      /\ \A e \in Events' \ Events : e.node = n /\ e.dir = Parent[n] /\ backs[Parent[n]] # None
      /\ backs[Parent[n]] # None => Told(n)'
  BY Notified DEF DaemonTypes
<1>p. Parent[n] \in Roots \cup Dirs
  BY DaemonAssumption
<1>f. Frames' = Frames
  BY DEF Frames
<1>1. TypeOK'
  BY <1>n, <1>c, DaemonAssumption DEF DaemonTypes, TypeOK, EventType, CopyType
<1>2. Segments'
  BY DEF DaemonTypes, Segments
<1>3. Quiet'
  BY <1>n, <1>p, <1>c DEF DaemonTypes, Quiet
<1>4. Trees'
  BY DEF DaemonTypes, Trees
<1>5. Trail'
  BY <1>n, <1>f, <1>c DEF DaemonTypes, Trail, IsBackup
<1>6. ASSUME Copies PROVE Copies'
  <2>b. /\ \A f \in Files : Len(content[f]) \in Nat /\ Len(content'[f]) \in Nat
        /\ \A p \in Backups, f \in Files : Len(bk[p][Rel[f]]) \in Nat
        /\ copying # NoCopy /\ copying.old # Absent => Len(copying.old) \in Nat
    <3>1. \A f \in Files : content'[f] \in Seq(Nat)
      BY Bytes
    <3>2. copying # NoCopy /\ copying.old # Absent => copying.old \in Seq(Nat)
      BY Basics, Bytes DEF CopyType
    <3> QED  BY <3>1, <3>2, Basics
  <2>c. copying # NoCopy => copying.file \in Files \cap exists /\ backs[Parent[copying.file]] # None
    BY Basics
  <2>1. Lengths'
    <3> SUFFICES ASSUME ~Shrinks PROVE Lengths'
      BY DEF Lengths
    <3>l. \A f \in Files \cap exists : Len(content'[f]) >= Len(content[f])
      BY <2>b
    <3>1. ASSUME NEW p \in Backups, NEW f \in Files, OwnPath(f)
          PROVE  \/ bk[p][Rel[f]] = Absent
                 \/ f \in exists' /\ Len(bk[p][Rel[f]]) <= Len(content'[f])
      <4>1. \/ bk[p][Rel[f]] = Absent
            \/ f \in exists /\ Len(bk[p][Rel[f]]) <= Len(content[f])
        BY <1>6, <3>1 DEF Copies, Lengths
      <4> QED  BY <4>1, <3>l, <2>b
    <3>2. ASSUME copying # NoCopy, copying'.old # Absent
          PROVE  Len(copying'.old) <= Len(content'[copying.file])
      <4>1. copying'.old = copying.old => Len(copying.old) <= Len(content[copying.file])
        BY <1>6, <3>2 DEF Copies, Lengths
      <4> QED  BY <4>1, <3>2, <3>l, <1>c, <2>b, <2>c
    <3> QED  BY <3>1, <3>2, <1>c DEF Lengths
  <2>d. \A d : Due(d) => Due(d)'
    BY <1>n, <1>f DEF Due, Told
  <2>2. ASSUME NEW m \in exists', ~IsBackup(m), backs[Parent[m]] # None
        PROVE  Covered(m)'
    <3>1. CASE m = n
      BY <1>n, <2>2, <3>1 DEF Covered, Due
    <3>2. CASE m \notin exists /\ m # n
      <4>1. Parent[m] = n /\ n \in Dirs
        BY <3>2, <2>2, DaemonAssumption
      <4>2. backs[Parent[n]] # None
        BY <4>1, <2>2 DEF DaemonTypes, Trail
      <4> QED  BY <1>n, <4>1, <4>2 DEF Covered, Due
    <3>3. CASE m \in exists /\ m # n
      <4>1. Covered(m)
        BY <1>6, <2>2, <3>3 DEF Copies, Coverage
      <4>2. InScan(m) => InScan(m)'
        BY <1>f DEF InScan
      <4>3. m \in Files /\ Copied(m) => Copied(m)'
        BY <3>3, <1>c DEF Copied, Begun
      <4> QED  BY <4>1, <4>2, <4>3, <2>d DEF Covered
    <3> QED  BY <3>1, <3>2, <3>3
  <2>3. copying' # NoCopy => InHand(bk[copying.to][Rel[copying.file]], copying.file)'
    <3> SUFFICES ASSUME copying # NoCopy PROVE InHand(bk[copying.to][Rel[copying.file]], copying.file)'
      BY <1>c
    <3> DEFINE s == bk[copying.to][Rel[copying.file]]
    <3>0. /\ s # Absent /\ copying.at <= Len(s)
          /\ Told(copying.file) \/ SoFar(s, copying.file)
      BY <1>6 DEF Copies, Coverage, InHand
    <3>s. bk'[copying'.to][Rel[copying'.file]] = s /\ copying'.at = copying.at
      BY <1>c
    <3>1. CASE copying.file = n
      <4>1. Told(n)' /\ copying'.file = n
        BY <3>1, <2>c, <1>n, <1>c
      <4>2. Told(copying.file)' \/ SoFar(bk[copying.to][Rel[copying.file]], copying.file)'
        BY <4>1 DEF Told
      <4> QED  BY <4>2, <3>s, <3>0, <1>c DEF InHand
    <3>2. CASE copying.file # n
      <4>1. content'[copying.file] = content[copying.file] /\ copying'.old = copying.old
        BY <3>2, <2>c, <1>c
      <4>2. Told(copying.file) => Told(copying.file)'
        BY <1>n, <1>c DEF Told
      <4>4. Told(copying.file)' \/ SoFar(bk[copying.to][Rel[copying.file]], copying.file)'
        BY <4>1, <4>2, <3>s, <3>0, <1>c DEF SoFar
      <4> QED  BY <4>4, <3>s, <3>0, <1>c DEF InHand
    <3> QED  BY <3>1, <3>2
  <2>4. dpc' = "run" => backs'[path'["w"]] # None \/ Due(path["w"])'
    BY <1>6, <2>d DEF Copies, Coverage
  <2>5. \A m : IsBackup(m)' <=> IsBackup(m)
    BY DEF IsBackup
  <2> QED  BY <2>1, <2>2, <2>3, <2>4, <2>5 DEF Copies, Coverage
<1> QED  BY <1>1, <1>2, <1>3, <1>4, <1>5, <1>6 DEF DaemonTypes

(* Users. *)
LEMMA StepUsers ==
  ASSUME DaemonTypes, NEW n \in Nodes, Create(n) \/ Write(n) \/ Move(n)
  PROVE  DaemonTypes' /\ (Copies => Copies')
<1>t. /\ exists \subseteq Nodes /\ \A m \in exists : Parent[m] \in Roots \cup exists
      /\ content \in [Files -> Contents \cup {Nil}]
  BY DEF DaemonTypes, TypeOK, Trees
<1>1. CASE Create(n)
  <2>1. /\ exists' = exists \cup {n} /\ n \notin exists /\ Parent[n] \in Roots \cup exists
        /\ content' = IF n \in Files THEN [content EXCEPT ![n] = Nil] ELSE content
        /\ Edit /\ Notify(n, "create") /\ copying' = copying
    BY <1>1 DEF Create
  <2> QED  BY <1>t, <2>1, StepUser
<1>2. CASE Write(n)
  <2>1. /\ exists' = exists /\ n \in Files \cap exists
        /\ \E c \in Contents : Allowed(n, c) /\ content' = [content EXCEPT ![n] = c]
        /\ Edit /\ Notify(n, "modify") /\ copying' = copying
    BY <1>2 DEF Write
  <2>2. Shrinks \/ Len(content'[n]) >= Len(content[n])
    BY <1>t, <2>1 DEF Allowed
  <2> QED  BY <1>t, <2>1, <2>2, StepUser
<1>3. CASE Move(n)
  <2>1. /\ Parent[n] \in Roots \cup exists /\ Edit /\ Notify(n, "move")
        /\ \E S \in SUBSET {m \in Nodes : Parent[m] = n} : exists' = exists \cup {n} \cup S
        /\ \/ n \in Files /\ \E c \in Contents : Allowed(n, c) /\ content' = [content EXCEPT ![n] = c]
           \/ n \in Dirs /\ content' = content
        /\ copying' = IF copying.file = n /\ copying.old = Absent
                      THEN [copying EXCEPT !.old = content[n]] ELSE copying
    BY <1>3 DEF Move
  <2>4. copying.file = n => copying # NoCopy
    BY DaemonAssumption DEF NoCopy, None
  <2>2. /\ content' \in [Files -> Contents \cup {Nil}] /\ \A f \in Files \ {n} : content'[f] = content[f]
        /\ n \in Files \cap exists => Shrinks \/ Len(content'[n]) >= Len(content[n])
    BY <1>t, <2>1 DEF Allowed, Files
  <2>3. /\ exists \subseteq exists' /\ exists' \subseteq Nodes /\ n \in exists'
        /\ \A m \in exists' : Parent[m] \in Roots \cup exists'
        /\ \A m \in exists' \ exists : m = n \/ Parent[m] = n
    BY <1>t, <2>1
  <2>5. \/ copying' = copying
        \/ /\ copying # NoCopy /\ copying.file = n /\ copying.old = Absent
           /\ copying' = [copying EXCEPT !.old = content[n]]
    BY <2>1, <2>4
  <2> QED  BY <2>1, <2>2, <2>3, <2>5, StepUser
<1> QED  BY <1>1, <1>2, <1>3

(* The scan begins at the working directory.                                  *)
LEMMA StepStart ==
  ASSUME DaemonTypes, Start
  PROVE  DaemonTypes' /\ (Copies => Copies')
<1> USE DEF Start, fs, controllers
<1>q. /\ \A d \in Roots \cup Dirs : backs[d] = None
      /\ stack = <<>> /\ queue = <<>> /\ copying = NoCopy
  BY DEF DaemonTypes, Quiet
<1>a. /\ path["w"] \in Roots /\ path["b"] \in Backups /\ path["w"] # path["b"]
      /\ path["w"] \notin Nodes /\ ~IsBackup(path["w"])
  BY Basics, DaemonAssumption DEF IsBackup
<1>s. stack' = <<Frame(path["w"])>>
  BY <1>a DEF Entered
<1>i. stack' \in Seq(FrameType) /\ Frames' = {Frame(path["w"])}
  <2> DEFINE f == Frame(path["w"])
  <2>1. f \in FrameType /\ <<>> \in Seq(FrameType)
    BY <1>a DEF Frame, FrameType
  <2> HIDE DEF f
  <2>2. <<f>> \in Seq(FrameType) /\ Items(<<f>>) = {f}
    BY <2>1, ItemsOne
  <2> QED  BY <2>2, <1>s DEF Frames, f
<1>e. Events' = Events /\ Events = {}
  BY <1>q, ItemsEmpty DEF Events
<1>1. TypeOK'
  BY <1>i DEF DaemonTypes, TypeOK, FrameType
<1>2. Segments'
  BY DEF DaemonTypes, Segments, Kinds
<1>3. Quiet'
  BY DEF Quiet, Kinds
<1>4. Trees'
  BY DEF DaemonTypes, Trees
<1>5. Trail'
  BY <1>i, <1>e, <1>q, <1>a DEF DaemonTypes, Trail, Frame, IsBackup, RootOf
<1>6. ASSUME Copies PROVE Copies'
  <2>1. Lengths'
    BY <1>6 DEF Copies, Lengths
  <2>2. Due(path["w"])'
    BY <1>i DEF Due, Frame
  <2> QED  BY <2>1, <2>2, <1>q, DaemonAssumption DEF Copies, Coverage, DaemonTypes, TypeOK
<1> QED  BY <1>1, <1>2, <1>3, <1>4, <1>5, <1>6 DEF DaemonTypes

(* The frames when the top one gives way to another.                          *)
LEMMA TopOf ==
  ASSUME DaemonTypes, stack # <<>>
  PROVE  /\ Top \in FrameType /\ Front(stack) \in Seq(FrameType) /\ Top \in Frames
         /\ Frames = Items(Front(stack)) \cup {Top}
         /\ \A f \in FrameType : /\ Append(Front(stack), f) \in Seq(FrameType)
                                 /\ Items(Append(Front(stack), f)) = Items(Front(stack)) \cup {f}
<1>1. stack \in Seq(FrameType)
  BY Basics
<1>2. /\ Front(stack) \in Seq(FrameType) /\ Top \in FrameType
      /\ Items(stack) = Items(Front(stack)) \cup {Top}
  BY <1>1, ItemsFront DEF Top
<1> QED  BY <1>2, ItemsAppend DEF Frames

(* A directory is watched, then read: what is in it then is in must.          *)
LEMMA StepWatch ==
  ASSUME DaemonTypes, Watch
  PROVE  DaemonTypes' /\ (Copies => Copies')
<1> DEFINE d == Top.dir
           t == [Top EXCEPT !.watched = TRUE, !.must = {n \in Made(d) : Parent[n] = d}]
<1>w. /\ dpc = "run" /\ copying = NoCopy /\ stack # <<>> /\ ~Top.watched
      /\ exists' = Made(d) /\ backs' = [backs EXCEPT ![d] = path["b"]]
      /\ stack' = Append(Front(stack), t)
      /\ UNCHANGED <<content, edits, bk, dpc, path, copying, blocked, queue, pending, seg, controllers>>
  BY DEF Watch, Running
<1> USE DEF controllers
<1>a. /\ path["w"] \in Roots /\ path["b"] \in Backups /\ path["b"] # None
      /\ exists \subseteq Nodes /\ backs \in [Roots \cup Dirs -> Backups \cup {None}]
  BY Basics DEF DaemonTypes, TypeOK
<1>m. /\ exists \subseteq exists' /\ exists' \subseteq Nodes
      /\ \A n \in exists' \ exists : n = path["b"]
      /\ \A n \in exists' : Parent[n] \in Roots \cup exists'
  <2>1. \A n \in exists : Parent[n] \in Roots \cup exists
    BY DEF DaemonTypes, Trees
  <2> QED  BY <2>1, <1>w, <1>a, DaemonAssumption DEF Made
<1>t. /\ Top \in FrameType /\ t \in FrameType /\ t.dir = d /\ t.watched /\ t.seen = Top.seen
      /\ t.must = {n \in exists' : Parent[n] = d} /\ d \in Roots \cup Dirs
  <2>1. Top \in FrameType
    BY <1>w, TopOf
  <2>2. {n \in exists' : Parent[n] = d} \subseteq Nodes
    BY <1>m
  <2> QED  BY <2>1, <2>2, <1>w DEF FrameType
<1>f. /\ stack' \in Seq(FrameType) /\ Top \in Frames
      /\ Frames = Items(Front(stack)) \cup {Top} /\ Frames' = Items(Front(stack)) \cup {t}
  <2>1. stack' \in Seq(FrameType) /\ Items(stack') = Items(Front(stack)) \cup {t}
    BY <1>w, <1>t, TopOf
  <2> QED  BY <2>1, <1>w, TopOf DEF Frames
<1> HIDE DEF t
<1>e. Events' = Events
  BY <1>w DEF Events
<1>b. /\ backs'[d] = path["b"] /\ \A x \in (Roots \cup Dirs) \ {d} : backs'[x] = backs[x]
      /\ \A x \in Roots \cup Dirs : backs[x] # None => backs'[x] # None
  BY <1>w, <1>a, <1>t
<1>p. \A n \in Nodes : Parent[n] \in Roots \cup Dirs
  BY DaemonAssumption
<1>1. TypeOK'
  BY <1>w, <1>m, <1>f, <1>a, <1>t DEF DaemonTypes, TypeOK, FrameType
<1>2. Segments'
  BY <1>w DEF DaemonTypes, Segments
<1>3. Quiet'
  BY <1>w DEF Quiet, Kinds
<1>4. Trees'
  BY <1>w, <1>m DEF DaemonTypes, Trees
<1>5. Trail'
  <2>1. \A x \in Events' : x.dir = Parent[x.node] /\ backs'[x.dir] # None /\ x.node \in exists'
    <3>1. \A x \in Events : x.dir \in Roots \cup Dirs
      BY Basics DEF EventType
    <3> QED  BY <3>1, <1>e, <1>m, <1>b DEF DaemonTypes, Trail
  <2>2. \A f \in Frames' : /\ f.dir \in Nodes => backs'[Parent[f.dir]] # None
                           /\ f.watched => backs'[f.dir] # None
                           /\ ~f.watched => f.seen = {}
                           /\ ~IsBackup(f.dir) /\ RootOf(f.dir) = path["w"]
    <3>1. \A f \in Frames : f.dir \in Roots \cup Dirs
      BY Basics DEF FrameType
    <3> QED  BY <3>1, <1>f, <1>t, <1>b, <1>p, <1>a DEF DaemonTypes, Trail
  <2>3. \A x \in Roots \cup Dirs : /\ backs'[x] \in {None, path["b"]}
                                   /\ backs'[x] # None => ~IsBackup(x) /\ RootOf(x) = path["w"]
                                   /\ x \in Dirs /\ backs'[x] # None => backs'[Parent[x]] # None
    <3>1. ~IsBackup(d) /\ RootOf(d) = path["w"] /\ (d \in Nodes => backs[Parent[d]] # None)
      BY <1>f DEF DaemonTypes, Trail
    <3> QED  BY <3>1, <1>b, <1>p, DaemonAssumption DEF DaemonTypes, Trail
  <2> QED  BY <2>1, <2>2, <2>3, <1>w DEF Trail, IsBackup
<1>6. ASSUME Copies PROVE Copies'
  <2>1. Lengths'
    BY <1>6, <1>w, <1>m DEF Copies, Lengths
  <2>u. \A x : Due(x) => x = d \/ Due(x)'
    BY <1>f, <1>e DEF Due, Told
  <2>2. backs'[path["w"]] # None \/ Due(path["w"])'
    BY <2>u, <1>6, <1>w, <1>b, <1>a DEF Copies, Coverage
  <2>3. ASSUME NEW n \in exists', ~IsBackup(n), backs'[Parent[n]] # None
        PROVE  Covered(n)'
    <3>0. n \in Nodes
      BY <1>m, <2>3
    <3>1. CASE Parent[n] = d
      <4>1. t.seen = {}
        BY <1>w, <1>t, <1>f DEF DaemonTypes, Trail
      <4> QED  BY <3>1, <4>1, <1>t, <1>f, <2>3 DEF Covered, InScan
    <3>2. CASE Parent[n] # d
      <4>0. n \in exists
        <5>1. backs[Parent[n]] # None
          BY <1>b, <1>p, <2>3, <3>0, <3>2
        <5>2. RootOf(Parent[n]) = path["w"]
          BY <5>1, <1>p, <3>0 DEF DaemonTypes, Trail
        <5>3. n \notin exists => Parent[n] \in Roots /\ d = path["w"]
          BY <1>m, <1>w, <1>a, <3>0, DaemonAssumption DEF Made
        <5> QED  BY <5>2, <5>3, <3>2 DEF RootOf
      <4>1. Covered(n)
        BY <4>0, <3>0, <3>2, <1>b, <1>p, <1>6, <2>3 DEF Copies, Coverage
      <4>2. InScan(n) => InScan(n)'
        BY <1>w, <1>f DEF InScan
      <4>3. Due(Parent[n]) => Due(Parent[n])'
        BY <2>u, <3>2
      <4>4. Due(n) => Due(n)' \/ (n \in Dirs /\ backs'[n] # None)
        BY <2>u, <3>0, <1>t, <1>b, <1>a, DaemonAssumption
      <4>5. n \in Files /\ Copied(n) => Copied(n)'
        BY <1>w DEF Copied, Begun
      <4>6. n \in Dirs /\ backs[n] # None => backs'[n] # None
        BY <1>b
      <4> QED  BY <4>1, <4>2, <4>3, <4>4, <4>5, <4>6 DEF Covered
    <3> QED  BY <3>1, <3>2
  <2>4. \A m : IsBackup(m)' <=> IsBackup(m)
    BY <1>w DEF IsBackup
  <2> QED  BY <2>1, <2>2, <2>3, <2>4, <1>w DEF Copies, Coverage
<1> QED  BY <1>1, <1>2, <1>3, <1>4, <1>5, <1>6 DEF DaemonTypes

(* copy has opened a file, and what there is of its copy.                     *)
LEMMA CopyOpened ==
  ASSUME DaemonTypes, NEW n \in Files \cap exists, CopyTo(n, path["b"]), UNCHANGED <<fs, path>>
  PROVE  /\ bk' \in [Backups -> [Paths -> Seq(Nat) \cup {Absent}]]
         /\ copying' # NoCopy /\ copying' \in CopyType
         /\ copying'.file = n /\ copying'.to = path["b"]
         /\ \A m \in Files : Begun(m) => Begun(m)'
         /\ Lengths => Lengths'
         /\ InHand(bk[copying.to][Rel[copying.file]], copying.file)'
<1> USE DEF fs
<1> DEFINE b == path["b"]
           old == bk[b][Rel[n]]
           new == IF old = Absent THEN Nil ELSE old
<1>a. b \in Backups /\ Rel[n] \in Paths
  BY Basics
<1>t. /\ bk \in [Backups -> [Paths -> Seq(Nat) \cup {Absent}]]
      /\ bk' = [bk EXCEPT ![b] = [bk[b] EXCEPT ![Rel[n]] = new]]
  BY <1>a DEF DaemonTypes, TypeOK, CopyTo
<1>n. new \in Seq(Nat) /\ new # Absent /\ (old # Absent => new = old)
  <2>1. old \in Seq(Nat) \cup {Absent} /\ Nil \in Seq(Nat)
    BY <1>a, <1>t DEF Nil
  <2>2. Nil # Absent
    BY DEF Nil, Absent
  <2> QED  BY <2>1, <2>2
<1>l. old = Absent => Len(new) = 0
  BY DEF Nil
<1> HIDE DEF new
<1>b. /\ bk' \in [Backups -> [Paths -> Seq(Nat) \cup {Absent}]]
      /\ bk'[b][Rel[n]] = new
      /\ \A p \in Backups, r \in Paths : p # b \/ r # Rel[n] => bk'[p][r] = bk[p][r]
  BY <1>a, <1>t, <1>n
<1>c. /\ copying' = [file |-> n, to |-> b, at |-> 0, old |-> Absent]
      /\ copying' # NoCopy /\ copying' \in CopyType
      /\ copying'.file = n /\ copying'.to = b /\ copying'.at = 0 /\ copying'.old = Absent
  <2>1. n # None
    BY DaemonAssumption DEF Files, None
  <2>2. copying' = [file |-> n, to |-> b, at |-> 0, old |-> Absent]
    BY DEF CopyTo
  <2> QED  BY <1>a, <2>1, <2>2 DEF NoCopy, CopyType
<1>1. ASSUME NEW m \in Files, Begun(m) PROVE Begun(m)'
  <2>1. Rel[m] \in Paths /\ bk[b][Rel[m]] # Absent
    BY <1>1 DEF Paths, Begun
  <2>2. bk'[b][Rel[m]] = bk[b][Rel[m]]
    BY <2>1, <1>a, <1>b, <1>n
  <2> QED  BY <2>2, <1>1 DEF Begun
<1>2. ASSUME Lengths PROVE Lengths'
  <2>1. ASSUME ~Shrinks, NEW p \in Backups, NEW f \in Files, OwnPath(f)
        PROVE  \/ bk'[p][Rel[f]] = Absent
               \/ f \in exists /\ Len(bk'[p][Rel[f]]) <= Len(content[f])
    <3>0. /\ Rel[f] \in Paths
          /\ bk[p][Rel[f]] = Absent \/ (f \in exists /\ Len(bk[p][Rel[f]]) <= Len(content[f]))
      BY <2>1, <1>2 DEF Lengths, Paths
    <3>1. CASE p = b /\ Rel[f] = Rel[n]
      <4>1. f = n /\ bk'[p][Rel[f]] = new
        BY <2>1, <3>1, <1>b DEF OwnPath
      <4>2. Len(content[n]) \in Nat
        BY Basics
      <4> QED  BY <3>0, <3>1, <4>1, <4>2, <1>n, <1>l
    <3>2. CASE p # b \/ Rel[f] # Rel[n]
      BY <3>0, <3>2, <1>b
    <3> QED  BY <3>1, <3>2
  <2> QED  BY <2>1, <1>c DEF Lengths
<1>3. Len(new) \in Nat /\ Len(content[n]) \in Nat
  BY <1>n, Basics
<1>4. InHand(bk[copying.to][Rel[copying.file]], copying.file)'
  BY <1>3, <1>b, <1>c, <1>n DEF InHand, SoFar
<1> QED  BY <1>1, <1>2, <1>4, <1>b, <1>c

(* An entry of the directory on top is read.                                  *)
LEMMA StepReadEntry ==
  ASSUME DaemonTypes, ReadEntry
  PROVE  DaemonTypes' /\ (Copies => Copies')
<1> USE DEF fs, controllers
<1>1. PICK n \in Children(Top.dir) \ Top.seen :
        LET s == Append(Front(stack), [Top EXCEPT !.seen = @ \cup {n}])
        IN \/ n \in Dirs /\ stack' = Entered(s, n) /\ UNCHANGED <<copying, bk>>
           \/ n \in Files /\ stack' = s /\ CopyTo(n, path["b"])
  BY DEF ReadEntry
<1> DEFINE t == [Top EXCEPT !.seen = @ \cup {n}]
           s == Append(Front(stack), t)
<1>w. /\ dpc = "run" /\ copying = NoCopy /\ stack # <<>> /\ Top.watched
      /\ UNCHANGED <<fs, dpc, path, backs, blocked, queue, pending, seg, controllers>>
  BY DEF ReadEntry, Running
<1>n. n \in exists /\ n \in Nodes /\ Parent[n] = Top.dir
  BY DEF Children, DaemonTypes, TypeOK
<1>a. path["w"] \in Roots /\ path["b"] \in Backups /\ path["b"] # None
  BY Basics
<1>t. /\ Top \in FrameType /\ t \in FrameType /\ t.dir = Top.dir /\ t.watched
      /\ t.must = Top.must /\ t.seen = Top.seen \cup {n}
  <2>1. Top \in FrameType
    BY <1>w, TopOf
  <2> QED  BY <2>1, <1>w, <1>n DEF FrameType
<1>s. /\ s \in Seq(FrameType) /\ Items(s) = Items(Front(stack)) \cup {t}
      /\ Frames = Items(Front(stack)) \cup {Top} /\ Top \in Frames
  BY <1>w, <1>t, TopOf
<1>b. Top.dir \in Roots \cup Dirs /\ backs[Top.dir] # None
  BY <1>w, <1>s, <1>t DEF FrameType, DaemonTypes, Trail
<1>e. Events' = Events
  BY <1>w DEF Events
<1>c. \/ n \in Dirs /\ IsBackup(n) /\ stack' = s /\ UNCHANGED <<copying, bk>>
      \/ n \in Dirs /\ ~IsBackup(n) /\ stack' = Append(s, Frame(n)) /\ UNCHANGED <<copying, bk>>
      \/ n \in Files /\ stack' = s /\ CopyTo(n, path["b"])
  BY <1>1 DEF Entered
<1> HIDE DEF s, t
<1>f. /\ stack' \in Seq(FrameType)
      /\ \/ /\ Frames' = Items(Front(stack)) \cup {t}
            /\ \/ n \in Dirs /\ IsBackup(n) /\ UNCHANGED <<copying, bk>>
               \/ n \in Files /\ CopyTo(n, path["b"])
         \/ /\ Frames' = Items(Front(stack)) \cup {t, Frame(n)}
            /\ n \in Dirs /\ ~IsBackup(n) /\ UNCHANGED <<copying, bk>>
  <2>1. CASE n \in Dirs /\ ~IsBackup(n) /\ stack' = Append(s, Frame(n)) /\ UNCHANGED <<copying, bk>>
    <3> DEFINE f == Frame(n)
    <3>1. f \in FrameType
      BY <2>1 DEF Frame, FrameType
    <3> HIDE DEF f
    <3>2. Append(s, f) \in Seq(FrameType) /\ Items(Append(s, f)) = Items(s) \cup {f}
      BY <3>1, <1>s, ItemsAppend
    <3> QED  BY <3>2, <2>1, <1>s DEF f, Frames
  <2>2. CASE /\ stack' = s
             /\ \/ n \in Dirs /\ IsBackup(n) /\ UNCHANGED <<copying, bk>>
                \/ n \in Files /\ CopyTo(n, path["b"])
    BY <2>2, <1>s DEF Frames
  <2> QED  BY <1>c, <2>1, <2>2
<1>k. /\ bk' \in [Backups -> [Paths -> Seq(Nat) \cup {Absent}]]
      /\ \A m \in Files : Begun(m) => Begun(m)'
      /\ Lengths => Lengths'
      /\ \/ n \in Dirs /\ UNCHANGED <<copying, bk>>
         \/ /\ n \in Files /\ copying'.file = n /\ copying'.to = path["b"]
            /\ copying' # NoCopy /\ copying' \in CopyType
            /\ InHand(bk[copying.to][Rel[copying.file]], copying.file)'
  <2>1. CASE n \in Files /\ CopyTo(n, path["b"])
    BY <2>1, <1>n, <1>w, CopyOpened
  <2>2. CASE n \in Dirs /\ UNCHANGED <<copying, bk>>
    BY <2>2, <1>w DEF DaemonTypes, TypeOK, Begun, Lengths
  <2> QED  BY <2>1, <2>2, <1>f
<1>2. TypeOK'
  BY <1>w, <1>f, <1>k, <1>a DEF DaemonTypes, TypeOK, FrameType, CopyType
<1>3. Segments'
  BY <1>w DEF DaemonTypes, Segments
<1>4. Quiet'
  BY <1>w DEF Quiet, Kinds
<1>5. Trees'
  BY <1>w DEF DaemonTypes, Trees
<1>6. Trail'
  <2>1. \A f \in Frames' : \/ f \in Frames \/ f = t \/ (f = Frame(n) /\ ~IsBackup(n) /\ n \in Dirs)
    BY <1>f, <1>s
  <2>2. /\ ~IsBackup(t.dir) /\ RootOf(t.dir) = path["w"]
        /\ t.dir \in Nodes => backs[Parent[t.dir]] # None
    BY <1>s, <1>t DEF DaemonTypes, Trail
  <2>3. RootOf(n) = path["w"]
    BY <2>2, <1>t, <1>n, DaemonAssumption DEF RootOf
  <2>4. \A f \in Frames' : /\ f.dir \in Nodes => backs'[Parent[f.dir]] # None
                           /\ f.watched => backs'[f.dir] # None
                           /\ ~f.watched => f.seen = {}
                           /\ ~IsBackup(f.dir) /\ RootOf(f.dir) = path["w"]
    BY <2>1, <2>2, <2>3, <1>w, <1>b, <1>t, <1>n DEF DaemonTypes, Trail, Frame
  <2>5. \A x : IsBackup(x)' <=> IsBackup(x)
    BY <1>w DEF IsBackup
  <2> QED  BY <2>4, <2>5, <1>w, <1>b, <1>e, <1>k, <1>n DEF DaemonTypes, Trail
<1>7. ASSUME Copies PROVE Copies'
  <2>1. Lengths'
    BY <1>7, <1>k DEF Copies
  <2>u. \A x : Due(x) => Due(x)'
    BY <1>f, <1>s, <1>w, <1>e DEF Due, Told
  <2>2. backs[path["w"]] # None \/ Due(path["w"])'
    BY <2>u, <1>7, <1>w DEF Copies, Coverage
  <2>3. ASSUME NEW m \in exists, ~IsBackup(m), backs[Parent[m]] # None
        PROVE  Covered(m)'
    <3>1. CASE m = n
      <4>1. CASE n \in Dirs
        <5>1. Frame(n) \in Frames'
          BY <3>1, <4>1, <2>3, <1>f DEF Files
        <5> QED  BY <5>1, <3>1 DEF Covered, Due, Frame
      <4>2. CASE n \in Files
        BY <3>1, <4>2, <2>3, <1>k, <1>f DEF Covered, Copied, Files
      <4> QED  BY <4>1, <4>2, <1>n DEF Files
    <3>2. CASE m # n
      <4>1. Covered(m)
        BY <1>7, <2>3 DEF Copies, Coverage
      <4>2. InScan(m) => InScan(m)'
        BY <3>2, <1>f, <1>s, <1>t DEF InScan
      <4>3. m \in Files /\ Copied(m) => Copied(m)'
        BY <1>w, <1>k DEF Copied
      <4> QED  BY <4>1, <4>2, <4>3, <2>u, <1>w DEF Covered
    <3> QED  BY <3>1, <3>2
  <2>4. \A x : IsBackup(x)' <=> IsBackup(x)
    BY <1>w DEF IsBackup
  <2>5. copying' # NoCopy => InHand(bk[copying.to][Rel[copying.file]], copying.file)'
    BY <1>k, <1>w
  <2> QED  BY <2>1, <2>2, <2>3, <2>4, <2>5, <1>w DEF Copies, Coverage
<1> QED  BY <1>2, <1>3, <1>4, <1>5, <1>6, <1>7 DEF DaemonTypes

(* monitor_directory returns: it has seen what was there when it began.       *)
LEMMA StepReturn ==
  ASSUME DaemonTypes, Return
  PROVE  DaemonTypes' /\ (Copies => Copies')
<1> USE DEF fs, controllers
<1>w. /\ dpc = "run" /\ copying = NoCopy /\ stack # <<>> /\ Top.watched /\ Top.must \subseteq Top.seen
      /\ stack' = Front(stack)
      /\ UNCHANGED <<fs, bk, dpc, path, backs, copying, blocked, queue, pending, seg, controllers>>
  BY DEF Return, Running
<1>f. /\ stack' \in Seq(FrameType) /\ Frames = Frames' \cup {Top}
  BY <1>w, TopOf DEF Frames
<1>e. Events' = Events
  BY <1>w DEF Events
<1>1. TypeOK'
  BY <1>w, <1>f DEF DaemonTypes, TypeOK, FrameType
<1>2. Segments'
  BY <1>w DEF DaemonTypes, Segments
<1>3. Quiet'
  BY <1>w DEF Quiet, Kinds
<1>4. Trees'
  BY <1>w DEF DaemonTypes, Trees
<1>5. Trail'
  BY <1>w, <1>f, <1>e DEF DaemonTypes, Trail, IsBackup
<1>6. ASSUME Copies PROVE Copies'
  <2>1. Lengths'
    BY <1>w, <1>6 DEF Copies, Lengths
  <2>2. \A x : (Due(x) => Due(x)') /\ (IsBackup(x)' <=> IsBackup(x))
    BY <1>w, <1>f, <1>e DEF Due, Told, IsBackup
  <2>3. \A x : InScan(x) => InScan(x)'
    BY <1>w, <1>f DEF InScan
  <2>4. \A x : Copied(x) => Copied(x)'
    BY <1>w DEF Copied, Begun
  <2>5. \A x : Covered(x) => Covered(x)'
    BY <1>w, <2>2, <2>3, <2>4 DEF Covered
  <2> QED  BY <2>1, <2>2, <2>5, <1>w, <1>6 DEF Copies, Coverage
<1> QED  BY <1>1, <1>2, <1>3, <1>4, <1>5, <1>6 DEF DaemonTypes

(* An event is read, and the file or directory it names is seen to.           *)
LEMMA StepHandleEvent ==
  ASSUME DaemonTypes, HandleEvent
  PROVE  DaemonTypes' /\ (Copies => Copies')
<1> USE DEF fs, controllers
<1>0. PICK e : e = Head(queue)
  OBVIOUS
<1> DEFINE n == e.node
<1>w. /\ dpc = "run" /\ copying = NoCopy /\ stack = <<>> /\ queue # <<>> /\ queue' = Tail(queue)
      /\ UNCHANGED <<fs, dpc, path, backs, blocked, pending, seg, controllers>>
  BY DEF HandleEvent, Running
<1>a. /\ path["w"] \in Roots /\ path["b"] \in Backups /\ path["b"] # None
      /\ queue \in Seq(EventType)
  BY Basics
<1>q. queue' \in Seq(EventType) /\ e \in EventType /\ Events = {e} \cup Events'
  BY <1>0, <1>w, <1>a, ItemsTail DEF Events
<1>n. /\ n \in exists /\ n \in Nodes /\ e.dir = Parent[n] /\ backs[e.dir] = path["b"]
      /\ e.dir \in Roots \cup Dirs
  BY <1>q DEF EventType, DaemonTypes, Trail
<1>c. \/ IsBackup(n) /\ stack' = <<>> /\ UNCHANGED <<copying, bk>>
      \/ n \in Dirs /\ ~IsBackup(n) /\ stack' = <<Frame(n)>> /\ UNCHANGED <<copying, bk>>
      \/ n \in Files /\ stack' = <<>> /\ CopyTo(n, path["b"])
  BY <1>0, <1>w, <1>n DEF HandleEvent, Entered
<1>f. /\ stack' \in Seq(FrameType) /\ Frames = {}
      /\ \/ IsBackup(n) /\ Frames' = {} /\ UNCHANGED <<copying, bk>>
         \/ n \in Dirs /\ ~IsBackup(n) /\ Frames' = {Frame(n)} /\ UNCHANGED <<copying, bk>>
         \/ n \in Files /\ Frames' = {} /\ CopyTo(n, path["b"])
  <2>1. n \in Dirs => Frame(n) \in FrameType
    BY DEF Frame, FrameType
  <2>2. n \in Dirs => <<Frame(n)>> \in Seq(FrameType) /\ Items(<<Frame(n)>>) = {Frame(n)}
    BY <2>1, ItemsOne
  <2>3. <<>> \in Seq(FrameType)
    OBVIOUS
  <2> QED  BY <2>2, <2>3, <1>c, <1>w, ItemsEmpty DEF Frames
<1>k. /\ bk' \in [Backups -> [Paths -> Seq(Nat) \cup {Absent}]]
      /\ \A m \in Files : Begun(m) => Begun(m)'
      /\ Lengths => Lengths'
      /\ \/ n \in Dirs /\ UNCHANGED <<copying, bk>>
         \/ /\ n \in Files /\ copying'.file = n /\ copying'.to = path["b"]
            /\ copying' # NoCopy /\ copying' \in CopyType
            /\ InHand(bk[copying.to][Rel[copying.file]], copying.file)'
  <2>1. CASE n \in Files /\ CopyTo(n, path["b"])
    BY <2>1, <1>n, <1>w, CopyOpened
  <2>2. CASE n \in Dirs /\ UNCHANGED <<copying, bk>>
    BY <2>2, <1>w DEF DaemonTypes, TypeOK, Begun, Lengths
  <2>3. IsBackup(n) => n \in Dirs
    BY <1>n, <1>a, DaemonAssumption DEF IsBackup
  <2> QED  BY <2>1, <2>2, <2>3, <1>f
<1>1. TypeOK'
  BY <1>w, <1>f, <1>k, <1>a, <1>q DEF DaemonTypes, TypeOK, FrameType, EventType, CopyType
<1>2. Segments'
  BY <1>w DEF DaemonTypes, Segments
<1>3. Quiet'
  BY <1>w DEF Quiet, Kinds
<1>4. Trees'
  BY <1>w DEF DaemonTypes, Trees
<1>5. Trail'
  <2>1. RootOf(n) = path["w"]
    <3>1. RootOf(Parent[n]) = path["w"]
      BY <1>n, <1>a DEF DaemonTypes, Trail
    <3> QED  BY <3>1, <1>n, DaemonAssumption DEF RootOf
  <2>2. \A x : IsBackup(x)' <=> IsBackup(x)
    BY <1>w DEF IsBackup
  <2> QED  BY <2>1, <2>2, <1>w, <1>f, <1>q, <1>k, <1>n, <1>a DEF DaemonTypes, Trail, Frame
<1>6. ASSUME Copies PROVE Copies'
  <2>1. Lengths'
    BY <1>6, <1>k DEF Copies
  <2>u. \A x : Due(x) => Due(x)' \/ x = n
    BY <1>f, <1>q DEF Due, Told
  <2>v. n \in Dirs /\ ~IsBackup(n) => Due(n)'
    <3>1. n \in Dirs /\ ~IsBackup(n) => Frame(n) \in Frames'
      BY <1>f DEF Files
    <3>2. Frame(n).dir = n /\ ~Frame(n).watched
      BY DEF Frame
    <3> QED  BY <3>1, <3>2 DEF Due
  <2>r. n \notin Roots
    BY <1>n, DaemonAssumption
  <2>2. backs[path["w"]] # None \/ Due(path["w"])'
    BY <2>u, <2>r, <1>6, <1>w, <1>a DEF Copies, Coverage
  <2>3. ASSUME NEW m \in exists, ~IsBackup(m), backs[Parent[m]] # None
        PROVE  Covered(m)'
    <3>1. Covered(m) /\ m \in Nodes /\ Parent[m] \in Roots \cup Dirs
      BY <1>6, <2>3, DaemonAssumption DEF Copies, Coverage, DaemonTypes, TypeOK
    <3>2. ~InScan(m)
      BY <1>f DEF InScan
    <3>3. Due(Parent[m]) => Due(Parent[m])'
      <4>1. ~IsBackup(Parent[m])
        BY <2>3, <3>1 DEF DaemonTypes, Trail
      <4> QED  BY <4>1, <2>u, <2>v, <2>r, <3>1
    <3>4. Due(m) => Covered(m)'
      <4>1. CASE m # n
        BY <4>1, <2>u DEF Covered
      <4>2. CASE m = n /\ n \in Dirs
        BY <4>2, <2>v, <2>3 DEF Covered
      <4>3. CASE m = n /\ n \in Files
        BY <4>3, <2>3, <1>k DEF Covered, Copied, Files
      <4> QED  BY <4>1, <4>2, <4>3, <1>n DEF Files
    <3>5. m \in Files /\ Copied(m) => Copied(m)'
      BY <1>w, <1>k DEF Copied
    <3> QED  BY <3>1, <3>2, <3>3, <3>4, <3>5, <1>w DEF Covered
  <2>4. \A x : IsBackup(x)' <=> IsBackup(x)
    BY <1>w DEF IsBackup
  <2>5. copying' # NoCopy => InHand(bk[copying.to][Rel[copying.file]], copying.file)'
    BY <1>k, <1>w
  <2> QED  BY <2>1, <2>2, <2>3, <2>4, <2>5, <1>w DEF Copies, Coverage
<1> QED  BY <1>1, <1>2, <1>3, <1>4, <1>5, <1>6 DEF DaemonTypes

(* A byte is put into a sequence, or right behind it.                         *)
LEMMA PutByte ==
  ASSUME NEW s \in Seq(Nat), NEW n \in Nat, n <= Len(s), NEW x \in Nat
  PROVE  LET r == Put(s, n + 1, x)
         IN /\ r \in Seq(Nat)
            /\ Len(r) = IF Len(s) < n + 1 THEN n + 1 ELSE Len(s)
            /\ r[n + 1] = x /\ \A i \in 1..n : r[i] = s[i]
<1> DEFINE l == IF Len(s) < n + 1 THEN n + 1 ELSE Len(s)
           r == [j \in 1..l |-> IF j = n + 1 THEN x ELSE s[j]]
<1>1. l \in Nat /\ n + 1 \in 1..l /\ 1..n \subseteq 1..l /\ Len(s) \in Nat
      /\ \A j \in 1..l : j # n + 1 => j \in 1..Len(s)
  OBVIOUS
<1> HIDE DEF l
<1>2. \A j \in 1..l : (IF j = n + 1 THEN x ELSE s[j]) \in Nat
  BY <1>1
<1>3. r \in [1..l -> Nat]
  BY <1>2
<1>4. r \in Seq(Nat) /\ Len(r) = l
  BY <1>1, <1>3, IsASeq, LenProperties
<1>5. r[n + 1] = x /\ \A i \in 1..n : r[i] = s[i]
  BY <1>1
<1> QED  BY <1>4, <1>5 DEF Put, l

(* Bytes of a file are not a copy that is absent.                             *)
LEMMA NotAbsent == \A s \in Seq(Nat) : s # Absent
<1> SUFFICES ASSUME NEW s \in Seq(Nat), s = Absent PROVE FALSE
  OBVIOUS
<1>1. Len(s) = 1 /\ s[1] = -1
  BY DEF Absent
<1>2. s[1] \in Nat
  BY <1>1
<1> QED  BY <1>1, <1>2

(* What copy does not touch: the types and relations of the rest.             *)
LEMMA CopyKeeps ==
  ASSUME DaemonTypes, dpc = "run",
         bk' \in [Backups -> [Paths -> Seq(Nat) \cup {Absent}]],
         \/ copying' = NoCopy
         \/ /\ copying # NoCopy /\ copying' \in CopyType
            /\ copying'.file = copying.file /\ copying'.to = copying.to,
         UNCHANGED <<fs, dpc, path, backs, stack, blocked, queue, pending, seg, controllers>>
  PROVE  DaemonTypes'
<1> USE DEF fs, controllers
<1>e. Events' = Events /\ Frames' = Frames
  BY DEF Events, Frames
<1>1. TypeOK'
  BY DEF DaemonTypes, TypeOK, CopyType
<1>2. Segments'
  BY DEF DaemonTypes, Segments
<1>3. Quiet'
  BY DEF Quiet, Kinds
<1>4. Trees'
  BY DEF DaemonTypes, Trees
<1>5. Trail'
  BY <1>e DEF DaemonTypes, Trail, IsBackup
<1> QED  BY <1>1, <1>2, <1>3, <1>4, <1>5 DEF DaemonTypes

(* A byte is copied: it may be put where another file with the same path was, *)
(* but none that is in the working directory.                                 *)
LEMMA ByteCopied ==
  ASSUME DaemonTypes, Copies, CopyByte, copying.at < Len(Source)
  PROVE  DaemonTypes' /\ Copies'
<1> DEFINE f == copying.file
           b == path["b"]
           at == copying.at
           old == bk[b][Rel[f]]
           x == Source[at + 1]
           new == Put(old, at + 1, x)
<1>a. /\ copying # NoCopy /\ copying \in CopyType /\ f \in Files \cap exists /\ f \in Nodes
      /\ copying.to = b /\ at \in Nat /\ backs[Parent[f]] # None
      /\ b \in Backups /\ Rel[f] \in Paths /\ old \in Seq(Nat) \cup {Absent}
      /\ Len(old) \in Nat /\ content[f] \in Seq(Nat) /\ Len(content[f]) \in Nat
  <2>1. copying # NoCopy
    BY DEF CopyByte
  <2> QED  BY <2>1, Basics DEF Files
<1>s. Source \in Seq(Nat) /\ Len(Source) \in Nat /\ x \in Nat
  <2>1. copying.old # Absent => copying.old \in Seq(Nat)
    BY <1>a, Bytes DEF CopyType
  <2>2. Source \in Seq(Nat)
    BY <2>1, <1>a DEF Source
  <2> QED  BY <2>2, <1>a
<1>w. /\ dpc = "run"
      /\ bk' = [bk EXCEPT ![b] = [bk[b] EXCEPT ![Rel[f]] = new]]
      /\ copying' = [copying EXCEPT !.at = at + 1]
      /\ UNCHANGED <<fs, dpc, path, backs, stack, blocked, queue, pending, seg, controllers>>
  BY <1>a, <1>s DEF CopyByte
<1>h. InHand(old, f)
  BY <1>a DEF Copies, Coverage
<1>o. old \in Seq(Nat) /\ old # Absent /\ at <= Len(old)
  BY <1>h, <1>a DEF InHand
<1>n. /\ new \in Seq(Nat) /\ new # Absent
      /\ Len(new) = IF Len(old) < at + 1 THEN at + 1 ELSE Len(old)
      /\ new[at + 1] = x /\ \A i \in 1..at : new[i] = old[i]
  <2>1. old \in Seq(Nat) /\ at \in Nat /\ at <= Len(old) /\ x \in Nat
    BY <1>o, <1>a, <1>s
  <2> HIDE DEF old, at, x
  <2> QED  BY <2>1, PutByte, NotAbsent
<1>c. /\ copying' # NoCopy /\ copying' \in CopyType /\ copying'.file = f /\ copying'.to = b
      /\ copying'.at = at + 1 /\ copying'.old = copying.old
  <2>1. f # None
    BY <1>a, DaemonAssumption DEF None
  <2>2. /\ copying' \in CopyType /\ copying'.file = f /\ copying'.to = b
        /\ copying'.at = at + 1 /\ copying'.old = copying.old
    <3>1. /\ copying \in CopyType /\ copying.to = b /\ at + 1 \in Nat
          /\ copying' = [copying EXCEPT !.at = at + 1]
      BY <1>w, <1>a
    <3> HIDE DEF old, x, new, at
    <3> QED  BY <3>1 DEF CopyType
  <2> QED  BY <2>1, <2>2 DEF NoCopy
<1> HIDE DEF new, x
<1>b. /\ bk' \in [Backups -> [Paths -> Seq(Nat) \cup {Absent}]]
      /\ bk'[b][Rel[f]] = new
      /\ \A p \in Backups, r \in Paths : p # b \/ r # Rel[f] => bk'[p][r] = bk[p][r]
  <2>1. bk \in [Backups -> [Paths -> Seq(Nat) \cup {Absent}]]
    BY DEF DaemonTypes, TypeOK
  <2> QED  BY <2>1, <1>w, <1>a, <1>n
<1>1. DaemonTypes'
  BY <1>a, <1>b, <1>c, <1>w, CopyKeeps
<1> USE DEF fs
<1>2. Lengths'
  <2> SUFFICES ASSUME ~Shrinks PROVE Lengths'
    BY DEF Lengths
  <2>1. ASSUME NEW p \in Backups, NEW g \in Files, OwnPath(g)
        PROVE  \/ bk'[p][Rel[g]] = Absent
               \/ g \in exists /\ Len(bk'[p][Rel[g]]) <= Len(content[g])
    <3>0. /\ Rel[g] \in Paths
          /\ bk[p][Rel[g]] = Absent \/ (g \in exists /\ Len(bk[p][Rel[g]]) <= Len(content[g]))
      BY <2>1 DEF Copies, Lengths, Paths
    <3>1. CASE p = b /\ Rel[g] = Rel[f]
      <4>1. g = f
        BY <2>1, <3>1, <1>a DEF OwnPath
      <4>2. at + 1 <= Len(content[f])
        <5>1. Len(Source) <= Len(content[f])
          BY <1>a DEF Source, Copies, Lengths
        <5> QED  BY <5>1, <1>a, <1>s
      <4> QED  BY <3>0, <3>1, <4>1, <4>2, <1>n, <1>o, <1>b, <1>a
    <3>2. CASE p # b \/ Rel[g] # Rel[f]
      BY <3>0, <3>2, <1>b
    <3> QED  BY <3>1, <3>2
  <2> QED  BY <2>1, <1>a, <1>c, <1>w DEF Copies, Lengths
<1>3. InHand(bk[copying.to][Rel[copying.file]], copying.file)'
  <2>1. bk'[copying'.to][Rel[copying'.file]] = new /\ copying'.at <= Len(new)
    BY <1>b, <1>c, <1>n, <1>a
  <2>2. Told(f) => Told(f)'
    BY <1>w DEF Told, Events
  <2>3. ASSUME SoFar(old, f)
        PROVE  SoFar(bk[copying.to][Rel[copying.file]], copying.file)'
    <3>1. Source = content[f]
      BY <2>3 DEF SoFar, Source
    <3>2. at + 1 <= Len(content[f])
      BY <3>1, <1>a
    <3>3. ASSUME NEW i \in 1..(at + 1) PROVE new[i] = content[f][i]
      <4>1. i \in 1..at \/ i = at + 1
        BY <1>a
      <4>2. i \in 1..at => new[i] = content[f][i]
        BY <2>3, <1>n DEF SoFar
      <4>3. new[at + 1] = content[f][at + 1]
        BY <1>n, <3>1 DEF x
      <4> QED  BY <4>1, <4>2, <4>3
    <3>4. content' = content /\ copying.old = Absent
      BY <2>3, <1>w DEF SoFar
    <3> QED  BY <3>2, <3>3, <3>4, <2>1, <1>c DEF SoFar
  <2> QED  BY <2>1, <2>2, <2>3, <1>h, <1>n, <1>c, <1>b DEF InHand
<1>4. ASSUME NEW m \in exists, ~IsBackup(m), backs[Parent[m]] # None
      PROVE  Covered(m)'
  <2>1. Covered(m)
    BY <1>4 DEF Copies, Coverage
  <2>2. \A z : (Due(z) => Due(z)') /\ (InScan(z) => InScan(z)')
    BY <1>w DEF Due, Told, InScan, Events, Frames
  <2>3. ASSUME m \in Files, Copied(m) PROVE Copied(m)'
    <3>1. CASE m = f
      BY <3>1, <1>c DEF Copied
    <3>2. CASE m # f
      <4>1. Parent[m] \in Roots \cup Dirs /\ Parent[f] \in Roots \cup Dirs /\ m \in Nodes
        BY <2>3, <1>a, DaemonAssumption DEF Files
      <4>2. Root[m] = path["w"] /\ Root[f] = path["w"]
        <5>1. RootOf(Parent[m]) = path["w"] /\ RootOf(Parent[f]) = path["w"]
          BY <4>1, <1>4, <1>a DEF DaemonTypes, Trail
        <5> QED  BY <5>1, <4>1, <1>a, DaemonAssumption DEF RootOf
      <4>3. Rel[m] # Rel[f]
        BY <4>2, <3>2, <2>3, <1>a, DaemonAssumption DEF Files
      <4>4. Begun(m)
        BY <2>3, <3>2 DEF Copied
      <4>5. bk'[b][Rel[m]] = bk[b][Rel[m]]
        BY <4>3, <2>3, <1>a, <1>b DEF Paths
      <4> QED  BY <4>4, <4>5, <1>w DEF Copied, Begun
    <3> QED  BY <3>1, <3>2
  <2> QED  BY <2>1, <2>2, <2>3, <1>w DEF Covered
<1>5. dpc = "run" => backs[path["w"]] # None \/ Due(path["w"])'
  BY <1>w DEF Copies, Coverage, Due, Told, Events, Frames
<1>6. \A m : IsBackup(m)' <=> IsBackup(m)
  BY <1>w DEF IsBackup
<1> QED  BY <1>1, <1>2, <1>3, <1>4, <1>5, <1>6, <1>w DEF Copies, Coverage

(* There are no more bytes: the copy begins with the file, unless an event    *)
(* tells that the file has changed since it was opened.                       *)
LEMMA CopyEnds ==
  ASSUME DaemonTypes, CopyByte, ~(copying.at < Len(Source))
  PROVE  DaemonTypes' /\ (Copies => Copies')
<1> DEFINE f == copying.file
           s == bk[path["b"]][Rel[f]]
<1>a. /\ copying # NoCopy /\ copying \in CopyType /\ f \in Files \cap exists
      /\ copying.to = path["b"] /\ copying.at \in Nat /\ backs[Parent[f]] # None
      /\ Len(content[f]) \in Nat
  <2>1. copying # NoCopy
    BY DEF CopyByte
  <2> QED  BY <2>1, Basics
<1>w. /\ dpc = "run" /\ copying' = NoCopy /\ bk' = bk
      /\ UNCHANGED <<fs, dpc, path, backs, stack, blocked, queue, pending, seg, controllers>>
  BY DEF CopyByte
<1>1. DaemonTypes'
  <2>1. bk' \in [Backups -> [Paths -> Seq(Nat) \cup {Absent}]]
    BY <1>w DEF DaemonTypes, TypeOK
  <2> QED  BY <2>1, <1>w, CopyKeeps
<1> USE DEF fs
<1>2. ASSUME Copies PROVE Copies'
  <2>1. Lengths'
    BY <1>2, <1>w DEF Copies, Lengths
  <2>2. InHand(s, f)
    BY <1>2, <1>a DEF Copies, Coverage
  <2>3. Begun(f) \/ Told(f)
    <3> SUFFICES ASSUME SoFar(s, f) PROVE Begun(f)
      BY <2>2 DEF InHand
    <3>1. Source = content[f] /\ copying.at = Len(content[f])
      BY <1>a DEF SoFar, Source
    <3>2. s # Absent /\ Len(s) >= Len(content[f]) /\ \A i \in 1..Len(content[f]) : s[i] = content[f][i]
      <4>1. Len(s) \in Nat
        BY <1>a, Basics
      <4> QED  BY <4>1, <2>2, <3>1, <1>a DEF InHand, SoFar
    <3> QED  BY <3>2 DEF Begun, BeginsWith
  <2>4. \A z : (Due(z) => Due(z)') /\ (InScan(z) => InScan(z)') /\ (Begun(z) => Begun(z)')
    BY <1>w DEF Due, Told, InScan, Events, Frames, Begun
  <2>5. ASSUME NEW m \in exists, ~IsBackup(m), backs[Parent[m]] # None
        PROVE  Covered(m)'
    <3>1. Covered(m)
      BY <1>2, <2>5 DEF Copies, Coverage
    <3>2. m \in Files /\ Copied(m) => Copied(m)' \/ Due(m)
      BY <2>3, <2>4 DEF Copied, Due
    <3> QED  BY <3>1, <3>2, <2>4, <1>w DEF Covered
  <2>6. dpc = "run" => backs[path["w"]] # None \/ Due(path["w"])'
    BY <1>2, <2>4, <1>w DEF Copies, Coverage
  <2>7. \A m : IsBackup(m)' <=> IsBackup(m)
    BY <1>w DEF IsBackup
  <2> QED  BY <2>1, <2>5, <2>6, <2>7, <1>w DEF Copies, Coverage
<1> QED  BY <1>1, <1>2

(* copy writes a byte or ends.                                                *)
LEMMA StepCopyByte ==
  ASSUME DaemonTypes, Copies, CopyByte
  PROVE  DaemonTypes' /\ Copies'
BY ByteCopied, CopyEnds

(* A handler runs: what was watched, queued and under way is dropped.         *)
LEMMA StepInterrupt ==
  ASSUME DaemonTypes, NEW k \in Kinds, Interrupt(k)
  PROVE  DaemonTypes' /\ (Copies => Copies')
<1> USE DEF Interrupt, fs, controllers
<1>e. Events' = {} /\ Frames' = {}
  BY ItemsEmpty DEF Events, Frames
<1>b. backs' \in [Roots \cup Dirs -> Backups \cup {None}] /\ \A d \in Roots \cup Dirs : backs'[d] = None
  OBVIOUS
<1>1. TypeOK'
  <2>1. /\ stack' \in Seq(FrameType) /\ queue' \in Seq(EventType)
        /\ blocked' \subseteq Kinds /\ pending' \subseteq Kinds \cup {"k"} /\ dpc' \in Kinds
    BY DEF DaemonTypes, TypeOK
  <2> QED  BY <2>1, <1>b DEF DaemonTypes, TypeOK, FrameType, EventType
<1>2. Segments'
  BY DEF DaemonTypes, Segments
<1>3. Quiet'
  BY DEF Quiet
<1>4. Trees'
  BY DEF DaemonTypes, Trees
<1>5. Trail'
  BY <1>e, <1>b DEF Trail
<1>6. ASSUME Copies PROVE Copies'
  <2>1. \A n \in Nodes : backs'[Parent[n]] = None
    BY <1>b, DaemonAssumption
  <2>2. exists \subseteq Nodes
    BY DEF DaemonTypes, TypeOK
  <2> QED  BY <2>1, <2>2, <1>6 DEF Copies, Lengths, Coverage, Kinds
<1> QED  BY <1>1, <1>2, <1>3, <1>4, <1>5, <1>6 DEF DaemonTypes

(* The handler takes over the path and starts over.                           *)
LEMMA StepTakePath ==
  ASSUME DaemonTypes, NEW k \in Kinds, TakePath(k)
  PROVE  DaemonTypes' /\ (Copies => Copies')
<1> USE DEF TakePath, fs, controllers
<1>q. /\ \A d \in Roots \cup Dirs : backs[d] = None
      /\ stack = <<>> /\ queue = <<>> /\ copying = NoCopy
  BY DEF DaemonTypes, Quiet
<1>s. /\ seg[k] # None /\ k \in blocked /\ (k = "w" \/ k = "b")
      /\ k = "w" => seg[k] \in Roots
      /\ k = "b" => seg[k] \in Backups
  BY DEF DaemonTypes, Segments, Kinds
<1>p. /\ path' \in [Kinds -> Roots \cup Backups]
      /\ path'["w"] \in Roots /\ path'["b"] \in Backups
      /\ seg' \in [Kinds -> Roots \cup Backups \cup {None}]
      /\ seg'["w"] \in Roots \cup {None} /\ seg'["b"] \in Backups \cup {None}
      /\ seg'[k] = None /\ \A j \in Kinds \ {k} : seg'[j] = seg[j]
  BY <1>s DEF DaemonTypes, TypeOK, Trees, Segments, Kinds
<1>e. Events' = {} /\ Frames' = {}
  BY <1>q, ItemsEmpty DEF Events, Frames
<1>1. TypeOK'
  BY <1>p DEF DaemonTypes, TypeOK
<1>2. Segments'
  <2>1. dpc' \notin Kinds
    BY DEF Kinds
  <2> QED  BY <2>1, <1>p, <1>s DEF DaemonTypes, Segments
<1>3. Quiet'
  BY <1>q DEF Quiet
<1>4. Trees'
  BY <1>p DEF DaemonTypes, Trees
<1>5. Trail'
  BY <1>e, <1>q DEF Trail
<1>6. ASSUME Copies PROVE Copies'
  <2>1. \A n \in Nodes : backs'[Parent[n]] = None
    BY <1>q, DaemonAssumption
  <2>2. exists \subseteq Nodes
    BY DEF DaemonTypes, TypeOK
  <2> QED  BY <2>1, <2>2, <1>q, <1>6 DEF Copies, Lengths, Coverage
<1> QED  BY <1>1, <1>2, <1>3, <1>4, <1>5, <1>6 DEF DaemonTypes

(* Nothing is seen of a daemon that is not, or of the controllers, in what it *)
(* has in hand.                                                               *)
LEMMA SameInHand ==
  ASSUME UNCHANGED <<fs, bk, path, backs, stack, copying, queue>>,
         dpc' = "dead" \/ dpc' = dpc
  PROVE  /\ Quiet => Quiet'
         /\ Trail => Trail'
         /\ Copies => Copies'
<1> USE DEF fs
<1>1. Events' = Events /\ Frames' = Frames
  BY DEF Events, Frames
<1>2. Quiet => Quiet'
  BY DEF Quiet, Kinds
<1>3. Trail => Trail'
  BY <1>1 DEF Trail, IsBackup
<1>4. /\ \A x : (Due(x) => Due(x)') /\ (InScan(x) => InScan(x)') /\ (Copied(x) => Copied(x)')
      /\ \A x : (Told(x) => Told(x)') /\ (IsBackup(x)' <=> IsBackup(x))
  BY <1>1 DEF Due, Told, InScan, Copied, Begun, IsBackup
<1>5. \A x : Covered(x) => Covered(x)'
  BY <1>4 DEF Covered
<1>6. Lengths => Lengths'
  BY DEF Lengths
<1>7. Coverage => Coverage'
  BY <1>4, <1>5 DEF Coverage, InHand, SoFar
<1> QED  BY <1>2, <1>3, <1>6, <1>7 DEF Copies

(* The daemon is stopped; a run of the controller; nothing.                   *)
LEMMA StepOthers ==
  ASSUME DaemonTypes, KillAll \/ (\E c \in Runs : ConWrite(c) \/ ConKill(c)) \/ UNCHANGED vars
  PROVE  DaemonTypes' /\ (Copies => Copies')
<1>1. CASE KillAll
  <2> USE <1>1 DEF KillAll, controllers
  <2>1. TypeOK' /\ Trees'
    BY DEF DaemonTypes, TypeOK, Trees, fs
  <2>2. Segments'
    BY DEF DaemonTypes, Segments, Kinds
  <2> QED  BY <2>1, <2>2, SameInHand DEF DaemonTypes
<1>2. ASSUME NEW c \in Runs, ConWrite(c) PROVE DaemonTypes' /\ (Copies => Copies')
  <2> USE <1>2 DEF ConWrite, ConGo, daemon
  <2>c. /\ cmd[c] \in Command /\ cmd[c].kind \in Kinds
        /\ cmd[c].kind = "w" => cmd[c].path \in Roots
        /\ cmd[c].kind = "b" => cmd[c].path \in Backups
        /\ cmd[c].path # None
    BY DaemonAssumption DEF DaemonTypes, Trees, Command, None
  <2>s. /\ seg' \in [Kinds -> Roots \cup Backups \cup {None}]
        /\ seg'[cmd[c].kind] = cmd[c].path
        /\ \A k \in Kinds \ {cmd[c].kind} : seg'[k] = seg[k]
    <3>1. cmd[c].path \in Roots \cup Backups
      BY <2>c DEF Kinds
    <3> QED  BY <2>c, <3>1 DEF DaemonTypes, Trees
  <2>1. TypeOK'
    BY <2>s DEF DaemonTypes, TypeOK, fs
  <2>2. Trees'
    BY <2>s DEF DaemonTypes, Trees, fs
  <2>3. Segments'
    BY <2>c, <2>s DEF DaemonTypes, Segments, Trees, Kinds
  <2> QED  BY <2>1, <2>2, <2>3, SameInHand DEF DaemonTypes
<1>3. ASSUME NEW c \in Runs, ConKill(c) PROVE DaemonTypes' /\ (Copies => Copies')
  <2> USE <1>3 DEF ConKill, ConGo, daemon
  <2>c. cmd[c].kind \in Kinds \cup {"k"}
    BY DEF DaemonTypes, Trees, Command, Kinds
  <2>1. TypeOK' /\ Trees'
    BY <2>c DEF DaemonTypes, TypeOK, Trees, fs
  <2>2. Segments'
    BY <2>c DEF DaemonTypes, Segments, Trees, Kinds
  <2> QED  BY <2>1, <2>2, SameInHand DEF DaemonTypes
<1>4. CASE UNCHANGED vars
  <2> USE <1>4 DEF vars, daemon, controllers
  <2>1. TypeOK' /\ Trees'
    BY DEF DaemonTypes, TypeOK, Trees, fs
  <2>2. Segments'
    BY DEF DaemonTypes, Segments
  <2> QED  BY <2>1, <2>2, SameInHand DEF DaemonTypes
<1> QED  BY <1>1, <1>2, <1>3, <1>4

(* Every step. *)
LEMMA DaemonNext ==
  ASSUME DaemonTypes, Copies, [Next]_vars
  PROVE  DaemonTypes' /\ Copies'
<1>1. CASE User
  BY <1>1, StepUsers DEF User
<1>2. CASE \E k \in Kinds : Interrupt(k)
  BY <1>2, StepInterrupt
<1>3. CASE KillAll \/ (\E c \in Runs : ConWrite(c) \/ ConKill(c)) \/ UNCHANGED vars
  BY <1>3, StepOthers
<1>4. CASE Step
  BY <1>4, StepStart, StepWatch, StepReadEntry, StepReturn, StepHandleEvent, StepCopyByte, StepTakePath
  DEF Step
<1> QED  BY <1>1, <1>2, <1>3, <1>4 DEF Next, Signal

(* Paths, watches, events and the segments of the controllers keep their      *)
(* types and their relations: no signal finds a segment without a path, every *)
(* event and every frame is of a directory with a watched parent.  All there  *)
(* is in a watched directory is copied or will be, and what copy has written  *)
(* is the file's, or an event tells of the file.                              *)
THEOREM DaemonInvariant == Spec => [](DaemonTypes /\ Copies)
<1>1. Init => DaemonTypes /\ Copies
  BY DaemonInit
<1>2. (DaemonTypes /\ Copies) /\ [Next]_vars => (DaemonTypes /\ Copies)'
  BY DaemonNext
<1> QED  BY <1>1, <1>2, PTL DEF Spec

(* The variables keep their types: path_argv1 and path_argv2 always name a    *)
(* directory, whatever the controllers ask and in which order, and a copy is  *)
(* never taken further than the file it has open.                             *)
THEOREM DaemonKeepsTypes == Spec => []TypeOK
<1>1. DaemonTypes => TypeOK
  BY DEF DaemonTypes
<1> QED  BY DaemonInvariant, <1>1, PTL

(* The daemon never watches the directory it copies to, wherever users put it *)
(* and however it is changed, if it is spelled as the daemon comes to spell   *)
(* it (monitor_directory and monitor_events, main.c:266 and 178).             *)
THEOREM DaemonSparesBackup == Spec => []BackupNotWatched
<1>1. DaemonTypes => BackupNotWatched
  <2> SUFFICES ASSUME DaemonTypes PROVE BackupNotWatched
    OBVIOUS
  <2>1. ASSUME Recognised, path["b"] \in Dirs, backs[path["b"]] # None PROVE FALSE
    <3>1. path["b"] \in Backups \cap Nodes /\ path["b"] \notin Roots
      BY <2>1, Basics, DaemonAssumption
    <3>2. Parent[path["b"]] \in Roots
      BY <3>1, DaemonAssumption
    <3>3. ~IsBackup(path["b"]) /\ RootOf(path["b"]) = path["w"]
      BY <2>1 DEF DaemonTypes, Trail
    <3>4. Parent[path["b"]] = path["w"]
      BY <3>1, <3>2, <3>3, DaemonAssumption DEF RootOf
    <3> QED  BY <2>1, <3>1, <3>3, <3>4 DEF Recognised, IsBackup
  <2>2. \A d \in Roots \cup Dirs : backs[d] \in {None, path["b"]} \/ dpc = "start"
    BY DEF DaemonTypes, Trail
  <2> QED  BY <2>1, <2>2 DEF BackupNotWatched
<1> QED  BY DaemonInvariant, <1>1, PTL

(* The directories that a file is in contain its parent and their parents.    *)
LEMMA AboveIsClosed ==
  ASSUME NEW n \in Nodes
  PROVE  ClosedUp(Above(n), n) /\ Above(n) \subseteq Roots \cup Dirs
<1>1. \A m \in Nodes : Parent[m] \in Roots \cup Dirs
  BY DaemonAssumption
<1>2. Parent[n] \in Above(n)
  BY <1>1 DEF Above, ClosedUp
<1>3. \A m \in Above(n) \cap Nodes : Parent[m] \in Above(n)
  BY <1>1 DEF Above, ClosedUp
<1> QED  BY <1>2, <1>3 DEF Above, ClosedUp

(* When nothing is in hand, the working directory is watched, so that every   *)
(* directory below it is unless it is in the backup: the unwatched ones above *)
(* a file would be a closed set without the working directory.                *)
LEMMA IdleIsWatched ==
  ASSUME DaemonTypes, Copies, Idle, NEW f \in ToBackUp
  PROVE  backs[Parent[f]] # None
<1> USE DEF Idle
<1>e. Events = {} /\ Frames = {}
  BY ItemsEmpty DEF Events, Frames
<1>c. /\ \A x : ~Due(x) /\ ~InScan(x)
      /\ backs[path["w"]] # None
      /\ \A n \in exists : ~IsBackup(n) /\ backs[Parent[n]] # None => Covered(n)
  BY <1>e DEF Due, Told, InScan, Copies, Coverage
<1>f. /\ f \in Files /\ f \in Nodes /\ f \in exists
      /\ path["w"] \in Above(f) /\ path["b"] \notin Above(f)
  BY DEF ToBackUp, Files
<1>a. ClosedUp(Above(f), f) /\ Above(f) \subseteq Roots \cup Dirs
  BY <1>f, AboveIsClosed
<1>t. /\ exists \subseteq Nodes /\ \A n \in exists : Parent[n] \in Roots \cup exists
      /\ \A n \in Nodes : Parent[n] \in Roots \cup Dirs
      /\ Roots \cap Nodes = {} /\ Dirs \subseteq Nodes
  BY DaemonAssumption DEF DaemonTypes, TypeOK, Trees
<1> DEFINE E == (Roots \cup exists) \cap (Roots \cup Dirs)
           U == {x \in Above(f) : backs[x] = None}
<1>1. Above(f) \subseteq E
  <2>1. ClosedUp(E, f)
    BY <1>f, <1>t DEF ClosedUp
  <2> QED  BY <2>1 DEF Above
<1>2. SUFFICES ASSUME backs[Parent[f]] = None PROVE FALSE
  OBVIOUS
<1>3. ClosedUp(U, f)
  <2>1. Parent[f] \in U
    BY <1>2, <1>a DEF ClosedUp
  <2>2. ASSUME NEW m \in U \cap Nodes PROVE Parent[m] \in U
    <3>1. Parent[m] \in Above(f)
      BY <1>a DEF ClosedUp
    <3>2. m \in exists /\ ~IsBackup(m) /\ m \in Dirs /\ backs[m] = None
      BY <1>1, <1>f, <1>t, <1>a DEF IsBackup
    <3>3. backs[Parent[m]] = None
      BY <3>2, <1>c DEF Covered, Files
    <3> QED  BY <3>1, <3>3
  <2> QED  BY <2>1, <2>2 DEF ClosedUp
<1>4. path["w"] \in U
  <2>1. U \subseteq Roots \cup Dirs
    BY <1>a
  <2> QED  BY <2>1, <1>3, <1>f DEF Above
<1> QED  BY <1>4, <1>c

(* When the daemon has nothing to do, every file below the working directory  *)
(* that is not in the backup has a copy that begins with all it holds,        *)
(* whatever users made, extended, cut, overwrote or replaced while it scanned *)
(* or copied, and wherever a handler broke in (monitor_directory,             *)
(* monitor_events and copy, main.c:263, 152 and 71).  The copy ends there too *)
(* if files do not get shorter and no other file has that path.               *)
THEOREM DaemonBacksUp == Spec => []IdleMeansBackedUp
<1>1. DaemonTypes /\ Copies => IdleMeansBackedUp
  <2> SUFFICES ASSUME DaemonTypes, Copies, Idle, NEW f \in ToBackUp
               PROVE  HasCopy(f)
    BY DEF IdleMeansBackedUp, BackedUp
  <2> USE DEF Idle
  <2> DEFINE s == bk[path["b"]][Rel[f]]
  <2>1. backs[Parent[f]] # None
    BY IdleIsWatched
  <2>2. f \in exists /\ f \in Files /\ path["b"] \in Backups /\ ~IsBackup(f)
    BY Basics, DaemonAssumption DEF ToBackUp, Files, IsBackup
  <2>3. Covered(f)
    BY <2>1, <2>2 DEF Copies, Coverage
  <2>4. \A x : ~Due(x) /\ ~InScan(x)
    BY ItemsEmpty DEF Due, Told, InScan, Events, Frames
  <2>5. Begun(f)
    BY <2>2, <2>3, <2>4 DEF Covered, Copied, Files
  <2>6. ASSUME ~Shrinks, OwnPath(f) PROVE s = content[f]
    <3>1. Len(s) <= Len(content[f])
      BY <2>5, <2>6, <2>2 DEF Copies, Lengths, Begun
    <3>2. s \in Seq(Nat) /\ content[f] \in Seq(Nat) /\ Len(s) \in Nat /\ Len(content[f]) \in Nat
      BY <2>2, <2>5, Basics DEF Begun
    <3>3. Len(s) >= Len(content[f]) /\ \A i \in 1..Len(content[f]) : s[i] = content[f][i]
      BY <2>5 DEF Begun, BeginsWith
    <3> HIDE DEF s
    <3>4. Len(s) = Len(content[f])
      BY <3>1, <3>2, <3>3
    <3> QED  BY <3>2, <3>3, <3>4, SeqEqual
  <2> QED  BY <2>5, <2>6 DEF HasCopy, Begun
<1> QED  BY <1>1, DaemonInvariant, PTL
=============================================================================
