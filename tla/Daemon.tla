------------------------------- MODULE Daemon -------------------------------
(***************************************************************************)
(* daemon: main.c backs up a working directory, as inotify reports what    *)
(* changes in it; controller.c changes its directories by way of shared    *)
(* memory and signals.  A handler calls monitor_events, which does not     *)
(* return, so its signal stays blocked and what it interrupted is dropped. *)
(***************************************************************************)
EXTENDS Integers, Sequences, FiniteSets, SequencesExt

CONSTANTS Roots, Backups, \* directories that may be backed up; that may hold a backup
          Nodes, Dirs,    \* what may come to exist below the roots; those that are directories
          Parent, Root,   \* the directory each node is in; the root it is below
          Rel,            \* the path of each file from its root, which its copy has in the backup
          Alike,          \* the root and the backup below it that are spelled alike
          Contents,       \* what files may hold: sequences of bytes
          Shrinks,        \* whether a file may get shorter
          MaxEdits,       \* bound: changes by the users
          Work0, Backup0, \* argv[1] and argv[2]
          Runs, Cmds      \* the runs of controller.c; what they may be asked, together

Kinds == {"b", "w"}
Command == [kind : {"w", "k"}, path : Roots] \cup [kind : {"b"}, path : Backups]
ASSUME DaemonAssumption ==
  /\ Dirs \subseteq Nodes /\ Parent \in [Nodes -> Roots \cup Dirs]
  /\ \A n \in Nodes : Root[n] = IF Parent[n] \in Roots THEN Parent[n] ELSE Root[Parent[n]]
  /\ \A f, g \in Nodes \ Dirs : f # g /\ Rel[f] = Rel[g] => Root[f] # Root[g]
  /\ Roots \cap (Nodes \cup Backups) = {} /\ Backups \cap Nodes \subseteq Dirs
  /\ \A p \in Backups \cap Nodes : Parent[p] \in Roots
  /\ \A c \in Contents : c \in Seq(Nat)
  /\ Shrinks \in BOOLEAN /\ MaxEdits \in Nat
  /\ Work0 \in Roots /\ Backup0 \in Backups /\ Cmds \subseteq [Runs -> Command]
  /\ "none" \notin Roots \cup Backups \cup Nodes

VARIABLES
  exists, content,     \* the nodes that exist; what the files hold
  edits,               \* changes by users so far
  bk,                  \* bk[p][r]: the copy at path r in backup p
  dpc,                 \* the daemon: "start", "run", "dead", or the handler that runs
  path,                \* path["w"], path["b"]: path_argv1, path_argv2
  backs,               \* backs[d]: where the watched directory d is copied to
  queue,               \* the events of the inotify instance
  stack,               \* the calls of monitor_directory that have not returned
  copying,             \* the file that copy is at, and how many bytes it has copied
  blocked, pending,    \* signals
  seg,                 \* seg[k]: the path in the shared segment of kind k
  cmd, cpc, asked      \* controllers: the command, where they are; the path last printed

fs == <<exists, content, edits>>
daemon == <<dpc, path, backs, stack, copying, blocked>>
controllers == <<cmd, cpc, asked>>
vars == <<fs, bk, daemon, queue, pending, seg, controllers>>

Files == Nodes \ Dirs
Paths == {Rel[f] : f \in Files}
None == "none"
Nil == <<>>
Absent == <<-1>>
NoCopy == [file |-> None, to |-> None, at |-> 0, old |-> Absent]
Frame(d) == [dir |-> d, watched |-> FALSE, must |-> {}, seen |-> {}]
Children(d) == {n \in exists : Parent[n] = d}

Init == /\ exists \in {S \in SUBSET Nodes : \A n \in S : Parent[n] \in Roots \cup S}
        /\ content \in {c \in [Files -> Contents \cup {Nil}] :
                          \A f \in Files : IF f \in exists THEN c[f] \in Contents ELSE c[f] = Nil}
        /\ edits = 0 /\ bk = [p \in Backups |-> [r \in Paths |-> Absent]]
        /\ dpc = "start" /\ path = [k \in Kinds |-> IF k = "w" THEN Work0 ELSE Backup0]
        /\ backs = [d \in Roots \cup Dirs |-> None] /\ queue = <<>>
        /\ stack = <<>> /\ copying = NoCopy /\ blocked = {} /\ pending = {}
        /\ seg = [k \in Kinds |-> None]
        /\ cmd \in Cmds /\ cpc = [c \in Runs |-> "start"] /\ asked = [k \in Kinds |-> None]
-----------------------------------------------------------------------------
(* The users, and inotify: an event like the last one queued is not repeated.  *)
Notify(n, what) ==
  LET e == [dir |-> Parent[n], node |-> n, what |-> what]
  IN queue' = IF backs[Parent[n]] = None \/ (queue # <<>> /\ Last(queue) = e) THEN queue
              ELSE Append(queue, e)
Edit == /\ edits < MaxEdits /\ edits' = edits + 1
        /\ UNCHANGED <<bk, dpc, path, backs, stack, blocked, pending, seg, controllers>>
Allowed(f, c) == Shrinks \/ f \notin exists \/ Len(c) >= Len(content[f])

Create(n) ==
  /\ Edit /\ n \notin exists /\ Parent[n] \in Roots \cup exists
  /\ exists' = exists \cup {n}
  /\ content' = IF n \in Files THEN [content EXCEPT ![n] = Nil] ELSE content
  /\ Notify(n, "create") /\ UNCHANGED copying

Write(f) ==
  /\ Edit /\ f \in Files \cap exists
  /\ \E c \in Contents : Allowed(f, c) /\ content' = [content EXCEPT ![f] = c]
  /\ Notify(f, "modify") /\ UNCHANGED <<exists, copying>>

(* A file or a directory with some of its children is moved to n; a copy that  *)
(* has opened the file that was there goes on with that file.                  *)
Move(n) ==
  /\ Edit /\ Parent[n] \in Roots \cup exists
  /\ \E S \in SUBSET {m \in Nodes : Parent[m] = n} : exists' = exists \cup {n} \cup S
  /\ \/ n \in Files /\ \E c \in Contents : Allowed(n, c) /\ content' = [content EXCEPT ![n] = c]
     \/ n \in Dirs /\ UNCHANGED content
  /\ copying' = IF copying.file = n /\ copying.old = Absent
                THEN [copying EXCEPT !.old = content[n]] ELSE copying
  /\ Notify(n, "move")
-----------------------------------------------------------------------------
(* main, monitor_directory, copy and monitor_events *)
Running == dpc = "run" /\ copying = NoCopy
Top == Last(stack)

(* strcmp with path_argv2: the daemon builds the paths of directories from     *)
(* path_argv1, and knows the backup by its spelling.                           *)
IsBackup(d) == d = path["b"] /\ <<path["w"], path["b"]>> \in Alike

(* The beginning of monitor_directory: the backup itself is left alone. *)
(* Mutant: it is not.                                                   *)
EnteredAny(s, d) == Append(s, Frame(d))
Entered(s, d) == IF IsBackup(d) THEN s ELSE Append(s, Frame(d))

(* copy opens the file and its copy, without O_TRUNC. *)
CopyTo(f, p) ==
  /\ copying' = [file |-> f, to |-> p, at |-> 0, old |-> Absent]
  /\ bk' = [bk EXCEPT ![p][Rel[f]] = IF @ = Absent THEN Nil ELSE @]

Start ==
  /\ dpc = "start" /\ dpc' = "run"
  /\ stack' = Entered(<<>>, path["w"])
  /\ UNCHANGED <<fs, bk, path, backs, copying, blocked, queue, pending, seg, controllers>>

(* Mutant: a directory that appears is watched, but not scanned. *)
WatchOnly ==
  /\ Running /\ stack # <<>> /\ ~Top.watched
  /\ backs' = [backs EXCEPT ![Top.dir] = path["b"]]
  /\ stack' = Front(stack)
  /\ UNCHANGED <<fs, bk, dpc, path, copying, blocked, queue, pending, seg, controllers>>

(* mkdir, then the watch, then readdir, which returns at least what is there   *)
(* when it begins.                                                             *)
Made(d) == exists \cup
  {n \in {path["b"]} \cap Dirs : d = path["w"] /\ Parent[n] \in Roots \cup exists}
Watch ==
  /\ Running /\ stack # <<>> /\ ~Top.watched
  /\ exists' = Made(Top.dir)
  /\ backs' = [backs EXCEPT ![Top.dir] = path["b"]]
  /\ stack' = Append(Front(stack), [Top EXCEPT !.watched = TRUE,
                                           !.must = {n \in Made(Top.dir) : Parent[n] = Top.dir}])
  /\ UNCHANGED <<content, edits, bk, dpc, path, copying, blocked, queue, pending, seg, controllers>>

ReadEntry ==
  /\ Running /\ stack # <<>> /\ Top.watched
  /\ \E n \in Children(Top.dir) \ Top.seen :
       LET s == Append(Front(stack), [Top EXCEPT !.seen = @ \cup {n}])
       IN \/ n \in Dirs /\ stack' = Entered(s, n) /\ UNCHANGED <<copying, bk>>
          \/ n \in Files /\ stack' = s /\ CopyTo(n, path["b"])
  /\ UNCHANGED <<fs, dpc, path, backs, blocked, queue, pending, seg, controllers>>

Return ==
  /\ Running /\ stack # <<>> /\ Top.watched /\ Top.must \subseteq Top.seen
  /\ stack' = Front(stack)
  /\ UNCHANGED <<fs, bk, dpc, path, backs, copying, blocked, queue, pending, seg, controllers>>

HandleEvent ==
  /\ Running /\ stack = <<>> /\ queue # <<>>
  /\ queue' = Tail(queue)
  /\ LET e == Head(queue)
     IN \/ IsBackup(e.node) /\ UNCHANGED <<stack, copying, bk>>
        \/ /\ e.node \in Dirs /\ ~IsBackup(e.node)
           /\ stack' = Entered(<<>>, e.node) /\ UNCHANGED <<copying, bk>>
        \/ e.node \in Files /\ CopyTo(e.node, backs[e.dir]) /\ UNCHANGED stack
  /\ UNCHANGED <<fs, dpc, path, backs, blocked, pending, seg, controllers>>

(* The loop of copy: a byte is read from the file that was opened and written  *)
(* over what the copy has there, until there are no more.                      *)
Source == IF copying.old = Absent THEN content[copying.file] ELSE copying.old
Put(s, i, x) == [j \in 1..(IF Len(s) < i THEN i ELSE Len(s)) |-> IF j = i THEN x ELSE s[j]]
CopyByte ==
  /\ dpc = "run" /\ copying # NoCopy
  /\ \/ /\ copying.at < Len(Source)
        /\ bk' = [bk EXCEPT ![copying.to][Rel[copying.file]] =
                    Put(@, copying.at + 1, Source[copying.at + 1])]
        /\ copying' = [copying EXCEPT !.at = @ + 1]
     \/ copying.at >= Len(Source) /\ copying' = NoCopy /\ UNCHANGED bk
  /\ UNCHANGED <<fs, dpc, path, backs, stack, blocked, queue, pending, seg, controllers>>
-----------------------------------------------------------------------------
(* change_backup and change_work, from close(in) to monitor_directory *)
Interrupt(k) ==
  /\ dpc # "dead" /\ k \in pending \ blocked
  /\ pending' = pending \ {k} /\ blocked' = blocked \cup {k}
  /\ dpc' = k
  /\ backs' = [d \in Roots \cup Dirs |-> None] /\ queue' = <<>>
  /\ stack' = <<>> /\ copying' = NoCopy
  /\ UNCHANGED <<fs, bk, path, seg, controllers>>

(* Mutant: the path is not taken over. *)
OldPath(k) ==
  /\ dpc = k /\ dpc' = "start"
  /\ seg' = [seg EXCEPT ![k] = None]
  /\ UNCHANGED <<fs, bk, path, backs, stack, copying, blocked, queue, pending, controllers>>

(* Mutant: the segment is removed before it is read. *)
TakePathLate(k) ==
  /\ dpc = k /\ dpc' = "start"
  /\ seg' = [seg EXCEPT ![k] = None] /\ path' = [path EXCEPT ![k] = None]
  /\ UNCHANGED <<fs, bk, backs, stack, copying, blocked, queue, pending, controllers>>

TakePath(k) ==
  /\ dpc = k /\ dpc' = "start"
  /\ path' = [path EXCEPT ![k] = seg[k]]
  /\ seg' = [seg EXCEPT ![k] = None]
  /\ UNCHANGED <<fs, bk, backs, stack, copying, blocked, queue, pending, controllers>>

KillAll ==
  /\ dpc # "dead" /\ "k" \in pending
  /\ dpc' = "dead"
  /\ UNCHANGED <<fs, bk, path, backs, stack, copying, blocked, queue, pending, seg, controllers>>
-----------------------------------------------------------------------------
(* controller.c; the pid it reads has been stored when the daemon starts.      *)
(* shmget and strcpy are one step: a segment that the handler removes between  *)
(* them belongs to a signal that is blocked by then.                           *)
ConGo(c, from, to) == cpc[c] = from /\ cpc' = [cpc EXCEPT ![c] = to]
ConWrite(c) ==
  /\ cmd[c].kind \in Kinds /\ ConGo(c, "start", "kill")
  /\ seg' = [seg EXCEPT ![cmd[c].kind] = cmd[c].path]
  /\ UNCHANGED <<fs, bk, daemon, queue, pending, cmd, asked>>

ConKill(c) ==
  /\ \/ ConGo(c, "kill", "done") /\ asked' = [asked EXCEPT ![cmd[c].kind] = cmd[c].path]
     \/ ConGo(c, "start", "done") /\ cmd[c].kind = "k" /\ UNCHANGED asked
  /\ pending' = pending \cup {cmd[c].kind}
  /\ UNCHANGED <<fs, bk, daemon, queue, seg, cmd>>

User == \E n \in Nodes : Create(n) \/ Write(n) \/ Move(n)
Signal == KillAll \/ (\E k \in Kinds : Interrupt(k))
Step == \/ Start \/ Watch \/ ReadEntry \/ Return \/ HandleEvent \/ CopyByte
        \/ (\E k \in Kinds : TakePath(k))
Next == User \/ Signal \/ Step \/ (\E c \in Runs : ConWrite(c) \/ ConKill(c))
Spec == Init /\ [][Next]_vars
(* The daemon runs and its signals are delivered. *)
FairSpec == Spec /\ WF_vars(Step) /\ WF_vars(Signal)
-----------------------------------------------------------------------------
TypeOK ==
  /\ exists \subseteq Nodes /\ content \in [Files -> Contents \cup {Nil}] /\ edits \in 0..MaxEdits
  /\ bk \in [Backups -> [Paths -> Seq(Nat) \cup {Absent}]]
  /\ dpc \in {"start", "run", "dead"} \cup Kinds
  /\ path["w"] \in Roots /\ path["b"] \in Backups
  /\ backs \in [Roots \cup Dirs -> Backups \cup {None}]
  /\ queue \in Seq([dir : Roots \cup Dirs, node : Nodes, what : {"create", "modify", "move"}])
  /\ stack \in Seq([dir : Roots \cup Dirs, watched : BOOLEAN, must : SUBSET Nodes, seen : SUBSET Nodes])
  /\ copying \in {NoCopy} \cup [file : Files, to : Backups, at : Nat, old : Contents \cup {Nil, Absent}]
  /\ blocked \subseteq Kinds /\ pending \subseteq Kinds \cup {"k"}
  /\ \A k \in Kinds : seg[k] \in Roots \cup Backups \cup {None}

(* Above(n): the directories n is in, which are in every set that has its      *)
(* parent and the parent of all it has.                                       *)
ClosedUp(S, n) == Parent[n] \in S /\ \A m \in S \cap Nodes : Parent[m] \in S
Above(n) == {a \in Roots \cup Dirs : \A S \in SUBSET (Roots \cup Dirs) : ClosedUp(S, n) => a \in S}
ToBackUp == {f \in Files \cap exists : path["w"] \in Above(f) /\ path["b"] \notin Above(f)}

(* The copy of f begins with what f holds.  It ends there too, unless a longer *)
(* file was copied there: f itself before it was cut, or one with the same     *)
(* path in an earlier working directory.                                       *)
BeginsWith(s, c) == Len(s) >= Len(c) /\ \A i \in 1..Len(c) : s[i] = c[i]
OwnPath(f) == \A g \in Files : Rel[g] = Rel[f] => g = f
HasCopy(f) ==
  LET s == bk[path["b"]][Rel[f]]
  IN s # Absent /\ BeginsWith(s, content[f]) /\ (~Shrinks /\ OwnPath(f) => s = content[f])
BackedUp == \A f \in ToBackUp : HasCopy(f)

(* The backup, if it is inside the working directory, is spelled as the daemon *)
(* comes to spell it.  Otherwise the daemon backs up the backup into itself,   *)
(* which is not modelled.                                                      *)
Recognised ==
  path["b"] \in Nodes /\ Parent[path["b"]] = path["w"] => <<path["w"], path["b"]>> \in Alike

(* When the daemon has nothing to do, every file below the working directory   *)
(* has its copy, whatever was made, changed or moved while it scanned          *)
(* (monitor_directory watches a directory before it reads it).                 *)
Idle == dpc = "run" /\ stack = <<>> /\ queue = <<>> /\ copying = NoCopy
IdleMeansBackedUp == Recognised /\ Idle => BackedUp

(* The daemon never watches its own backup, in which it would see its copies,  *)
(* if it can recognise it; and where it copies to is its backup of the moment. *)
BackupNotWatched ==
  /\ Recognised /\ path["b"] \in Dirs => backs[path["b"]] = None
  /\ \A d \in Roots \cup Dirs : backs[d] \in {None, path["b"]} \/ dpc = "start"

(* A change that a controller has reported is made, unless another follows     *)
(* (controller.c:23, 32), and the files are copied to where it says.           *)
ChangeTakesEffect ==
  \A k \in Kinds : \A p \in (IF k = "w" THEN Roots ELSE Backups) :
    asked[k] = p ~> asked[k] # p \/ (path[k] = p /\ (Recognised => BackedUp))
==============================================================================
