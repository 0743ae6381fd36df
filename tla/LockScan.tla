------------------------------- MODULE LockScan -------------------------------
(***************************************************************************)
(* flocks: getlk.c lists the record locks on a file, while processes that  *)
(* run setlk.c, and others, take and release them.  The kernel joins and   *)
(* splits the locks of one owner: what counts is how it has each byte.     *)
(***************************************************************************)
EXTENDS Integers, FiniteSets

CONSTANTS Setters,  \* processes that run setlk
          Others,   \* any other programs that lock the file
          Regions,  \* what those lock: records of type, start and len, where len 0 is to the end
          Size,     \* st_size of the file, in bytes
          LastByte       \* bound: this byte stands for itself and all that follow

Lock(type, start, len) == [type |-> type, start |-> start, len |-> len]
First == Lock("F_WRLCK", 1, 1)
Second == Lock("F_WRLCK", 5, 2)
ASSUME LockAssumption ==
  /\ Setters \cap Others = {} /\ IsFiniteSet(Setters \cup Others)
  /\ LastByte \in Nat /\ Size \in 0..LastByte
  /\ Regions \subseteq [type : {"F_RDLCK", "F_WRLCK"}, start : 0..LastByte, len : Nat]
  /\ \A l \in Regions \cup {First, Second} : l.start + l.len <= LastByte

VARIABLES held,    \* held[p][x]: how process p has byte x locked
          setter,  \* setter[p]: where a setlk is
          scan, i, \* getlk: where it is; the byte it has got to
          f1,      \* the type and start of its struct flock
          times,   \* times[p][x]: how many lines of the list are of a lock of p with byte x in it:
                   \* none, one, more; or Changed, if p changed how it has x during the scan
          owners   \* who held locks during the scan
lockVars == <<held, setter, scan, i, f1, times, owners>>
Changed == -1

Owners == Setters \cup Others
Bytes == 0..LastByte
Free == [x \in Bytes |-> "F_UNLCK"]
LockInit == /\ held = [p \in Owners |-> Free] /\ setter = [p \in Setters |-> "first"]
            /\ scan = "start" /\ i = 0 /\ f1 = [type |-> "F_RDLCK", start |-> 0]
            /\ times = [p \in Owners |-> [x \in Bytes |-> 0]] /\ owners = {}
-----------------------------------------------------------------------------
(* The kernel: F_SETLK, the end of a process, F_GETLK *)
Covered(l) == IF l.len = 0 THEN l.start..LastByte ELSE l.start..(l.start + l.len - 1)
Refused(p, l) ==
  \E q \in Owners \ {p} : \E x \in Covered(l) :
    held[q][x] # "F_UNLCK" /\ "F_WRLCK" \in {l.type, held[q][x]}

Keep(p, mine) == /\ held' = [held EXCEPT ![p] = mine]
                 /\ times' = IF scan = "start" THEN times
                             ELSE [times EXCEPT ![p] = [x \in Bytes |-> IF mine[x] = held[p][x] THEN @[x]
                                                                        ELSE Changed]]
                 /\ owners' = owners \cup {q \in {p} : scan = "scan" /\ mine # Free}
SetLock(p, type, l) == Keep(p, [x \in Bytes |-> IF x \in Covered(l) THEN type ELSE held[p][x]])
Release(p) == Keep(p, Free)

(* A lock is as long as it can be: neighbours of one owner and type are one.  *)
IsLock(p, a, b) ==
  /\ a <= b /\ held[p][a] # "F_UNLCK" /\ \A x \in a..b : held[p][x] = held[p][a]
  /\ \A x \in {a - 1, b + 1} \cap Bytes : held[p][x] # held[p][a]

(* Which of the locks in the way is returned is the first of some process'. *)
Blocking(p) == {r \in Bytes \X Bytes : /\ IsLock(p, r[1], r[2]) /\ f1.start <= r[2]
                                       /\ "F_WRLCK" \in {f1.type, held[p][r[1]]}}
FirstBlocking(p, r) == r \in Blocking(p) /\ \A s \in Blocking(p) : r[1] <= s[1]
-----------------------------------------------------------------------------
(* setlk.c *)
Setlk(p, from, l, to) ==
  /\ setter[p] = from
  /\ \/ ~Refused(p, l) /\ SetLock(p, l.type, l) /\ setter' = [setter EXCEPT ![p] = to]
     \/ Refused(p, l) /\ Release(p) /\ setter' = [setter EXCEPT ![p] = "done"]
  /\ UNCHANGED <<scan, i, f1>>
SetFirst(p) == Setlk(p, "first", First, "second")
SetSecond(p) == Setlk(p, "second", Second, "sleep")

(* It wakes up, or is killed before. *)
SetterEnds(p) ==
  /\ setter[p] \in {"second", "sleep"} /\ setter' = [setter EXCEPT ![p] = "done"]
  /\ Release(p) /\ UNCHANGED <<scan, i, f1>>

(* Other programs lock regions, also over and beside their own. *)
OtherLocks(p, l) ==
  /\ ~Refused(p, l) /\ SetLock(p, l.type, l) /\ UNCHANGED <<setter, scan, i, f1>>
OtherUnlocks(p, l) ==
  /\ SetLock(p, "F_UNLCK", l) /\ UNCHANGED <<setter, scan, i, f1>>
OtherReleases(p) ==
  /\ Release(p) /\ UNCHANGED <<setter, scan, i, f1>>
-----------------------------------------------------------------------------
(* getlk.c *)
OpenFile == /\ scan = "start" /\ scan' = "scan"
            /\ owners' = {p \in Owners : held[p] # Free}
            /\ UNCHANGED <<held, setter, i, f1, times>>

(* Mutant: the next query begins at the last byte of the lock. *)
AfterOverlapping(r) == r[2]
(* Mutant: it leaves out a byte. *)
AfterNext(r) == IF r[2] = LastByte THEN r[1] ELSE r[2] + 2
(* l_start + l_len, where l_len is 0 for a lock to the end. *)
After(r) == IF r[2] = LastByte THEN r[1] ELSE r[2] + 1

Found(p, r) ==
  /\ scan = "scan" /\ i < Size /\ f1.type # "F_UNLCK" /\ FirstBlocking(p, r)
  /\ times' = [times EXCEPT ![p] = [x \in Bytes |-> IF x \in r[1]..r[2] /\ @[x] \in {0, 1} THEN @[x] + 1
                                                    ELSE @[x]]]
  /\ i' = After(r) /\ f1' = [type |-> held[p][r[1]], start |-> After(r)]
  /\ UNCHANGED <<held, setter, scan, owners>>

(* F_GETLK leaves F_UNLCK in l_type; from then on it fails with EINVAL. *)
NotFound ==
  /\ scan = "scan" /\ i < Size
  /\ f1.type = "F_UNLCK" \/ \A p \in Owners : Blocking(p) = {}
  /\ i' = i + 1 /\ f1' = [type |-> "F_UNLCK", start |-> f1.start + 1]
  /\ UNCHANGED <<held, setter, scan, times, owners>>

CloseFile == /\ scan = "scan" /\ i >= Size /\ scan' = "done"
             /\ UNCHANGED <<held, setter, i, f1, times, owners>>

ScanStep == NotFound \/ CloseFile \/ \E p \in Owners : \E r \in Blocking(p) : Found(p, r)
LockNext == \/ OpenFile \/ ScanStep
            \/ \E p \in Setters : SetFirst(p) \/ SetSecond(p) \/ SetterEnds(p)
            \/ \E p \in Others : \/ OtherReleases(p)
                                 \/ \E l \in Regions : OtherLocks(p, l) \/ OtherUnlocks(p, l)
(* getlk runs; nobody has to take or release a lock. *)
LockFair == WF_lockVars(ScanStep)
LockSpec == LockInit /\ [][LockNext]_lockVars /\ LockFair
-----------------------------------------------------------------------------
LockTypes == {"F_RDLCK", "F_WRLCK", "F_UNLCK"}
LockTypeOK ==
  /\ held \in [Owners -> [Bytes -> LockTypes]]
  /\ setter \in [Setters -> {"first", "second", "sleep", "done"}]
  /\ scan \in {"start", "scan", "done"} /\ i \in Nat
  /\ f1 \in [type : LockTypes, start : Nat]
  /\ times \in [Owners -> [Bytes -> {Changed, 0, 1, 2}]] /\ owners \subseteq Owners

(* A byte that is write-locked all through the scan is in a line of the list,  *)
(* when no one but its owner has locks (getlk.c:36: with several owners the    *)
(* kernel may name a later lock first; read locks are only asked for after a   *)
(* write lock).  It is in one line only if its lock was not joined to another  *)
(* nor parted meanwhile: a lock that grows is listed again from its start.     *)
Unchanged(p, a, b) ==
  IsLock(p, a, b) /\ \A x \in ((a - 1)..(b + 1)) \cap Bytes : times[p][x] # Changed
StableLocksListed ==
  scan = "done" /\ Cardinality(owners) = 1 =>
    \A p \in owners : \A x \in 0..(Size - 1) :
      held[p][x] = "F_WRLCK" /\ times[p][x] # Changed =>
        /\ times[p][x] >= 1
        /\ \A a \in 0..x, b \in x..(LastByte - 1) : Unchanged(p, a, b) => times[p][x] = 1

(* The scan ends, however locks come and go, unless again and again there is   *)
(* one that reaches to the end of the file (getlk.c:44).                       *)
ToTheEnd == \E p \in Owners : held[p][LastByte] # "F_UNLCK"
ScanEnds == (scan = "scan" ~> scan = "done") \/ []<>ToTheEnd
==============================================================================
