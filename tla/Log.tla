--------------------------------- MODULE Log ---------------------------------
(***************************************************************************)
(* udp/log.c (log/log.c is its first version): one static buffer, which a  *)
(* call of log_error fills part by part, and signal handlers that log, as  *)
(* off_bash and stop_server of udp/server.c do, at any point of a call.    *)
(***************************************************************************)
EXTENDS Integers, Sequences, SequencesExt

CONSTANTS Handlers,     \* signal handlers that log; each blocks its own signal
          MaxLogCalls,  \* bound: calls
          MaxLogFails   \* bound: writes that fail

ASSUME LogAssumption == MaxLogCalls \in Nat /\ MaxLogFails \in Nat

VARIABLES text,     \* buf: the parts in it, in order; Nul is what begins with a zero byte.  Behind a
                    \* Nul the parts are what a shorter text has left of older ones
          pos,      \* pos, in parts
          frames,   \* the calls in progress, the innermost last
          record,   \* the last record written to the file, and the call that wrote it
          allOK,    \* whether no write failed since the outermost call began
          logCalls, logFails
logVars == <<text, pos, frames, record, allOK, logCalls, logFails>>

Main == "main"
Nul == <<"nul">>
Part(call, kind) == <<kind, call>>
Kinds == <<"level", "time", "pid", "message", "strerror">>
Steps == {"level", "level+", "time", "time+", "pid", "pid+", "message", "strerror", "write", "pos", "clear"}

(* cut: a handler ran in the middle of this call; sound: see Begin.            *)
Frame(who, n, err, sound) ==
  [who |-> who, n |-> n, err |-> err, at |-> "level", cut |-> FALSE, sound |-> sound]
LogInit == /\ text = <<>> /\ pos = 0 /\ frames = <<>> /\ allOK = TRUE
           /\ record = [parts |-> <<>>, by |-> Frame(Main, 0, FALSE, TRUE)]
           /\ logCalls = 0 /\ logFails = 0
-----------------------------------------------------------------------------
Top == Last(frames)
At(step) == frames # <<>> /\ Top.at = step
GoOn(step) == frames' = [frames EXCEPT ![Len(frames)].at = step]
String(t) == IF \E k \in DOMAIN t : t[k] = Nul
             THEN SubSeq(t, 1, (CHOOSE k \in DOMAIN t : t[k] = Nul /\ \A j \in 1..(k - 1) : t[j] # Nul) - 1)
             ELSE t
(* sprintf(buf + n, ...): the part and a zero byte; what was behind remains    *)
PasteAt(n, part) ==
  [k \in 1..(IF Len(text) > n + 2 THEN Len(text) ELSE n + 2) |->
     IF k = n + 1 THEN part
     ELSE IF k = n + 2 \/ k > Len(text) THEN Nul ELSE text[k]]

(* A call is sound that begins at the start of buf, or behind the string of a  *)
(* sound call that it interrupts before any write failed.                      *)
Begin(who, err) ==
  /\ logCalls < MaxLogCalls /\ logCalls' = logCalls + 1
  /\ frames' = Append([k \in DOMAIN frames |-> [frames[k] EXCEPT !.cut = TRUE]],
                      Frame(who, logCalls + 1, err,
                            pos = 0 \/ (frames # <<>> /\ allOK /\ Top.sound /\ pos <= Len(String(text)))))
  /\ UNCHANGED <<text, pos, record, logFails>>
CallLog(err) == frames = <<>> /\ Begin(Main, err) /\ allOK' = TRUE
Interrupt(h, err) ==
  /\ frames # <<>> /\ \A k \in DOMAIN frames : frames[k].who # h
  /\ Begin(h, err) /\ UNCHANGED allOK

(* get_log_level, get_time, paste_pid: the text first, then the position *)
Paste(step, after) ==
  /\ At(step) /\ GoOn(after)
  /\ text' = PasteAt(pos, Part(Top.n, step))
  /\ UNCHANGED <<pos, record, allOK, logCalls, logFails>>
Advance(step, after) ==
  /\ At(step) /\ GoOn(after)
  /\ pos' = pos + 1
  /\ UNCHANGED <<text, record, allOK, logCalls, logFails>>

(* vsnprintf, after which pos stays where it is *)
PasteMessage == Paste("message", IF Top.err THEN "strerror" ELSE "write")

(* Mutant: strerror is pasted at pos, where the message is. *)
StrerrorAtPos == Paste("strerror", "write")
(* sprintf(buf, "%s: %s\n", buf, ...): after the string that is there *)
Strerror ==
  /\ At("strerror") /\ GoOn("write")
  /\ text' = PasteAt(Len(String(text)), Part(Top.n, "strerror"))
  /\ UNCHANGED <<pos, record, allOK, logCalls, logFails>>

Fail == /\ logFails < MaxLogFails /\ logFails' = logFails + 1
        /\ frames' = Front(frames) /\ allOK' = FALSE
(* all BUFSZ bytes *)
Written == record' = [parts |-> text, by |-> Top]

(* The record, then a newline if it is no error.  A call whose write fails     *)
(* returns at once.                                                            *)
Write ==
  /\ At("write")
  /\ \/ Written /\ GoOn("pos") /\ UNCHANGED <<allOK, logFails>>
     \/ Fail /\ UNCHANGED record
     \/ ~Top.err /\ Written /\ Fail
  /\ UNCHANGED <<text, pos, logCalls>>

(* Mutant: pos is not reset. *)
ResetNothing ==
  /\ At("pos") /\ GoOn("clear")
  /\ UNCHANGED <<text, pos, record, allOK, logCalls, logFails>>
ResetPos ==
  /\ At("pos") /\ GoOn("clear") /\ pos' = 0
  /\ UNCHANGED <<text, record, allOK, logCalls, logFails>>
Clear ==
  /\ At("clear") /\ text' = <<>>
  /\ frames' = Front(frames)
  /\ UNCHANGED <<pos, record, allOK, logCalls, logFails>>

LogStep == \/ Paste("level", "level+") \/ Advance("level+", "time")
           \/ Paste("time", "time+") \/ Advance("time+", "pid")
           \/ Paste("pid", "pid+") \/ Advance("pid+", "message")
           \/ PasteMessage \/ Strerror \/ Write \/ ResetPos \/ Clear
LogNext == LogStep \/ \E err \in BOOLEAN : CallLog(err) \/ \E h \in Handlers : Interrupt(h, err)
LogSpec == LogInit /\ [][LogNext]_logVars
-----------------------------------------------------------------------------
FrameType == [who : {Main} \cup Handlers, n : 0..MaxLogCalls, err : BOOLEAN,
              at : Steps, cut : BOOLEAN, sound : BOOLEAN]
LogTypeOK ==
  /\ pos \in Nat /\ allOK \in BOOLEAN
  /\ frames \in Seq(FrameType) /\ record.by \in FrameType
  /\ logCalls \in 0..MaxLogCalls /\ logFails \in 0..MaxLogFails

(* Whatever call it interrupts, a sound call that is not itself interrupted    *)
(* has all its parts, one after the other, at the end of the string in its     *)
(* record (log.c:67).  The record goes on behind the string: write puts out    *)
(* all of buf (log.c:38), with what is left there of the interrupted call.     *)
PartsOf(call) == [k \in 1..(IF call.err THEN 5 ELSE 4) |-> Part(call.n, Kinds[k])]
UncutRecordWhole ==
  record.by.n > 0 /\ ~record.by.cut /\ record.by.sound =>
    IsSuffix(PartsOf(record.by), String(record.parts))

(* When no call is in progress buf is empty and pos 0, even after calls that   *)
(* were interrupted in the middle, unless a write of the last of them or of a  *)
(* handler that interrupted it failed (log.c:49).                              *)
CleanWhenIdle == frames = <<>> /\ allOK => pos = 0 /\ text = <<>>
==============================================================================
