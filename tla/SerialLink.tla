------------------------------- MODULE SerialLink -------------------------------
(***************************************************************************)
(* A test's line to one board: BoardClient.send_cmd_awaiting over          *)
(* SerialCapture.  A reader thread puts the bytes of the port together     *)
(* into frames, a frame to a line, and queues the events; the client sends *)
(* a command, takes events until one is the reply, and sends the command   *)
(* again when the board says it could not read it.  A board that leaves    *)
(* the bus while a command is written has the port opened anew and the     *)
(* command written again, whatever of it had got through.                  *)
(*                                                                         *)
(* A reply is known by its kind only: here every command's reply is of one *)
(* kind, the case in which one can be taken for another's.                 *)
(***************************************************************************)
EXTENDS Naturals, FiniteSets, SequencesExt

CONSTANTS
  Commands,    \* 1..n, in the order the test sends them
  Repeatable,  \* those sent with idempotent=True
  MaxFrames,   \* bound: frames the board writes
  MaxOpens     \* bound: times the port is opened anew

VARIABLES
  inbox,     \* commands on their way to the board: [of, readable]
  wrote,     \* the frames the board has written: [evt, of, legible]
  owed,      \* the frame whose tail the board has not written yet, or 0
  wire,      \* pieces on their way to the reader: [frame, part]
  partial,   \* the reader's line that has no end yet
  carry,     \* the head it passed on before its tail came
  events,    \* what it queued, as numbers of frames; 0 is "unreadable"
  pending,   \* the events held back for later waits
  current,   \* the command sent last, 0 before the first
  sender,    \* of that command: "waits", or "idle", or "closed" when the port is
  answer,    \* [Commands -> the command whose reply it was given, 0 for none]
  ran,       \* history: how often the board ran each command
  heard,     \* history: every frame ever queued, in order
  spoilt,    \* history: a wait was given up, or a command repeated on noise, or behind
             \* a writing of it that failed and had got through
  since,     \* history: the command sent last when the board was last reattached, or 0
  opened     \* history: how often the port was opened anew, and after how many frames last

vars == <<inbox, wrote, owed, wire, partial, carry, events, pending, current,
          sender, answer, ran, heard, spoilt, since, opened>>

board == <<wrote, owed, ran>>
reader == <<partial, carry, heard>>
client == <<current, sender, answer, spoilt, since, opened>>

Init ==
  /\ inbox = <<>> /\ wrote = <<>> /\ owed = 0 /\ wire = <<>>
  /\ partial = <<>> /\ carry = <<>> /\ events = <<>> /\ heard = <<>>
  /\ pending = <<>> /\ current = 0 /\ sender = "idle"
  /\ answer = [c \in Commands |-> 0] /\ ran = [c \in Commands |-> 0]
  /\ spoilt = FALSE /\ since = 0 /\ opened = [times |-> 0, after |-> 0]

-----------------------------------------------------------------------------
\* The board: one command at a time, each answered by one frame.  A frame gets
\* through as one line, in two bursts with a stall between, or as bytes nobody can
\* read.
Piece(n, p) == [frame |-> n, part |-> p]

Writes(e, c) ==
  /\ owed = 0 /\ Len(wrote) < MaxFrames
  /\ \E part \in {"whole", "head", "noise"} :
       /\ wrote' = Append(wrote, [evt |-> e, of |-> c, legible |-> part # "noise"])
       /\ wire' = Append(wire, Piece(Len(wrote'), part))
       /\ owed' = IF part = "head" THEN Len(wrote') ELSE 0

BoardReads ==
  /\ inbox # <<>>
  /\ inbox' = Tail(inbox)
  /\ LET m == Head(inbox) IN
     \/ m.readable /\ Writes("reply", m.of) /\ ran' = [ran EXCEPT ![m.of] = @ + 1]
     \/ ~m.readable /\ Writes("error", m.of) /\ UNCHANGED ran
  /\ UNCHANGED <<reader, events, pending, client>>

WritesTail ==
  /\ owed # 0
  /\ wire' = Append(wire, Piece(owed, "tail"))
  /\ owed' = 0
  /\ UNCHANGED <<inbox, wrote, ran, reader, events, pending, client>>

-----------------------------------------------------------------------------
\* _extract_events: the frames that are in a line from head to tail.
Extract(line) ==
  LET Whole(i) == \/ line[i].part = "whole"
                  \/ /\ line[i].part = "head" /\ i < Len(line)
                     /\ line[i + 1] = Piece(line[i].frame, "tail")
      hits == SelectSeq([i \in 1 .. Len(line) |-> i], Whole)
  IN [k \in 1 .. Len(hits) |-> line[hits[k]].frame]

\* A line is judged: on its own, then behind the head carried over.  Variant: without it.
JudgeAlone(line, complete) ==
  /\ carry' = <<>> /\ partial' = <<>>
  /\ events' = events \o Extract(line)
  /\ heard' = heard \o Extract(line)

Judge(line, complete) ==
  LET alone  == Extract(line)
      seen   == IF alone = <<>> THEN carry \o line ELSE line
      found  == IF alone = <<>> THEN Extract(seen) ELSE alone
      isHead == found = <<>> /\ ~complete /\ line[1].part = "head"
      noise  == found = <<>> /\ ~isHead /\ \E i \in 1 .. Len(seen) : seen[i].part = "noise"
  IN /\ carry' = IF isHead THEN line ELSE <<>>
     /\ partial' = <<>>
     /\ events' = events \o IF noise THEN <<0>> ELSE found
     /\ heard' = heard \o found

\* One readline of _reader: a piece without a line's end is held and joined.
ReadLine ==
  /\ sender # "closed" /\ wire # <<>>
  /\ wire' = Tail(wire)
  /\ LET line == Append(partial, Head(wire)) IN
     IF Head(wire).part = "head" THEN partial' = line /\ UNCHANGED <<carry, events, heard>>
                                 ELSE Judge(line, TRUE)
  /\ UNCHANGED <<inbox, board, pending, client>>

\* It has been held long enough, and is passed on as it is.
WaitIsOver ==
  /\ partial # <<>>
  /\ Judge(partial, FALSE)
  /\ UNCHANGED <<inbox, board, wire, pending, client>>

-----------------------------------------------------------------------------
Opens ==
  /\ opened.times < MaxOpens
  /\ opened' = [times |-> opened.times + 1, after |-> Len(wrote)]

\* reopen: what the reader held and what was queued is lost with it, and what was on its way
\* to it; the client's pending events stay.  A frame half written is finished or is not.
Reopened ==
  /\ wire' = <<>> /\ partial' = <<>> /\ carry' = <<>> /\ events' = <<>>
  /\ owed' \in {0, owed} /\ Opens

\* The device does not come back: there is no reader, and the queue is as it was.
ReopenRaises ==
  /\ wire' = <<>> /\ partial' = <<>> /\ carry' = <<>> /\ sender' = "closed" /\ spoilt' = TRUE
  /\ owed' \in {0, owed} /\ Opens

\* send_cmd, write_line: the line may be damaged on its way.  When writing raises OSError the
\* port is opened anew and all of it written again, and that may raise too; of what was
\* written before, and of what waited at the board, all got there or nothing did.
Lines(c) == [of : {c}, readable : BOOLEAN]
AtMostOne(c) == {<<>>} \cup {<<m>> : m \in Lines(c)}

SendCmd(c, left, onNoise) ==
  \/ /\ \E m \in Lines(c) : inbox' = Append(inbox, m)
     /\ events' = left /\ sender' = "waits" /\ spoilt' = (spoilt \/ onNoise)
     /\ UNCHANGED <<wire, owed, partial, carry, opened>>
  \/ \E kept \in {<<>>, inbox}, first \in AtMostOne(c), m \in Lines(c) :
       /\ inbox' = Append(kept \o first, m)
       /\ Reopened
       /\ sender' = "waits" /\ spoilt' = (spoilt \/ onNoise \/ first # <<>>)
  \/ /\ \E first \in AtMostOne(c) : inbox' = inbox \o first
     /\ \/ Reopened /\ sender' = "idle" /\ spoilt' = TRUE
        \/ ReopenRaises /\ events' = left

\* send_cmd_awaiting: every event seen so far is forgotten, and the command sent.
Calls ==
  /\ sender = "idle" /\ current + 1 \in Commands
  /\ current' = current + 1
  /\ pending' = <<>>
  /\ SendCmd(current', <<>>, FALSE)
  /\ UNCHANGED <<wrote, ran, heard, answer, since>>

\* resend_on.  Variant: noise has any command sent again.
ResendsOnNoise(n) == IF n = 0 THEN TRUE ELSE wrote[n].evt = "error"

ResendOn(n) == IF n = 0 THEN current \in Repeatable ELSE wrote[n].evt = "error"

\* wait_for: the next event is the reply, a reason to send again, or kept for later.
IsReply(n) == n # 0 /\ wrote[n].evt = "reply"

TakesEvent ==
  /\ sender = "waits" /\ events # <<>>
  /\ LET n == Head(events) IN
     \/ /\ IsReply(n)
        /\ answer' = [answer EXCEPT ![current] = wrote[n].of]
        /\ sender' = "idle" /\ events' = Tail(events)
        /\ UNCHANGED <<inbox, wire, owed, partial, carry, pending, spoilt, opened>>
     \/ /\ ~IsReply(n) /\ ResendOn(n)
        /\ SendCmd(current, Tail(events), n = 0 /\ current \in Repeatable)
        /\ UNCHANGED <<answer, pending>>
     \/ /\ ~IsReply(n) /\ ~ResendOn(n)
        /\ pending' = Append(pending, n) /\ events' = Tail(events)
        /\ UNCHANGED <<inbox, wire, owed, partial, carry, answer, sender, spoilt, opened>>
  /\ UNCHANGED <<wrote, ran, heard, current, since>>

\* The deadline: TimeoutWaitingFor.
TimesOut ==
  /\ sender = "waits"
  /\ sender' = "idle" /\ spoilt' = TRUE
  /\ UNCHANGED <<inbox, board, wire, reader, events, pending, current, answer, since, opened>>

\* The board's power is cut and restored, or it restarts, and the test reattaches: what it
\* had to read and to write is lost, and every event from before is dropped.
Reattach ==
  /\ sender # "waits" /\ current > 0
  /\ inbox' = <<>> /\ owed' = 0
  /\ \/ /\ Reopened
        /\ pending' = <<>> /\ sender' = "idle"
        /\ spoilt' = FALSE /\ since' = current
     \/ ReopenRaises /\ UNCHANGED <<events, pending, since>>
  /\ UNCHANGED <<wrote, ran, heard, current, answer>>

Next ==
  \/ BoardReads \/ WritesTail
  \/ ReadLine \/ WaitIsOver
  \/ Calls \/ TakesEvent \/ TimesOut \/ Reattach

Spec == Init /\ [][Next]_vars

-----------------------------------------------------------------------------
\* Every variable holds what the rest of the module takes it to hold.
TypeOK ==
  /\ current \in Commands \cup {0} /\ sender \in {"idle", "waits", "closed"}
  /\ answer \in [Commands -> Commands \cup {0}]
  /\ Len(wrote) <= MaxFrames /\ owed \in 0 .. Len(wrote)
  /\ \A n \in ToSet(events) \cup ToSet(pending) \cup ToSet(heard) : n \in 0 .. Len(wrote)
  /\ Len(partial) <= 1 /\ Len(carry) <= 1

\* A frame is heard once and in its turn, however it was cut and however long the
\* halves were apart; with nothing under way, every frame that was not damaged has
\* been heard, of those the board wrote since the port was last opened.
FramesArrive ==
  /\ \A i, j \in 1 .. Len(heard) : i < j => heard[i] < heard[j]
  /\ wire = <<>> /\ partial = <<>> /\ owed = 0 =>
       \A n \in opened.after + 1 .. Len(wrote) :
         wrote[n].legible => n \in ToSet(heard)

\* Until a wait is given up, or a command repeated for noise, or written again behind a
\* writing that failed and yet got through, each command is run at most once however often
\* it is sent again, and an answer is its own command's; and again so for the commands after
\* the board was reattached.
RunOnceAnsweredOwn ==
  ~spoilt => \A c \in since + 1 .. current : ran[c] <= 1 /\ answer[c] \in {0, c}
=============================================================================
