-------------------------------- MODULE Console --------------------------------
(***************************************************************************)
(* The console's lines: whoever has something to say appends one, the      *)
(* oldest are pruned in blocks as it is appended, and pages read on from   *)
(* the line they saw last, a limited number at a time.  A page of one rig  *)
(* sees its lines and those of nobody's.  A page asks in three statements, *)
(* each of which sees the table as it is then.                             *)
(***************************************************************************)
EXTENDS Naturals, FiniteSets

CONSTANTS
  Pages,
  Rigs, Everyone, \* Everyone: no rig, in a line and in a page
  Keep,           \* EVENT_KEEP
  PruneEvery,     \* EVENT_PRUNE_EVERY
  Limit,          \* lines in an answer
  MaxLines        \* bound

VARIABLES
  rigOf,   \* [Pages -> the rig a page is of, or Everyone]
  lines,   \* [1 .. n -> the rig a line is about]: every line there ever was
  oldest,  \* the first that is still in the table
  ask,     \* [Pages -> the question under way, or Idle]
  cursor,  \* [Pages -> the line it saw last]
  since,   \* history: [Pages -> its cursor when it first had one]
  shown,   \* history: [Pages -> the lines it was shown]
  missed,  \* history: [Pages -> how many it was told it missed]
  slipped  \* history: [Pages -> lines pruned between two statements of a question]

vars == <<rigOf, lines, oldest, ask, cursor, since, shown, missed, slipped>>

Idle == [at |-> "idle"]
Last == Cardinality(DOMAIN lines)
Table == oldest .. Last
For(p) == {n \in DOMAIN lines : rigOf[p] = Everyone \/ lines[n] \in {rigOf[p], Everyone}}

Init ==
  /\ rigOf \in [Pages -> Rigs \cup {Everyone}]
  /\ lines = [n \in 1 .. 0 |-> Everyone] /\ oldest = 1
  /\ ask = [p \in Pages |-> Idle] /\ cursor = [p \in Pages |-> 0]
  /\ since = cursor /\ missed = cursor
  /\ shown = [p \in Pages |-> {}] /\ slipped = shown

\* The table after line n was appended: what is pruned goes in the same transaction.
\* Variant: a block more than is meant.
PrunedHard(n) == IF n % PruneEvery = 0 /\ n > Keep THEN n - Keep + PruneEvery ELSE oldest
Pruned(n) == IF n % PruneEvery = 0 /\ n > Keep THEN n - Keep + 1 ELSE oldest

\* A line that cannot be written is not, and nobody hears of it.
RecordEvent(rig) ==
  /\ Last < MaxLines
  /\ lines' = [n \in 1 .. Last + 1 |-> IF n > Last THEN rig ELSE lines[n]]
  /\ oldest' = Pruned(Last + 1)
  /\ slipped' = [p \in Pages |-> IF ask[p].at = "rows"
                                 THEN slipped[p] \cup {n \in oldest .. oldest' - 1 : n > cursor[p]}
                                 ELSE slipped[p]]
  /\ UNCHANGED <<rigOf, ask, cursor, since, shown, missed>>

ReadsOldest(p) ==
  /\ ask[p] = Idle
  /\ ask' = [ask EXCEPT ![p] = [at |-> "rows", oldest |-> IF Table = {} THEN 0 ELSE oldest]]
  /\ UNCHANGED <<rigOf, lines, oldest, cursor, since, shown, missed, slipped>>

\* The first lines after the cursor, as many as the limit.
RowsAfter(p) ==
  LET due == {n \in For(p) \cap Table : n > cursor[p]} IN
  {n \in due : Cardinality({m \in due : m < n}) < Limit}

\* Variant: told of every line between the last one and the oldest, the last one too.
MissedOne(p) ==
  IF cursor[p] > 0 /\ ask[p].oldest > cursor[p] + 1 THEN ask[p].oldest - cursor[p] ELSE 0
\* Those pruned before the page asked for them; a page that has seen no line has no cursor.
Missed(p) ==
  IF cursor[p] > 0 /\ ask[p].oldest > cursor[p] + 1 THEN ask[p].oldest - cursor[p] - 1 ELSE 0

\* An empty answer tells of them too, and the next one does again: counted once.
ReadsRows(p) ==
  /\ ask[p].at = "rows"
  /\ LET rows == RowsAfter(p)
         seen == IF rows = {} THEN cursor[p] ELSE CHOOSE n \in rows : \A m \in rows : m <= n
     IN /\ shown' = [shown EXCEPT ![p] = @ \cup rows]
        /\ missed' = [missed EXCEPT ![p] = @ + IF rows = {} THEN 0 ELSE Missed(p)]
        /\ cursor' = [cursor EXCEPT ![p] = seen]
        /\ since' = [since EXCEPT ![p] = IF @ = 0 /\ rows # {}
                                         THEN CHOOSE n \in rows : \A m \in rows : n <= m ELSE @]
  /\ ask' = [ask EXCEPT ![p] = Idle]
  /\ UNCHANGED <<rigOf, lines, oldest, slipped>>

Next ==
  \/ \E rig \in Rigs \cup {Everyone} : RecordEvent(rig)
  \/ \E p \in Pages : ReadsOldest(p) \/ ReadsRows(p)

Spec == Init /\ [][Next]_vars

-----------------------------------------------------------------------------
\* Every variable holds what the rest of the module takes it to hold, and at least the
\* newest Keep lines are in the table.
TypeOK ==
  /\ DOMAIN lines = 1 .. Last /\ Last <= MaxLines
  /\ Last - oldest + 1 >= (IF Last < Keep THEN Last ELSE Keep)
  /\ \A p \in Pages : cursor[p] <= Last /\ shown[p] \subseteq For(p)

\* From its first line on, a page was shown every line for it up to its cursor, and was told
\* of the ones that were pruned: the page of everything, of exactly as many.  What is pruned
\* between the statements of one question is the exception.
NothingUntold ==
  \A p \in Pages :
    LET behind == {n \in since[p] .. cursor[p] : n \notin shown[p] \cup slipped[p]} IN
    since[p] > 0 =>
      /\ For(p) \cap behind # {} => missed[p] > 0
      /\ rigOf[p] = Everyone /\ slipped[p] = {} => missed[p] = Cardinality(behind)
=============================================================================
