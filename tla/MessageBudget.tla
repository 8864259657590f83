---------------------------- MODULE MessageBudget ----------------------------
(***************************************************************************)
(* The messages a rig may send through its provider in one day, counted in *)
(* a file that a run of the suite and the operator's check both take from  *)
(* under a lock.  Each asks what day it is before it has the lock, reads   *)
(* the file under it, and cuts the file off before it writes it again.     *)
(***************************************************************************)
EXTENDS Naturals, FiniteSets

CONSTANTS
  Takers,     \* processes that take messages
  Operators,  \* those of them that run as root
  Days,       \* 1 .. n
  MaxPerDay,  \* max_per_day
  MaxTakes    \* bound: messages asked for

VARIABLES
  today,    \* the day it is (UTC)
  file,     \* [date, used], or Empty
  owner,    \* whose the file is: "nobody" (there is none), "user", or "root"
  lock,     \* who has the lock, or "nobody"
  taker,    \* [Takers -> [at, date]]
  asked,
  taken,    \* history: [Days -> messages sent on a day's account]
  torn,     \* history: days on which somebody was killed within a rewrite
  crossed   \* history: somebody wrote for a day that was over

vars == <<today, file, owner, lock, taker, asked, taken, torn, crossed>>

Empty == [date |-> 0, used |-> 0]  \* no file, or one that does not parse
Idle == [at |-> "idle", date |-> 0]
GoesTo(p, at) == taker' = [taker EXCEPT ![p].at = at]

Init ==
  /\ today = 1 /\ file = Empty /\ owner = "nobody" /\ lock = "nobody"
  /\ taker = [p \in Takers |-> Idle] /\ asked = 0
  /\ taken = [d \in Days |-> 0] /\ torn = {} /\ crossed = FALSE

\* The day, then the file, which opening makes.  A run is blocked by a file of root's.
Opens(p) ==
  /\ taker[p] = Idle /\ asked < MaxTakes /\ asked' = asked + 1
  /\ IF owner = "root" /\ p \notin Operators THEN UNCHANGED <<taker, owner>>
     ELSE /\ taker' = [taker EXCEPT ![p] = [at |-> "waits", date |-> today]]
          /\ owner' = IF owner # "nobody" THEN owner
                      ELSE IF p \in Operators THEN "root" ELSE "user"
  /\ UNCHANGED <<today, file, lock, taken, torn, crossed>>

\* Variant: without waiting for whoever has it.
LocksNothing(p) ==
  /\ taker[p].at = "waits" /\ lock' = p
  /\ GoesTo(p, "reads")
  /\ UNCHANGED <<today, file, owner, asked, taken, torn, crossed>>
Locks(p) ==
  /\ taker[p].at = "waits" /\ lock = "nobody" /\ lock' = p
  /\ GoesTo(p, "reads")
  /\ UNCHANGED <<today, file, owner, asked, taken, torn, crossed>>

\* A file of another day, or of none, counts as nothing used.
Used(p) == IF file.date = taker[p].date THEN file.used ELSE 0

\* Without a message, or on to the rewrite, which needs what was read.
Reads(p) ==
  /\ taker[p].at = "reads"
  /\ IF Used(p) >= MaxPerDay
       THEN taker' = [taker EXCEPT ![p] = Idle] /\ lock' = "nobody"
       ELSE taker' = [taker EXCEPT ![p] = [at |-> "cuts", date |-> @.date, used |-> Used(p)]]
            /\ UNCHANGED lock
  /\ UNCHANGED <<today, file, owner, asked, taken, torn, crossed>>

Cuts(p) ==
  /\ taker[p].at = "cuts" /\ file' = Empty
  /\ GoesTo(p, "writes")
  /\ UNCHANGED <<today, owner, lock, asked, taken, torn, crossed>>

Writes(p) ==
  /\ taker[p].at = "writes"
  /\ file' = [date |-> taker[p].date, used |-> taker[p].used + 1]
  /\ crossed' = (crossed \/ taker[p].date # today)
  /\ GoesTo(p, "written")
  /\ UNCHANGED <<today, owner, lock, asked, taken, torn>>

\* The lock is let go.
LetsGo(p) ==
  /\ taker[p].at = "written" /\ lock' = "nobody"
  /\ GoesTo(p, IF p \in Operators THEN "owns" ELSE "sends")
  /\ UNCHANGED <<today, file, owner, asked, taken, torn, crossed>>

\* Root leaves the file to the service's user.
OwnBudgetFile(p) ==
  /\ taker[p].at = "owns" /\ owner' = "user"
  /\ GoesTo(p, "sends")
  /\ UNCHANGED <<today, file, lock, asked, taken, torn, crossed>>

\* The message; what the provider makes of it changes nothing here.
Sends(p) ==
  /\ taker[p].at = "sends"
  /\ taken' = [taken EXCEPT ![taker[p].date] = @ + 1]
  /\ taker' = [taker EXCEPT ![p] = Idle]
  /\ UNCHANGED <<today, file, owner, lock, asked, torn, crossed>>

\* Or stopped by a disk that is full, before its message went out.
Killed(p) ==
  /\ taker[p] # Idle
  /\ taker' = [taker EXCEPT ![p] = Idle]
  /\ lock' = IF lock = p THEN "nobody" ELSE lock
  /\ torn' = IF taker[p].at = "writes" THEN torn \cup {taker[p].date, today} ELSE torn
  /\ UNCHANGED <<today, file, owner, asked, taken, crossed>>

Midnight ==
  /\ today + 1 \in Days /\ today' = today + 1
  /\ UNCHANGED <<file, owner, lock, taker, asked, taken, torn, crossed>>

Next ==
  \/ \E p \in Takers : Opens(p) \/ Locks(p) \/ Reads(p) \/ Cuts(p) \/ Writes(p)
                       \/ LetsGo(p) \/ OwnBudgetFile(p) \/ Sends(p) \/ Killed(p)
  \/ Midnight

Spec == Init /\ [][Next]_vars

-----------------------------------------------------------------------------
Places == {Idle} \cup [at : {"waits", "reads"}, date : Days]
                 \cup [at : {"cuts", "writes", "written", "owns", "sends"}, date : Days,
                       used : 0 .. MaxPerDay]

\* Every variable holds what the rest of the module takes it to hold.
TypeOK ==
  /\ today \in Days /\ file \in [date : {0} \cup Days, used : 0 .. MaxPerDay]
  /\ lock \in Takers \cup {"nobody"} /\ asked \in 0 .. MaxTakes
  /\ taker \in [Takers -> Places]
  /\ taken \in [Days -> Nat]

\* No more messages go out on a day's account than a day may have, whoever asks and however
\* they meet, unless one was killed within the rewrite of the file, or wrote for a day that
\* was over: then what was counted is forgotten.
BudgetHolds == \A d \in Days \ torn : ~crossed => taken[d] <= MaxPerDay

-----------------------------------------------------------------------------
(* What makes BudgetHolds inductive.                                       *)

\* The lock is of whoever is at the file, and what that one read is still there.
LockHeld ==
  \A p \in Takers :
    /\ taker[p].at \in {"reads", "cuts", "writes", "written"} => lock = p
    /\ taker[p].at = "cuts" => taker[p].used = Used(p)
    /\ taker[p].at = "writes" => file = Empty
    /\ taker[p].at \in {"cuts", "writes"} => taker[p].used < MaxPerDay
    /\ taker[p] = Idle \/ taker[p].date \in {d \in Days : d <= today}

\* Whose message is counted in the file and has not gone out.
Holds(t, d) == t.at \in {"written", "owns", "sends"} /\ t.date = d
Granted(d) == {p \in Takers : Holds(taker[p], d)}
Out(d) == taken[d] + Cardinality(Granted(d))

\* Nothing went out on a day to come, no more than it may on a day that is over, and
\* what goes out today is in the file, or with whoever rewrites it.
CountOf(d) ==
  /\ d > today => Out(d) = 0
  /\ ~crossed /\ d \notin torn =>
       /\ Out(d) <= MaxPerDay
       /\ d = today =>
            \/ \E p \in Takers : taker[p].at = "writes" /\ (taker[p].date = d => Out(d) <= taker[p].used)
            \/ Out(d) <= IF file.date = d THEN file.used ELSE 0
Counted == \A d \in Days : CountOf(d)

Inductive == TypeOK /\ LockHeld /\ Counted /\ BudgetHolds
=============================================================================
