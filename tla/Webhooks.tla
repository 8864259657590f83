------------------------------- MODULE Webhooks -------------------------------
(***************************************************************************)
(* Events told to the subscriptions that want them: a delivery tries a     *)
(* number of times, with one identity, waits longer after each failure,    *)
(* and writes every attempt into the log of its subscription, of which the *)
(* newest rows are kept.  A delivery works on the subscription as it was   *)
(* when the event happened, whatever is done to it since.                  *)
(***************************************************************************)
EXTENDS Naturals, Sequences

CONSTANTS
  Subs,        \* subscriptions
  Scopes,      \* what a subscription is of: "farm" or a rig
  Rigs,        \* what an event is of
  Deliveries,  \* bound: identities of deliveries, 1 .. n
  Retries,     \* max_retries a subscription may have, above 0
  Kept         \* WEBHOOK_DELIVERIES_KEPT

VARIABLES
  sub,        \* [Subs -> [scope, active, tries], or Gone]
  log,        \* rows of webhook_deliveries: [sub, delivery, attempt, state], as they were written
  delivery,   \* [Deliveries -> the delivery, or Gone]
  arrived,    \* history: deliveries whose event reached the receiver
  answered,   \* history: deliveries that were answered 2xx
  cut,        \* history: deliveries that a raising record, or the end of the process, cut
  removed     \* history: subscriptions that were removed

vars == <<sub, log, delivery, arrived, answered, cut, removed>>

Gone == [at |-> "none"]
Fresh == {d \in Deliveries : delivery[d] = Gone /\ \A e \in 1 .. d - 1 : delivery[e] # Gone}
GoesTo(d, at) == delivery' = [delivery EXCEPT ![d].at = at]

Init ==
  /\ sub = [s \in Subs |-> Gone] /\ log = <<>>
  /\ delivery = [d \in Deliveries |-> Gone]
  /\ arrived = {} /\ answered = {} /\ cut = {} /\ removed = {}

-----------------------------------------------------------------------------
(* Subscriptions. *)

Add(s, scope, tries) ==
  /\ sub[s] = Gone /\ s \notin removed
  /\ sub' = [sub EXCEPT ![s] = [at |-> "there", scope |-> scope, active |-> TRUE, tries |-> tries]]
  /\ UNCHANGED <<log, delivery, arrived, answered, cut, removed>>

Update(s, active, tries) ==
  /\ sub[s] # Gone
  /\ sub' = [sub EXCEPT ![s].active = active, ![s].tries = tries]
  /\ UNCHANGED <<log, delivery, arrived, answered, cut, removed>>

\* With its log, in one transaction; a delivery under way goes on and writes into it again.
Removes(s) ==
  /\ sub[s] # Gone
  /\ sub' = [sub EXCEPT ![s] = Gone] /\ removed' = removed \cup {s}
  /\ log' = SelectSeq(log, LAMBDA row : row.sub # s)
  /\ UNCHANGED <<delivery, arrived, answered, cut>>

-----------------------------------------------------------------------------
(* A delivery. *)

\* Its scope covers the event and it is switched on; what it asked for is one with its scope.
Takes(s, rig) == sub[s] # Gone /\ sub[s].active /\ sub[s].scope \in {"farm", rig}

\* The portal's emit gives every subscription that takes an event a thread of its own.
Emit(d, s, rig) ==
  /\ d \in Fresh /\ Takes(s, rig)
  /\ delivery' = [delivery EXCEPT ![d] = [at |-> "sends", sub |-> s, tries |-> sub[s].tries,
                                          attempt |-> 1, ok |-> FALSE]]
  /\ UNCHANGED <<sub, log, arrived, answered, cut, removed>>

\* 2xx, or anything else: an error, a redirect, no answer, to an event that came or did not.
Post(d) ==
  /\ delivery[d].at = "sends"
  /\ \E ok \in BOOLEAN, comes \in BOOLEAN :
       /\ ok => comes
       /\ arrived' = IF comes THEN arrived \cup {d} ELSE arrived
       /\ answered' = IF ok THEN answered \cup {d} ELSE answered
       /\ delivery' = [delivery EXCEPT ![d].at = "records", ![d].ok = ok]
  /\ UNCHANGED <<sub, log, cut, removed>>

\* Variant: given up on one attempt early.
StateEarly(d) == IF delivery[d].ok THEN "success"
                 ELSE IF delivery[d].attempt + 1 < delivery[d].tries THEN "failed" ELSE "dead"
State(d) == IF delivery[d].ok THEN "success"
            ELSE IF delivery[d].attempt < delivery[d].tries THEN "failed" ELSE "dead"

\* Variant: the newest rows of all subscriptions together.
KeepsAnybodys(rows, s) ==
  SelectSeq(rows, LAMBDA row :
    row.sub # s \/ \E k \in 1 .. Len(rows) : rows[k] = row /\ k > Len(rows) - Kept)
KeepsNewest(rows, s) ==
  LET own == SelectSeq(rows, LAMBDA row : row.sub = s) IN
  SelectSeq(rows, LAMBDA row :
    row.sub # s \/ \E k \in 1 .. Len(own) : own[k] = row /\ k > Len(own) - Kept)

Record(d) ==
  /\ delivery[d].at = "records"
  /\ LET s == delivery[d].sub
         row == [sub |-> s, delivery |-> d, attempt |-> delivery[d].attempt, state |-> State(d)]
     IN log' = KeepsNewest(Append(log, row), s)
  /\ GoesTo(d, IF State(d) = "failed" THEN "sleeps" ELSE "ended")
  /\ UNCHANGED <<sub, arrived, answered, cut, removed>>

\* The store raises: out of deliver, whatever attempts were left.
RecordFails(d) ==
  /\ delivery[d].at = "records"
  /\ cut' = cut \cup {d} /\ GoesTo(d, "ended")
  /\ UNCHANGED <<sub, log, arrived, answered, removed>>

Wakes(d) ==
  /\ delivery[d].at = "sleeps"
  /\ delivery' = [delivery EXCEPT ![d].at = "sends", ![d].attempt = @ + 1]
  /\ UNCHANGED <<sub, log, arrived, answered, cut, removed>>

\* The process ends: deliveries are in no table, and are not taken up again.
Crash ==
  /\ cut' = cut \cup {d \in Deliveries : delivery[d].at \notin {"none", "ended"}}
  /\ cut' # cut
  /\ delivery' = [d \in Deliveries |-> IF delivery[d] = Gone THEN Gone
                                       ELSE [delivery[d] EXCEPT !.at = "ended"]]
  /\ UNCHANGED <<sub, log, arrived, answered, removed>>

Next ==
  \/ \E s \in Subs :
       \/ \E tries \in Retries : \/ \E scope \in Scopes : Add(s, scope, tries)
                                 \/ \E active \in BOOLEAN : Update(s, active, tries)
       \/ Removes(s)
       \/ \E d \in Deliveries, rig \in Rigs : Emit(d, s, rig)
  \/ \E d \in Deliveries : Post(d) \/ Record(d) \/ RecordFails(d) \/ Wakes(d)
  \/ Crash

Spec == Init /\ [][Next]_vars

-----------------------------------------------------------------------------
Of(d) == SelectSeq(log, LAMBDA row : row.delivery = d)
Rows(s) == SelectSeq(log, LAMBDA row : row.sub = s)

\* Every variable holds what the rest of the module takes it to hold.
TypeOK ==
  /\ \A s \in Subs : Len(Rows(s)) <= Kept
  /\ \A k \in 1 .. Len(log) : log[k].state \in {"success", "failed", "dead"}
  /\ answered \subseteq arrived

\* The log tells how a delivery went: of one that ended by itself, the last row says that it
\* arrived if and only if it was answered, or that it was given up on after as many attempts
\* as it had; the attempts before it follow one another and failed.  A row is missing only
\* where the log of its own subscription is full, or the subscription was removed.
LogTells ==
  \A d \in Deliveries : delivery[d].at = "ended" /\ d \notin cut /\ delivery[d].sub \notin removed =>
    LET rows == Of(d)  n == Len(rows)  all == delivery[d].attempt IN
    /\ n < all => Len(Rows(delivery[d].sub)) = Kept
    /\ \A k \in 1 .. n : rows[k].attempt = all - n + k
    /\ n > 0 => rows[n].state = IF d \in answered THEN "success" ELSE "dead"
    /\ d \notin answered => all = delivery[d].tries
    /\ \A k \in 1 .. n - 1 : rows[k].state = "failed"
=============================================================================
