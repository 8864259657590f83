-------------------------------- MODULE Requests --------------------------------
(***************************************************************************)
(* How the API takes a change: who asks (the keys file as the service      *)
(* remembers it, or a browser's session), whether they may, the handler,   *)
(* the row of the audit and the answer, in the order they happen, with     *)
(* requests beside each other and a keys file that is written, goes out of *)
(* reach and comes back.  What a handler does to the farm is in the other  *)
(* modules; here it changes something or not.  Reads are left out.         *)
(***************************************************************************)
EXTENDS Naturals, Sequences, FiniteSets

CONSTANTS
  Callers,     \* requests, each made once
  Keys,        \* named keys somebody holds
  Sessions,    \* signed-in browsers
  RoleOf,      \* [Sessions -> "admin", "user" or "guest"]
  Tried,       \* the routes asked for, some of Routes
  FailureLimit, \* refused join tokens of one address before it is turned away
  MaxWrites,   \* bound: changes of the keys file
  Nobody

VARIABLES
  file, version,        \* the keys file: [Keys -> role or Nobody], and its stamp
  statable, loadable,   \* the file can be looked at, and read
  cached, stamp,        \* what the service read last, and of which stamp
  lock,                 \* the key store's lock
  req,                  \* [Callers -> the request: see Request]
  audit,                \* [Callers -> the statuses recorded for it]
  failures              \* refused join tokens counted

vars == <<file, version, statable, loadable, cached, stamp, lock, req, audit, failures>>
keyfile == <<file, version, statable, loadable>>
memory  == <<cached, stamp>>

Reload == 0   \* _STAMP_RELOAD: the stamp of no file

-----------------------------------------------------------------------------
(* The routes that change something: the least role each needs, whether a  *)
(* signed-in person may use it, what its handler answers by itself, and    *)
(* whether it is a call a worker makes all the time.                       *)

Route(needs, account, says) == [needs |-> needs, account |-> account, says |-> says, routine |-> FALSE]
Routine(says) == [needs |-> "node", account |-> FALSE, says |-> says, routine |-> TRUE]
Call == {200, 400, 403, 404, 409}   \* _worker_call, _webhook_call

RigRoutes ==
  [sessions_revoke |-> Route("user", TRUE, {200, 400, 401, 404}),
   hello           |-> Routine(Call),  \* hello, heartbeat and lease
   webhooks        |-> Route("admin", FALSE, Call),
   rig_owner       |-> Route("admin", FALSE, Call),
   rig_visibility  |-> Route("user", TRUE, Call),
   rig_webhooks    |-> Route("user", TRUE, Call),
   farm_notify     |-> Route("admin", FALSE, {200, 400, 404, 409}),
   command_start   |-> Route("node", FALSE, Call),
   command_result  |-> Route("node", FALSE, Call)]

WorkerRoutes ==
  [rigs            |-> Route("admin", TRUE, {201, 400, 403, 409}),
   rig_join        |-> Route("admin", TRUE, Call),
   commands        |-> Route("admin", FALSE, {202, 400, 404, 409}),
   drain           |-> Route("admin", FALSE, Call),
   history         |-> Routine(Call \cup {413}),
   stages          |-> Routine(Call \cup {413}),  \* and log
   result          |-> Route("node", FALSE, Call \cup {413}),  \* and evidence
   hold            |-> Route("admin", FALSE, {200, 400, 404}),
   register        |-> Route("admin", FALSE, {201, 400, 409, 500})]

RunRoutes ==
  [cancel          |-> Route("user", TRUE, {200, 403, 404, 409}),
   promote         |-> Route("admin", FALSE, {200, 404, 409}),
   pause           |-> Route("admin", FALSE, {200}),  \* and resume
   pin             |-> Route("admin", FALSE, {200, 400, 404, 409}),
   retention_run   |-> Route("admin", FALSE, {200, 400}),
   prune           |-> Route("admin", FALSE, {200, 202, 400, 409, 500})]

StoreRoutes ==
  [releases        |-> Route("admin", FALSE, {201, 400, 409, 413}),
   release_files   |-> Route("admin", FALSE, {201, 400, 404, 409, 413}),
   release_current |-> Route("admin", FALSE, {200, 404, 409}),
   artifacts       |-> Route("user", FALSE, {201, 400, 413, 500}),
   health          |-> Route("user", FALSE, {202, 400, 409}),
   builds          |-> Route("admin", FALSE, {410}),
   refresh         |-> Route("user", FALSE, {202, 400, 403, 409}),
   suites          |-> Route("user", TRUE, {202, 400, 403, 409})]

DeleteRoutes ==
  [rig_delete      |-> Route("admin", TRUE, Call),  \* and PATCH
   bundle_delete   |-> Route("admin", FALSE, {200, 404, 409, 500}),
   unregister      |-> Route("admin", FALSE, {200, 400, 409, 500})]

\* Handled outside _mutate, and so is an enrolment: a handler that raises is not recorded.
UnguardedRoutes ==
  [webhook_delete     |-> Route("admin", FALSE, Call),
   rig_webhook_delete |-> Route("user", TRUE, Call),
   notify_delete      |-> Route("admin", FALSE, {200, 404})]

Tables == {RigRoutes, WorkerRoutes, RunRoutes, StoreRoutes, DeleteRoutes, UnguardedRoutes}
Of(r)  == (CHOOSE t \in Tables : r \in DOMAIN t)[r]
Guarded(r) == r \notin DOMAIN UnguardedRoutes

\* allowed.
Allows(who, role, r) ==
  /\ role = "node" <=> Of(r).needs = "node"
  /\ \/ role \in {"node", "admin"}
     \/ role = "guest" /\ r = "sessions_revoke"
     \/ role = "user" /\ IF who \in Sessions THEN Of(r).account ELSE Of(r).needs = "user"

-----------------------------------------------------------------------------
\* at: where it is.  who, role: as identified.  json: it carries a JSON body.
\* granted (history): since it arrived, the file has had its key, in a role that may.
\* blind (history): the file could not be looked at when it was identified.
Request == [at |-> "none", who |-> Nobody, route |-> "none", json |-> TRUE, role |-> Nobody,
            read |-> Reload, status |-> 0, changed |-> FALSE, lost |-> FALSE,
            granted |-> FALSE, blind |-> FALSE]

Init ==
  /\ file \in [Keys -> {"admin", "node"}] /\ version = 1
  /\ statable = TRUE /\ loadable = TRUE
  /\ cached = [k \in Keys |-> Nobody] /\ stamp = Reload
  /\ lock = Nobody
  /\ req = [c \in Callers |-> Request]
  /\ audit = [c \in Callers |-> <<>>] /\ failures = 0

InFile(q, f) == q.who \in Keys /\ Allows(q.who, f[q.who], q.route)

\* A key is made, revoked or given another role by another process.
Written(k) ==
  /\ version <= MaxWrites
  /\ \E role \in {"admin", "user", Nobody} \ {file[k]} : file' = [file EXCEPT ![k] = role]
  /\ version' = version + 1
  /\ req' = [c \in Callers |-> [req[c] EXCEPT !.granted = @ \/ (req[c].at # "none" /\ InFile(req[c], file'))]]
  /\ UNCHANGED <<statable, loadable, memory, lock, audit, failures>>

\* Its permissions, or its directory's, go and come back; its stamp stays.
OutOfReach ==
  /\ IF statable /\ loadable
       THEN \/ statable' = FALSE /\ UNCHANGED loadable
            \/ loadable' = FALSE /\ UNCHANGED statable
       ELSE statable' = TRUE /\ loadable' = TRUE
  /\ UNCHANGED <<file, version, memory, lock, req, audit, failures>>

-----------------------------------------------------------------------------
(* One request.                                                            *)

Arrives(c, who, r) ==
  /\ req[c].at = "none"
  /\ \E json \in BOOLEAN :
       /\ who \in Keys => json
       /\ LET q == [Request EXCEPT !.who = who, !.route = r, !.json = json, !.at = "arrived"]
          IN  req' = [req EXCEPT ![c] = [q EXCEPT !.granted = who \in Sessions \/ InFile(q, file)]]
  /\ UNCHANGED <<keyfile, memory, lock, audit, failures>>

\* _refresh, its first half: the file's stamp.
Looks(c) ==
  /\ req[c].at = "arrived" /\ req[c].who \in Keys /\ lock = Nobody
  /\ IF ~statable \/ version = stamp
       THEN req' = [req EXCEPT ![c].at = "known", ![c].role = cached[req[c].who], ![c].blind = ~statable]
            /\ UNCHANGED lock
       ELSE req' = [req EXCEPT ![c].at = "reads", ![c].read = version] /\ lock' = c
  /\ UNCHANGED <<keyfile, memory, audit, failures>>

\* Its second half: what the file says by now, under the stamp it had.  A file that cannot
\* be read stops every named key, and is tried again at the next request.
\* Variant: the keys stay as they were, under the stamp looked at.
KeepsReading(c) ==
  /\ req[c].at = "reads"
  /\ IF loadable THEN cached' = file ELSE UNCHANGED cached
  /\ stamp' = req[c].read
  /\ req' = [req EXCEPT ![c].at = "known", ![c].role = cached'[req[c].who]]
  /\ lock' = Nobody
  /\ UNCHANGED <<keyfile, audit, failures>>

Reads(c) ==
  /\ req[c].at = "reads"
  /\ IF loadable THEN cached' = file /\ stamp' = req[c].read
                 ELSE cached' = [k \in Keys |-> Nobody] /\ stamp' = Reload
  /\ req' = [req EXCEPT ![c].at = "known", ![c].read = Reload,
                        ![c].role = cached'[req[c].who]]
  /\ lock' = Nobody
  /\ UNCHANGED <<keyfile, audit, failures>>

AsksSession(c) ==
  /\ req[c].at = "arrived" /\ req[c].who \in Sessions
  /\ req' = [req EXCEPT ![c].at = "known", ![c].role = RoleOf[req[c].who]]
  /\ UNCHANGED <<keyfile, memory, lock, audit, failures>>

\* _mutate: unknown, or a browser's form: answered without a row.  Else the row is pending.
Checks(c) ==
  /\ req[c].at = "known"
  /\ LET q == req[c] IN
     req' = [req EXCEPT ![c] =
       IF q.role = Nobody THEN [q EXCEPT !.at = "done", !.status = 401]
       ELSE IF q.who \in Sessions /\ ~q.json THEN [q EXCEPT !.at = "done", !.status = 403]
       ELSE IF Allows(q.who, q.role, q.route) THEN [q EXCEPT !.at = "handler"]
       \* Outside _mutate the row is pending only once the role is checked.
       ELSE [q EXCEPT !.at = IF Guarded(q.route) THEN "answer" ELSE "done", !.status = 403]]
  /\ UNCHANGED <<keyfile, memory, lock, audit, failures>>

\* The handler answers, or raises what it does not catch; either may be after a change.
Handles(c) ==
  /\ req[c].at = "handler"
  /\ \/ \E s \in Of(req[c].route).says, changed \in BOOLEAN :
          /\ s \in 200 .. 202 \/ s = 500 \/ ~changed
          /\ req' = [req EXCEPT ![c] = [@ EXCEPT !.at = "answer", !.status = s, !.changed = changed]]
     \/ \E changed \in BOOLEAN :
          req' = [req EXCEPT ![c] = [@ EXCEPT !.at = "raised", !.status = 500, !.changed = changed]]
  /\ UNCHANGED <<keyfile, memory, lock, audit, failures>>

\* _record_audit: a worker's routine calls leave no row; a row that cannot be written is
\* lost, and the answer stands.
Quiet(q) == q.role = "node" /\ Of(q.route).routine
Records(c, next) ==
  \/ /\ audit' = IF Quiet(req[c]) THEN audit ELSE [audit EXCEPT ![c] = Append(@, req[c].status)]
     /\ req' = [req EXCEPT ![c].at = next]
  \/ /\ ~Quiet(req[c])
     /\ UNCHANGED audit
     /\ req' = [req EXCEPT ![c].at = next, ![c].lost = TRUE]

\* send_response: the row is written before any of the answer leaves.
Answers(c) ==
  /\ req[c].at = "answer"
  /\ Records(c, "sent")
  /\ UNCHANGED <<keyfile, memory, lock, failures>>

\* The answer arrives, or the connection is gone; the row is not pending any more.
\* Variant: what is left to the end is recorded again.
SendsAgain(c) ==
  /\ req[c].at = "sent"
  /\ Records(c, "done")
  /\ UNCHANGED <<keyfile, memory, lock, failures>>

Sends(c) ==
  /\ req[c].at = "sent"
  /\ req' = [req EXCEPT ![c].at = "done"]
  /\ UNCHANGED <<keyfile, memory, lock, audit, failures>>

\* The finally of _mutate.
Recorded(q) == Guarded(q.route) /\ q.role # "enroll"
Raised(c) ==
  /\ req[c].at = "raised"
  /\ IF Recorded(req[c]) THEN Records(c, "done")
     ELSE req' = [req EXCEPT ![c].at = "done"] /\ UNCHANGED audit
  /\ UNCHANGED <<keyfile, memory, lock, failures>>

\* _enroll: no key.  Refusals are counted after the token was looked at.
Enrols(c) ==
  /\ req[c].at = "none"
  /\ LET q == [Request EXCEPT !.route = "result", !.role = "enroll"] IN
     IF failures >= FailureLimit
       THEN req' = [req EXCEPT ![c] = [q EXCEPT !.at = "answer", !.status = 429]]
       ELSE req' = [req EXCEPT ![c] = [q EXCEPT !.at = "redeems"]]
  /\ UNCHANGED <<keyfile, memory, lock, audit, failures>>

Redeems(c) ==
  /\ req[c].at = "redeems"
  /\ \E s \in {200, 400, 403, 409, 500}, changed \in BOOLEAN :
       /\ s # 500 => (changed <=> s = 200)
       /\ req' = [req EXCEPT ![c] = [@ EXCEPT !.at = IF s = 500 THEN "raised" ELSE "answer",
                                              !.status = s, !.changed = changed, !.granted = TRUE]]
       /\ failures' = IF s \in {400, 403} THEN failures + 1 ELSE failures
  /\ UNCHANGED <<keyfile, memory, lock, audit>>

Next ==
  \/ \E k \in Keys : Written(k)
  \/ OutOfReach
  \/ \E c \in Callers :
       \/ \E who \in Keys \cup Sessions, r \in Tried : Arrives(c, who, r)
       \/ Looks(c) \/ Reads(c) \/ AsksSession(c) \/ Checks(c)
       \/ Handles(c) \/ Answers(c) \/ Sends(c) \/ Raised(c)
       \/ Enrols(c) \/ Redeems(c)

Spec == Init /\ [][Next]_vars

-----------------------------------------------------------------------------
Requested ==
  [at : {"none", "arrived", "reads", "known", "handler", "redeems", "answer", "sent", "raised", "done"},
   who : Keys \cup Sessions \cup {Nobody}, route : Tried \cup {"none", "result"},
   role : {"admin", "user", "node", "guest", "enroll", Nobody}, read : Nat, status : Nat,
   json : BOOLEAN, changed : BOOLEAN, lost : BOOLEAN, granted : BOOLEAN, blind : BOOLEAN]

\* Every variable holds what the rest of the module takes it to hold.
TypeOK ==
  /\ file \in [Keys -> {"admin", "user", "node", Nobody}] /\ version \in 1 .. MaxWrites + 1
  /\ cached \in [Keys -> {"admin", "user", "node", Nobody}] /\ stamp \in 0 .. version
  /\ lock \in Callers \cup {Nobody} /\ audit \in [Callers -> Seq(Nat)]
  /\ req \in [Callers -> Requested]

\* A key created or revoked takes effect on the next request: whatever a request changed,
\* the file had its key, in a role that may, at some time since it arrived -- unless the
\* file could not be looked at.  And what was handled and answered is in the audit once,
\* with the status of its answer, before the answer leaves; a handler that raised is there
\* as 500, unless it is one of the four outside _mutate.
ChangesAnswered ==
  \A c \in Callers : LET q == req[c] IN
    /\ q.changed => q.granted \/ q.blind
    /\ q.at \in {"sent", "done"} /\ q.changed /\ ~q.lost /\ ~Quiet(q) =>
         audit[c] = <<q.status>> \/ (audit[c] = <<>> /\ ~Recorded(q) /\ q.status = 500)
    /\ Len(audit[c]) <= 1

-----------------------------------------------------------------------------
(* What makes ChangesAnswered inductive.                                   *)

\* What is remembered under the file's stamp is what the file says.
StampIsTrue ==
  /\ stamp = version => cached = file
  /\ \A c \in Callers : req[c].read <= version

\* A key that is in the file, in a role that may, was there since the request arrived; one
\* that is known to be in such a role was, or the file could not be looked at.
KnownWas ==
  \A c \in Callers : LET q == req[c] IN
    /\ q.at # "none" /\ InFile(q, file) => q.granted
    /\ q.at # "none" /\ q.who \in Sessions => q.granted
    /\ q.at \in {"arrived", "reads", "known", "handler"} => q.route \in Tried
    /\ q.at = "reads" => q.who \in Keys
    /\ q.at = "known" /\ q.role # Nobody /\ Allows(q.who, q.role, q.route) => q.granted \/ q.blind
    /\ q.at = "handler" => q.granted \/ q.blind

\* Nothing is changed before the handler, and nothing recorded before the answer.
NotYet ==
  \A c \in Callers : LET q == req[c] IN
    /\ q.at \in {"none", "arrived", "reads", "known", "handler", "redeems"} => ~q.changed
    /\ q.at \notin {"sent", "done"} => audit[c] = <<>>
    /\ q.at = "raised" => q.status = 500

Inductive == TypeOK /\ StampIsTrue /\ KnownWas /\ NotYet /\ ChangesAnswered
=============================================================================
