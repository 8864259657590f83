-------------------------------- MODULE Accounts --------------------------------
(***************************************************************************)
(* People and new rigs at the door: the one-time codes, the states of a    *)
(* GitHub round trip, the tokens of rigs that join, the sessions, and the  *)
(* merging of two accounts of one person, as the store's statements, with  *)
(* requests beside each other.  A store call reads outside a transaction   *)
(* and begins one at its first write.  The portal that makes the calls is  *)
(* outside the repository: in what order it makes them is taken from what  *)
(* the store says of itself.                                               *)
(***************************************************************************)
EXTENDS Naturals, FiniteSets

CONSTANTS
  Callers, MaxCalls,    \* requests at once, and bound: in all
  Emails, Browsers, States,
  People,               \* [accounts -> the person it is of]
  EmailOf,              \* [accounts -> its verified address at first, or Nobody]
  Owned,                \* what carries an account's handle: rigs, and runs
  Rigs,                 \* rigs that join
  MaxAttempts,          \* SIGNIN_CODE_ATTEMPTS
  Nobody

Accounts == DOMAIN People

VARIABLES
  accounts,  \* accounts there are
  email,     \* [Accounts -> their verified address or Nobody]
  sessions,  \* sessions there are: [id, account, person (history)]
  codes,     \* [Emails -> the code: [id, browser, attempts, live] or Nobody]
  states,    \* [States -> "new", "spent" or the browser that began]
  joins,     \* [Rigs -> [token, status]]
  owner,     \* [Owned -> account or Nobody]
  call,      \* [Callers -> the request under way, or Idle]
  begun,     \* requests begun; each is known by its number
  used,      \* history: <<secret, request>> for each secret that let somebody in
  wrong,     \* history: [codes made -> wrong guesses judged]
  stale      \* history: an account was merged, or given something, or a join opened
             \* again, on what was read and had changed since

vars == <<accounts, email, sessions, codes, states, joins, owner, call, begun, used, wrong, stale>>
people == <<accounts, email, owner>>
doors  == <<codes, states, joins, wrong>>

Idle == [op |-> "idle"]
None == [id |-> 0, browser |-> Nobody, attempts |-> 0, live |-> FALSE]

Init ==
  /\ accounts = Accounts /\ email = EmailOf
  /\ sessions = {[id |-> <<0, Nobody>>, account |-> a, person |-> People[a]] : a \in Accounts}
  /\ codes = [e \in Emails |-> None] /\ states = [s \in States |-> "new"]
  /\ joins = [r \in Rigs |-> [token |-> 1, status |-> "waiting"]]
  /\ owner \in [Owned -> Accounts]
  /\ call = [c \in Callers |-> Idle] /\ begun = 0
  /\ used = {} /\ wrong = [n \in 1 .. MaxCalls |-> 0] /\ stale = FALSE

Begins(c, request) ==
  /\ call[c] = Idle /\ begun < MaxCalls
  /\ begun' = begun + 1
  /\ call' = [call EXCEPT ![c] = request]
Ends(c) == call' = [call EXCEPT ![c] = Idle] /\ UNCHANGED begun
OneStep(c) == Begins(c, Idle)

-----------------------------------------------------------------------------
(* A code by mail.                                                         *)

\* create_signin_code: the one before goes.
AsksCode(c, e, b) ==
  /\ OneStep(c)
  /\ codes' = [codes EXCEPT ![e] = [id |-> begun', browser |-> b, attempts |-> 0, live |-> TRUE]]
  /\ UNCHANGED <<people, sessions, states, joins, used, wrong, stale>>

\* consume_signin_code, its read: a code from the wrong browser is a wrong one.
ReadsCode(c, e, b, guess) ==
  /\ codes[e].live
  /\ Begins(c, [op |-> "code", email |-> e, row |-> codes[e],
                right |-> guess = codes[e].id /\ b = codes[e].browser])
  /\ UNCHANGED <<people, sessions, doors, used, stale>>

LetIn(c, secret, account) ==
  /\ used' = used \cup {<<secret, begun, c>>}
  /\ IF account = Nobody THEN Ends(c)
     ELSE call' = [call EXCEPT ![c] = [op |-> "session", account |-> account]] /\ UNCHANGED begun

AccountWith(e) == IF \E a \in accounts : email[a] = e THEN CHOOSE a \in accounts : email[a] = e ELSE Nobody

\* The delete is the test.  Variant: to have read it is.
SpendsAsRead(c) ==
  /\ call[c].op = "code" /\ call[c].right
  /\ codes' = [codes EXCEPT ![call[c].email] = IF @.id = call[c].row.id THEN None ELSE @]
  /\ LetIn(c, <<"code", call[c].row.id>>, AccountWith(call[c].email))
  /\ UNCHANGED <<people, sessions, states, joins, wrong, stale>>

SpendsCode(c) ==
  /\ call[c].op = "code" /\ call[c].right
  /\ IF codes[call[c].email].id = call[c].row.id
       THEN /\ codes' = [codes EXCEPT ![call[c].email] = None]
            /\ LetIn(c, <<"code", call[c].row.id>>, AccountWith(call[c].email))
       ELSE Ends(c) /\ UNCHANGED <<codes, used>>
  /\ UNCHANGED <<people, sessions, states, joins, wrong, stale>>

\* Counted in the row, which goes after so many.
GuessesWrong(c) ==
  /\ call[c].op = "code" /\ ~call[c].right
  /\ LET e == call[c].email
         n == codes[e].attempts + 1 IN
     IF codes[e].id = call[c].row.id
       THEN codes' = [codes EXCEPT ![e] = IF n >= MaxAttempts THEN None ELSE [@ EXCEPT !.attempts = n]]
       ELSE UNCHANGED codes
  /\ wrong' = [wrong EXCEPT ![call[c].row.id] = @ + 1]
  /\ Ends(c)
  /\ UNCHANGED <<people, sessions, states, joins, used, stale>>

\* Its minutes are over; prune_signins takes it when it comes by.
CodeExpires(e) ==
  /\ codes[e].live
  /\ codes' = [codes EXCEPT ![e].live = FALSE]
  /\ UNCHANGED <<people, sessions, states, joins, call, begun, used, wrong, stale>>
Prunes ==
  /\ \E e \in Emails : codes[e].id # 0 /\ ~codes[e].live
  /\ codes' = [e \in Emails |-> IF codes[e].live THEN codes[e] ELSE None]
  /\ UNCHANGED <<people, sessions, states, joins, call, begun, used, wrong, stale>>

-----------------------------------------------------------------------------
(* A round trip to GitHub.                                                 *)

BeginsState(c, s, b) ==
  /\ states[s] = "new" /\ OneStep(c)
  /\ states' = [states EXCEPT ![s] = b]
  /\ UNCHANGED <<people, sessions, codes, joins, used, wrong, stale>>

\* consume_oauth_state: read, then spent by being presented, right or wrong.
ReadsState(c, s, b) ==
  /\ states[s] # "new"
  /\ Begins(c, [op |-> "state", state |-> s, right |-> states[s] = b])
  /\ UNCHANGED <<people, sessions, doors, used, stale>>

SpendsState(c, account) ==
  /\ call[c].op = "state"
  /\ IF call[c].right /\ states[call[c].state] # "spent"
       THEN LetIn(c, <<"state", call[c].state>>, account)
       ELSE Ends(c) /\ UNCHANGED used
  /\ states' = [states EXCEPT ![call[c].state] = "spent"]
  /\ UNCHANGED <<people, sessions, codes, joins, wrong, stale>>

-----------------------------------------------------------------------------
(* Sessions.                                                               *)

CreatesSession(c) ==
  /\ call[c].op = "session"
  /\ sessions' = sessions \cup {[id |-> <<begun, c>>, account |-> call[c].account,
                                 person |-> People[call[c].account]]}
  /\ Ends(c)
  /\ UNCHANGED <<people, doors, used, stale>>

\* session_account: a session of an account that is gone is nobody's.
Shows(s) == IF s.account \in accounts THEN s.account ELSE Nobody

SignsOut(c, s) ==
  /\ OneStep(c)
  /\ sessions' = sessions \ {s}
  /\ UNCHANGED <<people, doors, used, stale>>

\* delete_other_sessions, delete_account_session.
SignsOutOthers(c, s) ==
  /\ Shows(s) # Nobody /\ OneStep(c)
  /\ sessions' = {t \in sessions : t.account # s.account \/ t = s}
  /\ UNCHANGED <<people, doors, used, stale>>

-----------------------------------------------------------------------------
(* Two accounts of one person, and what an account owns.                   *)

\* merge_accounts reads both rows before its transaction begins.
MergeReads(c, keep, drop) ==
  /\ {keep, drop} \subseteq accounts /\ keep # drop /\ People[keep] = People[drop]
  /\ Begins(c, [op |-> "merge", keep |-> keep, drop |-> drop, email |-> [k |-> email[keep], d |-> email[drop]]])
  /\ UNCHANGED <<people, sessions, doors, used, stale>>

Moved(m, a) == IF a = m.drop THEN m.keep ELSE a

\* Variant: what it owned stays under the dropped handle.
MergeForgets(c) ==
  /\ call[c].op = "merge"
  /\ accounts' = accounts \ {call[c].drop}
  /\ sessions' = {[s EXCEPT !.account = Moved(call[c], @)] : s \in sessions}
  /\ UNCHANGED <<owner, email>>
  /\ stale' = (stale \/ ~({call[c].keep, call[c].drop} \subseteq accounts))
  /\ Ends(c)
  /\ UNCHANGED <<doors, used>>

MergeWrites(c) ==
  /\ call[c].op = "merge"
  /\ LET m == call[c] IN
     /\ sessions' = {[s EXCEPT !.account = Moved(m, @)] : s \in sessions}
     /\ owner' = [t \in Owned |-> Moved(m, owner[t])]
     /\ accounts' = accounts \ {m.drop}
     /\ email' = [a \in Accounts |->
          CASE a = m.drop -> Nobody
            [] a = m.keep /\ a \in accounts /\ m.email.k = Nobody /\ m.email.d # Nobody -> m.email.d
            [] OTHER -> email[a]]
     /\ stale' = (stale \/ ~({m.keep, m.drop} \subseteq accounts))
  /\ Ends(c)
  /\ UNCHANGED <<doors, used>>

\* set_rig_owner, create: the handle of a request identified before.
GivesReads(c, t, a) ==
  /\ a \in accounts
  /\ Begins(c, [op |-> "give", what |-> t, account |-> a])
  /\ UNCHANGED <<people, sessions, doors, used, stale>>
Gives(c) ==
  /\ call[c].op = "give"
  /\ owner' = [owner EXCEPT ![call[c].what] = call[c].account]
  /\ stale' = (stale \/ call[c].account \notin accounts)
  /\ Ends(c)
  /\ UNCHANGED <<accounts, email, sessions, doors, used>>

-----------------------------------------------------------------------------
(* A rig that joins.                                                       *)

\* claim_enrollment: one statement.  Then its key is made, or that fails.
Claims(c, r) ==
  /\ joins[r].status = "waiting"
  /\ Begins(c, [op |-> "join", rig |-> r, token |-> joins[r].token])
  /\ joins' = [joins EXCEPT ![r].status = "used"]
  /\ UNCHANGED <<people, sessions, codes, states, used, wrong, stale>>

MakesKey(c) ==
  /\ call[c].op = "join"
  /\ LetIn(c, <<call[c].rig, call[c].token>>, Nobody)
  /\ UNCHANGED <<people, sessions, doors, stale>>

\* unclaim_enrollment does not look at what it opens again.
Unclaims(c) ==
  /\ call[c].op = "join"
  /\ joins' = [joins EXCEPT ![call[c].rig].status = "waiting"]
  /\ stale' = (stale \/ joins[call[c].rig].token # call[c].token)
  /\ Ends(c)
  /\ UNCHANGED <<people, sessions, codes, states, used, wrong>>

\* renew_enrollment: a new token, for a rig that has not joined yet.
Renews(c, r) ==
  /\ OneStep(c)
  /\ joins' = [joins EXCEPT ![r] = [token |-> @.token + 1, status |-> "waiting"]]
  /\ UNCHANGED <<people, sessions, codes, states, used, wrong, stale>>

Next ==
  \/ \E c \in Callers :
       \/ \E e \in Emails, b \in Browsers :
            AsksCode(c, e, b) \/ (\E guess \in 0 .. begun : ReadsCode(c, e, b, guess))
       \/ SpendsCode(c) \/ GuessesWrong(c)
       \/ \E s \in States, b \in Browsers : BeginsState(c, s, b) \/ ReadsState(c, s, b)
       \/ \E a \in accounts : SpendsState(c, a)
       \/ CreatesSession(c)
       \/ \E s \in sessions : SignsOut(c, s) \/ SignsOutOthers(c, s)
       \/ \E k, d \in Accounts : MergeReads(c, k, d)
       \/ MergeWrites(c)
       \/ \E t \in Owned, a \in Accounts : GivesReads(c, t, a)
       \/ Gives(c)
       \/ \E r \in Rigs : Claims(c, r) \/ Renews(c, r)
       \/ MakesKey(c) \/ Unclaims(c)
  \/ \E e \in Emails : CodeExpires(e)
  \/ Prunes

Spec == Init /\ [][Next]_vars

-----------------------------------------------------------------------------
\* Every variable holds what the rest of the module takes it to hold.
TypeOK ==
  /\ accounts \subseteq Accounts /\ email \in [Accounts -> Emails \cup {Nobody}]
  /\ owner \in [Owned -> Accounts] /\ begun \in 0 .. MaxCalls /\ stale \in BOOLEAN
  /\ \A s \in sessions : s.account \in Accounts
  /\ states \in [States -> {"new", "spent"} \cup Browsers]

\* A code, a state and, until a join is opened again on what had changed, a token let
\* somebody in once, however many present them at once.
UsedOnce ==
  \A u, v \in used : u[1] = v[1] => u = v \/ (stale /\ u[1][1] \in Rigs)

\* The cap on guesses holds also for guesses made at once: a code that can still let
\* somebody in was guessed wrong fewer than MaxAttempts times.
CapHolds == \A e \in Emails : codes[e] # None => wrong[codes[e].id] < MaxAttempts

\* A session is of the person who signed in.  What an account owned has an account to
\* answer for it, and every person still has one, unless a merge or a gift acted on an
\* account that was dropped since it was read.
NobodyStranded ==
  /\ \A s \in sessions : Shows(s) # Nobody => People[Shows(s)] = s.person
  /\ ~stale => /\ \A t \in Owned : owner[t] \in accounts
               /\ {People[a] : a \in accounts} = {People[a] : a \in Accounts}

-----------------------------------------------------------------------------
(* What the properties rest on.                                            *)

Code(q)   == /\ q.email \in Emails /\ q.row.id \in 1 .. begun
             /\ \A e \in Emails : codes[e].id = q.row.id => e = q.email
State(q)  == q.state \in States
Enters(q) == q.account \in Accounts
Merge(q)  == /\ {q.keep, q.drop} \subseteq Accounts /\ q.keep # q.drop
             /\ People[q.keep] = People[q.drop]
             /\ {q.email.k, q.email.d} \subseteq Emails \cup {Nobody}
Give(q)   == q.what \in Owned /\ q.account \in Accounts
Join(q)   == q.rig \in Rigs /\ q.token \in Nat

\* A request holds what it read, and a code it read is that of its address or gone.
RequestsHold ==
  /\ call = [c \in Callers |-> call[c]]
  /\ \A c \in Callers :
       LET q == call[c] IN
       /\ q.op = "code" => Code(q)
       /\ q.op = "state" => State(q)
       /\ q.op = "session" => Enters(q)
       /\ q.op = "merge" => Merge(q)
       /\ q.op = "give" => Give(q)
       /\ q.op = "join" => Join(q)

\* Codes have numbers of their own, none of a code to come, and their guesses are counted.
CodesApart ==
  /\ codes \in [Emails -> [id : 0 .. begun, browser : Browsers \cup {Nobody}, attempts : Nat,
                          live : BOOLEAN]]
  /\ wrong \in [1 .. MaxCalls -> Nat] /\ \A n \in 1 .. MaxCalls : n > begun => wrong[n] = 0
  /\ \A e \in Emails : IF codes[e].id = 0 THEN codes[e] = None
                       ELSE codes[e].attempts = wrong[codes[e].id] /\ codes[e].attempts < MaxAttempts
  /\ \A e, f \in Emails : codes[e].id = codes[f].id /\ codes[e].id # 0 => e = f

\* What let somebody in is gone: the code, the state and, until a join is opened again on
\* what had changed, the token.
CodesSpent ==
  \A u \in used : u[1][1] = "code" =>
    u[1][2] \in 1 .. begun /\ \A e \in Emails : codes[e].id # u[1][2]
StatesSpent == \A u \in used : u[1][1] = "state" => u[1][2] \in States /\ states[u[1][2]] = "spent"
TokensSpent ==
  ~stale => \A u \in used : u[1][1] \in Rigs =>
    /\ u[1][2] \in Nat /\ u[1][2] <= joins[u[1][1]].token
    /\ u[1][2] = joins[u[1][1]].token => joins[u[1][1]].status = "used"
    /\ \A c \in Callers : call[c].op = "join" =>
         ~(u[1][1] = call[c].rig /\ u[1][2] = call[c].token)

\* A token is claimed by one request, and claimed while that is under way.
JoinsApart ==
  /\ joins \in [Rigs -> [token : Nat, status : {"waiting", "used"}]]
  /\ ~stale =>
       /\ \A c \in Callers : call[c].op = "join" =>
            /\ call[c].token <= joins[call[c].rig].token
            /\ call[c].token = joins[call[c].rig].token => joins[call[c].rig].status = "used"
       /\ \A c, d \in Callers : call[c].op = "join" /\ call[d].op = "join" /\ c # d =>
            <<call[c].rig, call[c].token>> # <<call[d].rig, call[d].token>>

SessionsKept ==
  /\ sessions \subseteq [id : Nat \X (Callers \cup {Nobody}), account : Accounts,
                          person : {People[a] : a \in Accounts}]
  /\ \A s \in sessions : People[s.account] = s.person

Inductive ==
  /\ TypeOK /\ RequestsHold /\ CodesApart /\ CodesSpent /\ StatesSpent /\ TokensSpent
  /\ JoinsApart /\ SessionsKept /\ UsedOnce /\ NobodyStranded
=============================================================================
