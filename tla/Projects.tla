------------------------------- MODULE Projects -------------------------------
(***************************************************************************)
(* The projects a rig runs: the profiles its release ships, the documents  *)
(* its operator wrote over and beside them, and a tombstone for each       *)
(* shipped one that was removed.  Requests change those files in threads   *)
(* of their own, without a lock, and then each reads all of them again:    *)
(* the directory, document by document, then the tombstones.  A document   *)
(* that is listed and gone when it is read makes the whole reading fail,   *)
(* as one does that somebody put there by hand and is no profile.          *)
(***************************************************************************)
EXTENDS Naturals

CONSTANTS
  Callers,   \* request threads
  Names,     \* names of projects
  Shipped,   \* those the release ships
  Canary,    \* HEALTH_CHECK_PROFILE, which is shipped
  Asked,     \* those requests are for
  MaxCalls, MaxEdits  \* bounds: requests, and documents put there by hand

Absent  == 0     \* no document, no profile
AsShipped == 1   \* the release's profile; a document is told by a number above
Earlier == MaxCalls + 2  \* a document from before
Broken  == MaxCalls + 3  \* a document that is no profile

VARIABLES
  docs,      \* [Names -> the operator's document, or Absent]
  stones,    \* names with a tombstone
  profiles,  \* memory: [Names -> what runs under it, or Absent]
  hidden,    \* memory: _removed_profiles
  over,      \* memory: _overridden_profiles
  up,        \* the service runs
  call,      \* [Callers -> the request it works on, or Idle]
  begun, edits,
  said,      \* history: [Names -> what the last answered change made of it]
  doubt,     \* history: names whose last change was cut, failed, or met another of it
  apart      \* history: what is in memory was read beside, or before, a change

vars == <<docs, stones, profiles, hidden, over, up, call, begun, edits, said, doubt, apart>>
disk == <<docs, stones>>
memory == <<profiles, hidden, over>>

Idle == [at |-> "idle"]
Under(c, at) == up /\ call[c].at = at
Busy(n) == \E c \in Callers : call[c] # Idle /\ call[c].name = n
GoesTo(c, at) == call' = [call EXCEPT ![c].at = at]

-----------------------------------------------------------------------------
(* What the files say. *)

\* _load_every_profile: a document stands in for the shipped profile, a tombstone hides it,
\* the health check is neither.
Hidden(d, s) == {n \in Shipped \cap s : d[n] = Absent /\ n # Canary}
Effective(d, s) ==
  [n \in Names |-> IF d[n] # Absent THEN d[n]
                  ELSE IF n \in Shipped \ Hidden(d, s) THEN AsShipped ELSE Absent]
Overridden(d) == {n \in Shipped : d[n] # Absent}

Init ==
  /\ docs \in [Names -> {Absent, Earlier}] /\ docs[Canary] = Absent
  /\ stones \in SUBSET {n \in Shipped \ {Canary} : docs[n] = Absent}
  /\ profiles = Effective(docs, stones)
  /\ hidden = Hidden(docs, stones) /\ over = Overridden(docs)
  /\ up = TRUE /\ begun = 0 /\ edits = 0
  /\ call = [c \in Callers |-> Idle]
  /\ said = profiles /\ doubt = {} /\ apart = FALSE

-----------------------------------------------------------------------------
(* A request. *)

\* alone: it met no other of its project; single: it met none at all.
Begins(c, kind, n) ==
  /\ up /\ call[c] = Idle /\ begun < MaxCalls
  /\ begun' = begun + 1
  /\ call' = [d \in Callers |->
       IF d = c THEN [kind |-> kind, name |-> n, at |-> "checks", 
                      doc |-> IF kind \in {"create", "update"} THEN begun + 2 ELSE Absent,
                      back |-> FALSE, listed |-> {}, read |-> <<>>, alone |-> ~Busy(n),
                      single |-> \A o \in Callers : call[o] = Idle]
       ELSE IF call[d] = Idle THEN Idle
       ELSE [call[d] EXCEPT !.alone = @ /\ call[d].name # n, !.single = FALSE]]
  /\ UNCHANGED <<disk, memory, up, edits, said, doubt, apart>>

\* A name that is taken, one there is not, the health check, a repository that GitHub does
\* not show.
MayChange(c) ==
  LET n == call[c].name IN
  CASE call[c].kind = "create"  -> profiles[n] = Absent /\ n # Canary
    [] call[c].kind = "restore" -> n \in Shipped
    [] OTHER -> profiles[n] # Absent /\ n # Canary

Checks(c) ==
  /\ Under(c, "checks") /\ MayChange(c)
  /\ GoesTo(c, CASE call[c].kind = "create" -> IF call[c].name \in hidden THEN "unhides" ELSE "writes"
                 [] call[c].kind = "update" -> "writes"
                 [] call[c].kind = "delete" -> "unlinks"
                 [] OTHER -> "unhides")
  /\ UNCHANGED <<disk, memory, up, begun, edits, said, doubt, apart>>

Refused(c) ==
  /\ Under(c, "checks")
  /\ ~MayChange(c) \/ call[c].kind \in {"create", "update"}
  /\ call' = [call EXCEPT ![c] = Idle]
  /\ UNCHANGED <<disk, memory, up, begun, edits, said, doubt, apart>>

Unhides(c) ==
  /\ Under(c, "unhides")
  /\ stones' = stones \ {call[c].name}
  /\ GoesTo(c, IF call[c].kind = "create" THEN "writes" ELSE "unlinks")
  /\ UNCHANGED <<docs, memory, up, begun, edits, said, doubt, apart>>

\* _write_project: written beside, then put in its place.
Writes(c) ==
  /\ Under(c, "writes")
  /\ docs' = [docs EXCEPT ![call[c].name] = call[c].doc]
  /\ GoesTo(c, "lists")
  /\ UNCHANGED <<stones, memory, up, begun, edits, said, doubt, apart>>

\* Variant: a restored project's document stays where it is.
UnlinksOwn(c) ==
  /\ Under(c, "unlinks")
  /\ docs' = [docs EXCEPT ![call[c].name] = IF call[c].kind = "restore" THEN @ ELSE Absent]
  /\ GoesTo(c, IF call[c].kind = "delete" /\ call[c].name \in Shipped THEN "hides" ELSE "lists")
  /\ UNCHANGED <<stones, memory, up, begun, edits, said, doubt, apart>>

Unlinks(c) ==
  /\ Under(c, "unlinks")
  /\ docs' = [docs EXCEPT ![call[c].name] = Absent]
  /\ GoesTo(c, IF call[c].kind = "delete" /\ call[c].name \in Shipped THEN "hides" ELSE "lists")
  /\ UNCHANGED <<stones, memory, up, begun, edits, said, doubt, apart>>

Hides(c) ==
  /\ Under(c, "hides")
  /\ stones' = stones \cup {call[c].name}
  /\ GoesTo(c, "lists")
  /\ UNCHANGED <<docs, memory, up, begun, edits, said, doubt, apart>>

-----------------------------------------------------------------------------
(* reload_profiles. *)

Lists(c) ==
  /\ Under(c, "lists")
  /\ call' = [call EXCEPT ![c].at = "reads", ![c].listed = {n \in Names : docs[n] # Absent}]
  /\ UNCHANGED <<disk, memory, up, begun, edits, said, doubt, apart>>

\* Every listed document is there and is a profile.
Readable(listed) == \A n \in listed : docs[n] \notin {Absent, Broken}

ReadsDocuments(c) ==
  /\ Under(c, "reads") /\ Readable(call[c].listed)
  /\ call' = [call EXCEPT ![c].at = "tombstones",
                ![c].read = [n \in Names |-> IF n \in call[c].listed THEN docs[n] ELSE Absent],
                ![c].listed = {}]
  /\ UNCHANGED <<disk, memory, up, begun, edits, said, doubt, apart>>

ReadsTombstones(c) ==
  /\ Under(c, "tombstones")
  /\ over' = Overridden(call[c].read)
  /\ hidden' = Hidden(call[c].read, stones)
  /\ call' = [call EXCEPT ![c].at = "sets", ![c].read = Effective(call[c].read, stones)]
  /\ UNCHANGED <<disk, profiles, up, begun, edits, said, doubt, apart>>

\* What is read once more after a document was taken back is the end of a failed request.
SetsProfiles(c) ==
  /\ Under(c, "sets")
  /\ profiles' = call[c].read
  /\ apart' = ~call[c].single
  /\ call' = [call EXCEPT ![c].at = IF call[c].back THEN "fails" ELSE "answers",
                ![c].read = <<>>]
  /\ UNCHANGED <<disk, hidden, over, up, begun, edits, said, doubt>>

\* A file that cannot be written or removed ends the request where it is.  After a reading that
\* fails, _write_project takes the document back; whatever stood in its place before is not.
Raises(c) ==
  /\ \/ Under(c, "reads") /\ ~Readable(call[c].listed)
     \/ \E at \in {"unhides", "writes", "unlinks", "hides", "takes back"} : Under(c, at)
  /\ apart' = TRUE
  /\ GoesTo(c, IF call[c].at = "reads" /\ call[c].kind \in {"create", "update"} /\ ~call[c].back
                 THEN "takes back" ELSE "fails")
  /\ UNCHANGED <<disk, memory, up, begun, edits, said, doubt>>

TakesBack(c) ==
  /\ Under(c, "takes back")
  /\ docs' = [docs EXCEPT ![call[c].name] = Absent]
  /\ call' = [call EXCEPT ![c].at = "lists", ![c].back = TRUE]
  /\ UNCHANGED <<stones, memory, up, begun, edits, said, doubt, apart>>

\* The row of the project that is answered; somebody else's reading may have left it out.
HasRow(c) == call[c].kind = "delete" \/ profiles[call[c].name] # Absent

Answers(c) ==
  /\ Under(c, "answers") /\ HasRow(c)
  /\ LET n == call[c].name IN
     /\ said' = [said EXCEPT ![n] = CASE call[c].kind = "delete"  -> Absent
                                      [] call[c].kind = "restore" -> AsShipped
                                      [] OTHER -> call[c].doc]
     /\ doubt' = IF call[c].alone THEN doubt \ {n} ELSE doubt \cup {n}
  /\ call' = [call EXCEPT ![c] = Idle]
  /\ UNCHANGED <<disk, memory, up, begun, edits, apart>>

Fails(c) ==
  /\ Under(c, "fails") \/ (Under(c, "answers") /\ ~HasRow(c))
  /\ doubt' = doubt \cup {call[c].name}
  /\ call' = [call EXCEPT ![c] = Idle]
  /\ UNCHANGED <<disk, memory, up, begun, edits, said, apart>>

-----------------------------------------------------------------------------
\* By hand, between requests: a document that is no profile, or such a one taken away again.
Edits(n) ==
  /\ \A c \in Callers : call[c] = Idle
  /\ \/ edits < MaxEdits /\ docs[n] = Absent /\ docs' = [docs EXCEPT ![n] = Broken] /\ edits' = edits + 1
     \/ docs[n] = Broken /\ docs' = [docs EXCEPT ![n] = Absent] /\ edits' = edits
  /\ doubt' = doubt \cup {n} /\ apart' = TRUE
  /\ UNCHANGED <<stones, memory, up, call, begun, said>>

Crash ==
  /\ up /\ up' = FALSE
  /\ doubt' = doubt \cup {n \in Names : \E c \in Callers : /\ call[c] # Idle
                                                         /\ call[c].at # "checks"
                                                         /\ call[c].name = n}
  /\ call' = [c \in Callers |-> Idle]
  /\ profiles' = [n \in Names |-> Absent] /\ hidden' = {} /\ over' = {} /\ apart' = FALSE
  /\ UNCHANGED <<disk, begun, edits, said>>

\* A document that is no profile stops the service from starting.
Restart ==
  /\ ~up /\ Readable({n \in Names : docs[n] # Absent})
  /\ up' = TRUE /\ apart' = FALSE
  /\ profiles' = Effective(docs, stones)
  /\ hidden' = Hidden(docs, stones) /\ over' = Overridden(docs)
  /\ UNCHANGED <<disk, call, begun, edits, said, doubt>>

CallStep(c) ==
  \/ \E kind \in {"create", "update", "delete", "restore"}, n \in Asked : Begins(c, kind, n)
  \/ Checks(c) \/ Refused(c) \/ Unhides(c) \/ Writes(c) \/ Unlinks(c) \/ Hides(c)
  \/ Lists(c) \/ ReadsDocuments(c) \/ ReadsTombstones(c) \/ SetsProfiles(c)
  \/ Raises(c) \/ TakesBack(c) \/ Answers(c) \/ Fails(c)

Next ==
  \/ \E c \in Callers : CallStep(c)
  \/ \E n \in Names \ {Canary} : Edits(n)
  \/ Crash \/ Restart

Spec == Init /\ [][Next]_vars

-----------------------------------------------------------------------------
\* Every variable holds what the rest of the module takes it to hold, and the health check
\* is there whatever was asked.
TypeOK ==
  /\ docs \in [Names -> Absent .. Broken] /\ stones \subseteq Names
  /\ profiles \in [Names -> Absent .. Broken - 1]
  /\ hidden \subseteq Shipped /\ over \subseteq Shipped /\ doubt \subseteq Names
  /\ up => profiles[Canary] = AsShipped

\* What a request changed, and said so, is what the next start finds, unless another request
\* of the same project met it, was cut off or failed: requests for other projects, failing
\* ones among them, take nothing back.
AnswersAreKept ==
  \A n \in Names \ doubt : ~Busy(n) => Effective(docs, stones)[n] = said[n]

\* What the rig runs is what its files say once a request that met no other has been
\* through, whatever was between.
RunsWhatIsWritten ==
  up /\ ~apart /\ (\A c \in Callers : call[c] = Idle) =>
    /\ profiles = Effective(docs, stones)
    /\ hidden = Hidden(docs, stones) /\ over = Overridden(docs)

-----------------------------------------------------------------------------
(* What the properties rest on.                                            *)

Kinds  == {"create", "update", "delete", "restore"}
Stages == {"checks", "unhides", "writes", "unlinks", "hides", "lists", "reads", "tombstones",
           "sets", "takes back", "answers", "fails"}
Texts  == Absent .. Earlier  \* documents that are profiles, and none
Request == [kind : Kinds, name : Asked, at : Stages, doc : Absent .. MaxCalls + 1,
            back : BOOLEAN, listed : SUBSET Names, read : {<<>>} \cup [Names -> Texts],
            alone : BOOLEAN, single : BOOLEAN]

\* What a request may have in hand at each step; the health check's is the shipped profile.
Lawful(q) ==
  /\ q.kind \in {"create", "update"} => q.doc > AsShipped
  /\ q.at # "checks" /\ q.kind # "restore" => q.name # Canary
  /\ q.at # "checks" /\ q.kind = "restore" => q.name \in Shipped
  /\ q.at \in {"writes", "takes back"} \/ q.back => q.kind \in {"create", "update"}
  /\ q.at = "unhides" => q.kind \in {"create", "restore"}
  /\ q.at = "unlinks" => q.kind \in {"delete", "restore"}
  /\ q.at = "hides" => q.kind = "delete"
  /\ q.at \in {"tombstones", "sets"} =>
       q.read \in [Names -> Texts] /\ q.read[Canary] = IF q.at = "sets" THEN AsShipped ELSE Absent
  /\ q.at = "answers" => ~q.back

RequestsLawful ==
  /\ call \in [Callers -> {Idle} \cup Request] /\ begun \in 0 .. MaxCalls
  /\ \A c \in Callers : call[c] # Idle => up /\ Lawful(call[c])
  /\ docs[Canary] = Absent /\ said \in [Names -> Absent .. Broken]

\* A request that met no other of its project, or none at all.
Apart ==
  \A c, d \in Callers : call[c] # Idle /\ call[d] # Idle /\ c # d =>
    /\ call[c].alone => call[c].name # call[d].name
    /\ ~call[c].single

\* What such a request has made of its project by each step.
Result(q) == CASE q.kind = "delete"  -> Absent
               [] q.kind = "restore" -> AsShipped
               [] OTHER -> q.doc
Made ==
  \A c \in Callers :
    LET q == call[c] IN
    q # Idle /\ q.alone =>
      /\ q.at = "unlinks" /\ q.kind = "restore" => q.name \notin stones
      /\ q.at = "hides" => docs[q.name] = Absent
      /\ q.at \in {"lists", "reads", "tombstones", "sets", "answers"} /\ ~q.back =>
           Effective(docs, stones)[q.name] = Result(q)

\* A project no request has begun to change is as it was answered.
Kept ==
  \A n \in Names \ doubt :
    (\A c \in Callers : call[c] # Idle /\ call[c].name = n => call[c].at = "checks") =>
      Effective(docs, stones)[n] = said[n]

\* A request that met none reads what is there.
ReadWhole ==
  \A c \in Callers :
    LET q == call[c] IN
    q # Idle /\ q.single =>
      /\ q.at = "reads" => q.listed = {n \in Names : docs[n] # Absent}
      /\ q.at = "tombstones" => q.read = docs
      /\ q.at = "sets" => /\ q.read = Effective(docs, stones)
                         /\ hidden = Hidden(docs, stones) /\ over = Overridden(docs)

\* Memory is as the files are while no request is between its checks and its reading.
Runs ==
  up /\ ~apart /\ (\A c \in Callers : call[c].at \in {"idle", "checks", "answers", "fails"}) =>
    /\ profiles = Effective(docs, stones)
    /\ hidden = Hidden(docs, stones) /\ over = Overridden(docs)

Inductive == TypeOK /\ RequestsLawful /\ Apart /\ Made /\ Kept /\ ReadWhole /\ Runs
=============================================================================
